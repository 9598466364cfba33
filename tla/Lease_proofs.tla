----------------------------- MODULE Lease_proofs ------------------------------
(***************************************************************************)
(* How long an end is silent, when a transport is closed for it, and that  *)
(* a transport with quick callbacks is not: for all leases and delays.     *)
(***************************************************************************)
EXTENDS Lease, SequenceTheorems, TLAPS

-------------------------------------------------------------------------------
(* The inductive invariant.  tx and its timer bound the silence of a node.    *)

Quarter(n) == Lease[n] \div 4

\* The longest wait with a transmission that sync has not dated, and with one that it has.
First(n) == Quarter(n) + longest[n]
Second(n) == Quarter(n) + 1 + longest[n]

\* From one wait to the next, with kept[n] ticks of callbacks so far.
Turning(n) ==
  /\ tx[n].state \in {"Opened", "Used"} => quiet[n] <= Quarter(n) + kept[n]
  /\ tx[n].state = "Synchronized" =>
       /\ tx[n].age <= Quarter(n) + 1 + kept[n]
       /\ tx[n].age <= Lease[n] => quiet[n] <= First(n) + tx[n].age
  /\ \/ tx[n].state = "Closed" /\ pc[n] = "sync"
     \/ quiet[n] <= First(n) + Quarter(n) + 1 + kept[n]

\* With the timer of tx set.
Timed(n) ==
  /\ tx[n].state # "Opened"
  /\ tx[n].state = "Used" => quiet[n] + write_in[n] <= Quarter(n)
  /\ tx[n].state = "Synchronized" =>
       /\ write_in[n] = TimeLeft(tx[n], Quarter(n))
       /\ tx[n].age <= Second(n) /\ tx[n].age <= Lease[n] /\ quiet[n] <= First(n) + tx[n].age
  /\ tx[n].state = "Closed" => write_in[n] = 0

SentInTime(n) ==
  /\ kept[n] <= longest[n]
  /\ pc[n] \in {"select", "spin"} => kept[n] = 0
  /\ longest[n] < MaxKept =>
       /\ pc[n] \in {"sync", "poll", "update"} => Turning(n)
       /\ pc[n] \in {"poll", "select", "spin"} => Timed(n)
       /\ pc[n] = "spin" =>
            tx[n].state # "Closed" /\ (tx[n].state = "Synchronized" => tx[n].age <= Quarter(n) + 1)
       /\ Running(n) => quiet[n] <= Silence(n)

\* rx and its timer.
Heard(n) == rx[n].state = "Synchronized"
Between == {"sync", "poll", "select", "spin"}
Clocked(n) ==
  /\ pc[n] = "sync" => rx[n].state # "Closed"
  /\ pc[n] \in {"poll", "select", "spin"} => Heard(n) /\ read_in[n] = TimeLeft(rx[n], RxLease(n))
  /\ pc[n] = "update" => rx[n].state = "Used"
  /\ Heard(n) => rx[n].age <= RxLease(n) + 1

\* The batches on the link are no younger than the silence of their sender.
Delivered(n) ==
  Running(n) =>
    /\ Len(net[n]) <= behind[Other(n)] + 1
    /\ \A i \in DOMAIN net[n] : net[n][i] < MaxDelay => quiet[Other(n)] <= net[n][i]

\* When the next batch is read at the latest, with those that have been read before it.
Reads(n) == MaxDelay + MaxBusy + (behind[Other(n)] + 1 - Len(net[n])) * MaxBusy

\* What is on the link is read in time, and from then on rx counts.
ReadInTime(n) ==
  /\ pc[n] = "update" => quiet[Other(n)] + busy[n] <= Reads(n)
  /\ pc[n] \in Between /\ net[n] # <<>> => quiet[Other(n)] <= Reads(n)
  /\ pc[n] \in Between /\ net[n] = <<>> =>
       quiet[Other(n)] <= Reads(n) + (IF Heard(n) THEN rx[n].age ELSE 0)

\* While both nodes are there, rx is no older than the silence before what is on the link.
BothThere == QuickEnough /\ \A n \in Nodes : pc[n] # "crashed"
Alive(n) ==
  /\ pc[n] # "ended" /\ tx[n].state # "Closed"
  /\ pc[n] \in Between /\ Heard(n) =>
       /\ net[n] = <<>> => rx[n].age <= quiet[Other(n)]
       /\ net[n] # <<>> => rx[n].age <= Silence(Other(n)) + Head(net[n])

IInv ==
  /\ TypeOK
  /\ \A n \in Nodes : SentInTime(n) /\ Clocked(n) /\ Delivered(n) /\ ReadInTime(n)
  /\ BothThere => \A n \in Nodes : Alive(n)

-------------------------------------------------------------------------------
(* The two ends and their times.                                              *)

LEMMA Ends ==
  \A n \in Nodes : /\ Other(n) \in Nodes /\ Other(n) # n /\ Other(Other(n)) = n
                   /\ \A m \in Nodes : m = n \/ m = Other(n)
<1>1. PICK a, b \in Nodes : a # b /\ Nodes = {a, b}
  BY NodesAssumption
<1>2. Other(a) = b /\ Other(b) = a
  BY <1>1 DEF Other
<1> QED
  BY <1>1, <1>2

LEMMA Times ==
  \A n \in Nodes :
    /\ Lease[n] \in Nat /\ Quarter(n) \in Nat /\ Quarter(n) >= 1
    /\ Lease[n] = 4 * Quarter(n) /\ Lease[n] \div 2 = 2 * Quarter(n)
    /\ Lease[n] + 2 * MaxKept < MaxQuiet
    /\ MaxDelay \in Nat /\ MaxBusy \in Nat /\ MaxQuiet \in Nat /\ MaxKept \in Nat
<1> SUFFICES ASSUME NEW n \in Nodes
             PROVE  /\ Lease[n] \in Nat /\ Quarter(n) \in Nat /\ Quarter(n) >= 1
                    /\ Lease[n] = 4 * Quarter(n) /\ Lease[n] \div 2 = 2 * Quarter(n)
                    /\ Lease[n] + 2 * MaxKept < MaxQuiet
                    /\ MaxDelay \in Nat /\ MaxBusy \in Nat /\ MaxQuiet \in Nat /\ MaxKept \in Nat
  OBVIOUS
<1>1. /\ Lease[n] \in Nat /\ Lease[n] > 0 /\ Lease[n] % 4 = 0
      /\ MaxDelay \in Nat /\ MaxBusy \in Nat /\ MaxQuiet \in Nat /\ MaxKept \in Nat
      /\ Lease[n] + 2 * MaxKept < MaxQuiet
  BY TimesAssumption
<1>2. /\ Quarter(n) \in Nat /\ Quarter(n) >= 1 /\ Lease[n] = 4 * Quarter(n)
      /\ Lease[n] \div 2 = 2 * Quarter(n)
  BY <1>1 DEF Quarter
<1> QED
  BY <1>1, <1>2

\* What depends on the longest run of callbacks so far.
LEMMA Waits ==
  ASSUME TypeOK, NEW n \in Nodes
  PROVE  /\ longest[n] \in Nat /\ longest[n] <= MaxKept
         /\ kept[n] \in Nat /\ kept[n] <= MaxKept
         /\ First(n) \in Nat /\ Second(n) \in Nat /\ Silence(n) = First(n) + Second(n)
         /\ First(n) = Quarter(n) + longest[n] /\ Second(n) = Quarter(n) + 1 + longest[n]
         /\ Silence(n) \in Nat
         /\ longest[n] < MaxKept => Silence(n) < MaxQuiet
<1>1. longest[n] \in 0..MaxKept /\ kept[n] \in 0..MaxKept
  BY DEF TypeOK
<1>2. MaxKept \in Nat /\ Quarter(n) \in Nat /\ Quarter(n) >= 1
  BY Times
<1>3. /\ Lease[n] = 4 * Quarter(n) /\ Lease[n] \div 2 = 2 * Quarter(n) /\ MaxQuiet \in Nat
      /\ Lease[n] + 2 * MaxKept < MaxQuiet
  BY Times
<1>4. PICK l \in Nat : l = longest[n] /\ l <= MaxKept
  BY <1>1, <1>2
<1>5. Silence(n) = 2 * Quarter(n) + 1 + 2 * l
  BY <1>3, <1>4 DEF Silence
<1>6. First(n) = Quarter(n) + l /\ Second(n) = Quarter(n) + 1 + l
  BY <1>4 DEF First, Second
<1>7. l < MaxKept => Silence(n) < MaxQuiet
  BY <1>2, <1>3, <1>4, <1>5
<1> QED
  BY <1>1, <1>2, <1>4, <1>5, <1>6, <1>7

-------------------------------------------------------------------------------
(* Types.                                                                     *)

LEMMA Clocks ==
  ASSUME NEW clock \in Clock, NEW age \in Nat, NEW closed \in BOOLEAN
  PROVE  /\ Synced(clock, age, closed) \in Clock /\ Aged(clock, age) \in Clock
         /\ TimeLeft(clock, age) \in Nat
         /\ \A s \in {"Opened", "Used", "Synchronized", "Closed"} :
              Only(s) \in Clock /\ Only(s).state = s /\ Only(s).age = 0
BY DEF Clock, Only, Synced, Aged, TimeLeft

LEMMA Counts ==
  ASSUME NEW most \in Nat, NEW ticks \in 0..most
  PROVE  /\ More(ticks, most) \in 0..most /\ More(ticks, most) <= ticks + 1
         /\ ticks < most => More(ticks, most) = ticks + 1
BY DEF More

LEMMA TransmitTypes ==
  ASSUME TypeOK, NEW n \in Nodes, Transmit(n)
  PROVE  /\ tx' \in [Nodes -> Clock] /\ net' \in [Nodes -> Seq(0..MaxDelay)]
         /\ quiet' \in [Nodes -> Nat] /\ behind' \in [Nodes -> Nat]
<1> DEFINE m == Other(n)
<1>1. m \in Nodes /\ MaxDelay \in Nat
  BY Ends, Times
<1>2. net[m] \in Seq(0..MaxDelay) /\ Len(net[m]) \in Nat
  BY <1>1, LenProperties DEF TypeOK
<1>3. Append(net[m], 0) \in Seq(0..MaxDelay)
  BY <1>1, <1>2, AppendProperties
<1>4. Only("Used") \in Clock
  BY DEF Only, Clock
<1> QED
  BY <1>1, <1>2, <1>3, <1>4 DEF TypeOK, Transmit

LEMMA TypeStep == TypeOK /\ [Next]_vars => TypeOK'
<1> SUFFICES ASSUME TypeOK, [Next]_vars PROVE TypeOK'
  OBVIOUS
<1>0. /\ \A n \in Nodes : /\ tx[n] \in Clock /\ rx[n] \in Clock
                          /\ Lease[n] \in Nat /\ RxLease(n) \in Nat /\ Quarter(n) \in Nat
                          /\ net[n] \in Seq(0..MaxDelay)
      /\ MaxDelay \in Nat /\ MaxBusy \in Nat /\ MaxQuiet \in Nat /\ MaxKept \in Nat
  <2>1. MaxDelay \in Nat /\ MaxBusy \in Nat /\ MaxQuiet \in Nat /\ MaxKept \in Nat
    BY TimesAssumption
  <2> QED
    BY <2>1, Ends, Times DEF TypeOK, RxLease
<1>1. ASSUME NEW n \in Nodes, Sync(n) PROVE TypeOK'
  <2>1. PICK r, t : /\ r = Synced(rx[n], RxLease(n), tx[n].state = "Closed")
                    /\ t = Synced(tx[n], Lease[n], r.state = "Closed")
    OBVIOUS
  <2>2. r \in Clock
    BY <1>0, <2>1, Clocks
  <2>3. t \in Clock
    BY <1>0, <2>1, Clocks
  <2>4. TimeLeft(t, Lease[n] \div 4) \in Nat /\ TimeLeft(r, RxLease(n)) \in Nat
    BY <1>0, <2>2, <2>3, Clocks DEF Quarter
  <2> QED
    BY <1>1, <2>1, <2>2, <2>3, <2>4 DEF Sync, TypeOK, history
<1>2. ASSUME NEW n \in Nodes, WriteTimer(n) PROVE TypeOK'
  BY <1>2, TransmitTypes DEF WriteTimer, TypeOK
<1>3. ASSUME NEW n \in Nodes, ReadTimer(n) \/ Updated(n) \/ Spin(n) PROVE TypeOK'
  BY <1>3 DEF ReadTimer, Updated, Spin, TypeOK, history
<1>4. ASSUME NEW n \in Nodes, RecvAtOnce(n) \/ Recv(n) PROVE TypeOK'
  <2>0. Take(n)
    BY <1>4 DEF RecvAtOnce, Recv
  <2>1. Tail(net[n]) \in Seq(0..MaxDelay)
    BY <1>0, <2>0, HeadTailProperties DEF Take
  <2>2. Only("Used") \in Clock
    BY DEF Only, Clock
  <2> QED
    BY <2>0, <2>1, <2>2 DEF Take, TypeOK, history
<1>5. ASSUME NEW n \in Nodes, Send(n) PROVE TypeOK'
  BY <1>5, TransmitTypes DEF Send, TypeOK
<1>6. ASSUME NEW n \in Nodes, Pends(n) PROVE TypeOK'
  <2>1. 0 \in 0..MaxKept
    BY <1>0
  <2> QED
    BY <1>6, <2>1 DEF Pends, TypeOK
<1>7. ASSUME NEW n \in Nodes, Crash(n) PROVE TypeOK'
  <2>1. Only("Closed") \in Clock /\ 0 \in 0..MaxBusy /\ <<>> \in Seq(0..MaxDelay) /\ 0 \in Nat
    BY <1>0, EmptySeq DEF Only, Clock
  <2> QED
    BY <1>7, <2>1 DEF Crash, TypeOK, history
<1>8. CASE Tick
  <2>1. tx' \in [Nodes -> Clock] /\ rx' \in [Nodes -> Clock]
    <3>1. \A n \in Nodes : Aged(tx[n], Lease[n] + 1) \in Clock /\ Aged(rx[n], RxLease(n) + 1) \in Clock
      <4>1. \A n \in Nodes : Lease[n] + 1 \in Nat /\ RxLease(n) + 1 \in Nat
        BY <1>0
      <4> QED
        BY <1>0, <4>1, Clocks
    <3> QED
      BY <1>8, <3>1 DEF Tick
  <2>2. /\ write_in' \in [Nodes -> Nat] /\ read_in' \in [Nodes -> Nat]
        /\ busy' \in [Nodes -> 0..MaxBusy] /\ quiet' \in [Nodes -> Nat]
        /\ behind' \in [Nodes -> Nat] /\ UNCHANGED pc
    <3>1. \A n \in Nodes : /\ write_in[n] \in Nat /\ read_in[n] \in Nat /\ quiet[n] \in Nat
                            /\ busy[n] \in 0..MaxBusy
      BY DEF TypeOK
    <3>2. \A n \in Nodes : /\ Later(write_in[n]) \in Nat /\ Later(read_in[n]) \in Nat
                            /\ Later(busy[n]) \in 0..MaxBusy
      BY <1>0, <3>1 DEF Later
    <3>3. \A n \in Nodes : More(quiet[n], MaxQuiet) \in Nat
      BY <1>0, <3>1 DEF More
    <3> QED
      BY <1>8, <3>2, <3>3 DEF Tick, TypeOK
  <2>3. net' \in [Nodes -> Seq(0..MaxDelay)]
    <3>1. ASSUME NEW n \in Nodes
          PROVE  [i \in DOMAIN net[n] |-> More(net[n][i], MaxDelay)] \in Seq(0..MaxDelay)
      <4>1. /\ Len(net[n]) \in Nat /\ DOMAIN net[n] = 1..Len(net[n])
            /\ \A i \in 1..Len(net[n]) : net[n][i] \in 0..MaxDelay
        BY <1>0, LenProperties
      <4>2. \A i \in 1..Len(net[n]) : More(net[n][i], MaxDelay) \in 0..MaxDelay
        BY <1>0, <4>1, Counts
      <4> QED
        BY <4>1, <4>2, SeqDef
    <3> QED
      BY <1>8, <3>1 DEF Tick
  <2>4. kept' \in [Nodes -> 0..MaxKept] /\ longest' \in [Nodes -> 0..MaxKept]
    <3>1. \A n \in Nodes : /\ kept[n] \in 0..MaxKept /\ longest[n] \in 0..MaxKept
                           /\ More(kept[n], MaxKept) \in 0..MaxKept
      BY <1>0, Counts DEF TypeOK
    <3> QED
      BY <1>8, <3>1 DEF Tick
  <2> QED
    BY <2>1, <2>2, <2>3, <2>4 DEF TypeOK
<1>9. CASE UNCHANGED vars
  BY <1>9 DEF vars, TypeOK
<1> QED
  BY <1>1, <1>2, <1>3, <1>4, <1>5, <1>6, <1>7, <1>8, <1>9 DEF Next, Loop

-------------------------------------------------------------------------------
(* What a step does to one end.                                               *)

LEMMA NodeTypes ==
  ASSUME TypeOK, NEW n \in Nodes
  PROVE  /\ pc[n] \in {"sync", "poll", "select", "spin", "update", "ended", "crashed"}
         /\ tx[n] \in Clock /\ tx[n].state \in {"Opened", "Used", "Synchronized", "Closed"}
         /\ rx[n] \in Clock /\ rx[n].state \in {"Opened", "Used", "Synchronized", "Closed"}
         /\ tx[n].age \in Nat /\ rx[n].age \in Nat /\ RxLease(n) \in Nat
         /\ write_in[n] \in Nat /\ read_in[n] \in Nat /\ busy[n] \in Nat /\ busy[n] <= MaxBusy
         /\ quiet[n] \in Nat /\ behind[n] \in Nat /\ net[n] \in Seq(0..MaxDelay)
<1>1. RxLease(n) \in Nat /\ MaxBusy \in Nat
  BY Ends, Times DEF RxLease
<1>2. busy[n] \in 0..MaxBusy
  BY DEF TypeOK
<1> QED
  BY <1>1, <1>2 DEF TypeOK, Clock

\* What the other end does reaches a node on the link only.
Sent(n) ==
  /\ quiet'[n] = 0 /\ behind'[n] = Len(net[Other(n)])
  /\ Running(Other(n)) => net'[Other(n)] = Append(net[Other(n)], 0)
Untouched(n) ==
  /\ UNCHANGED <<pc[n], tx[n], rx[n], write_in[n], read_in[n], busy[n], quiet[n], behind[n]>>
  /\ UNCHANGED <<kept[n], longest[n]>>

LEMMA Apart ==
  ASSUME TypeOK, NEW n \in Nodes, NEW a \in Nodes, a # n, Loop(a) \/ Send(a) \/ Crash(a)
  PROVE  /\ Untouched(n) /\ a = Other(n) /\ UNCHANGED longest[a]
         /\ UNCHANGED <<net[n], quiet[a], behind[a]>> \/ Sent(a)
         /\ pc[a] = "crashed" => pc'[a] = "crashed"
<1>1. a = Other(n) /\ n = Other(a)
  BY Ends
<1>2. CASE Sync(a) \/ Pends(a) \/ Spin(a) \/ ReadTimer(a) \/ Updated(a) \/ Crash(a)
  BY <1>1, <1>2 DEF Sync, Pends, Spin, ReadTimer, Updated, Crash, TypeOK, Untouched, Running, history
<1>3. CASE WriteTimer(a)
  <2>1. Transmit(a) \/ UNCHANGED <<tx, net, quiet, behind>>
    BY <1>3 DEF WriteTimer
  <2>2. /\ UNCHANGED <<rx, write_in, read_in, busy, kept, longest>> /\ pc[a] # "crashed"
        /\ pc' = [pc EXCEPT ![a] = "ended"] \/ pc' = [pc EXCEPT ![a] = "sync"]
    BY <1>3 DEF WriteTimer
  <2>3. UNCHANGED <<pc[n], rx[n], write_in[n], read_in[n], busy[n], kept[n], longest[n], longest[a]>>
    BY <1>1, <2>2 DEF TypeOK
  <2>4. CASE Transmit(a)
    <3>1. UNCHANGED <<tx[n], quiet[n], behind[n]>>
      BY <2>4 DEF Transmit, TypeOK
    <3>2. quiet'[a] = 0 /\ behind'[a] = Len(net[Other(a)])
      BY <2>4 DEF Transmit, TypeOK
    <3>3. Running(Other(a)) => net'[Other(a)] = Append(net[Other(a)], 0)
      <4>1. Running(Other(a)) => net' = [net EXCEPT ![Other(a)] = Append(@, 0)]
        BY <2>4 DEF Transmit
      <4> QED
        BY <1>1, <4>1 DEF TypeOK
    <3> QED
      BY <1>1, <2>2, <2>3, <3>1, <3>2, <3>3 DEF Untouched, Sent
  <2>5. CASE UNCHANGED <<tx, net, quiet, behind>>
    BY <1>1, <2>2, <2>3, <2>5 DEF Untouched
  <2> QED
    BY <2>1, <2>4, <2>5
<1>4. CASE RecvAtOnce(a) \/ Recv(a)
  <2>1. Take(a) /\ pc[a] # "crashed"
    BY <1>4 DEF RecvAtOnce, Recv
  <2> QED
    BY <1>1, <2>1 DEF Take, TypeOK, Untouched, history
<1>5. CASE Send(a)
  BY <1>1, <1>5 DEF Send, Transmit, TypeOK, Untouched, Sent
<1> QED
  BY <1>2, <1>3, <1>4, <1>5 DEF Loop

\* The steps of a node itself, one by one.
Silent(n) ==
  UNCHANGED <<quiet[n], behind[n], quiet[Other(n)], behind[Other(n)], kept[n], longest[n]>>

LEMMA SyncMoves ==
  ASSUME TypeOK, NEW n \in Nodes, Sync(n)
  PROVE  /\ pc[n] = "sync" /\ Silent(n) /\ UNCHANGED <<busy[n], net[n]>>
         /\ rx'[n] = Synced(rx[n], RxLease(n), tx[n].state = "Closed")
         /\ tx'[n] = Synced(tx[n], Lease[n], rx'[n].state = "Closed")
         /\ pc'[n] = IF rx'[n].state = "Closed" THEN "ended" ELSE "poll"
         /\ write_in'[n] = TimeLeft(tx'[n], Quarter(n))
         /\ read_in'[n] = TimeLeft(rx'[n], RxLease(n))
<1>1. PICK r, t : /\ r = Synced(rx[n], RxLease(n), tx[n].state = "Closed")
                  /\ t = Synced(tx[n], Lease[n], r.state = "Closed")
  OBVIOUS
<1>2. rx'[n] = r /\ tx'[n] = t
  BY <1>1 DEF Sync, TypeOK
<1> QED
  BY <1>1, <1>2 DEF Sync, TypeOK, Silent, Quarter, history

LEMMA WriteMoves ==
  ASSUME TypeOK, NEW n \in Nodes, WriteTimer(n)
  PROVE  /\ pc[n] \in {"select", "spin"} /\ write_in[n] = 0 /\ Due(n)
         /\ UNCHANGED <<rx[n], net[n], busy[n], quiet[Other(n)], behind[Other(n)]>>
         /\ UNCHANGED <<kept[n], longest[n]>>
         /\ \/ pc'[n] = "ended" /\ Expired(tx[n], Lease[n]) /\ UNCHANGED <<tx[n], quiet[n]>>
            \/ /\ pc'[n] = "sync" /\ ~Expired(tx[n], Lease[n])
               /\ \/ ShouldSendKeepAlive(n) /\ tx'[n] = Only("Used") /\ quiet'[n] = 0
                  \/ ~ShouldSendKeepAlive(n) /\ UNCHANGED <<tx[n], quiet[n]>>
BY Ends DEF WriteTimer, Transmit, TypeOK

LEMMA ReadMoves ==
  ASSUME TypeOK, NEW n \in Nodes, ReadTimer(n)
  PROVE  /\ pc[n] \in {"select", "spin"} /\ write_in[n] > 0 /\ read_in[n] = 0 /\ Due(n) /\ Silent(n)
         /\ UNCHANGED <<tx[n], rx[n], net[n], busy[n]>>
         /\ pc'[n] = IF Expired(rx[n], RxLease(n)) THEN "ended" ELSE "sync"
BY DEF ReadTimer, TypeOK, Silent, history

LEMMA RecvMoves ==
  ASSUME TypeOK, NEW n \in Nodes, RecvAtOnce(n) \/ Recv(n)
  PROVE  /\ \/ pc[n] = "poll"
            \/ pc[n] = "select" /\ write_in[n] > 0 /\ read_in[n] > 0
            \/ pc[n] = "spin"
         /\ Silent(n) /\ net[n] # <<>> /\ net'[n] = Tail(net[n]) /\ UNCHANGED tx[n]
         /\ pc'[n] = "update" /\ rx'[n] = Only("Used")
         /\ busy'[n] \in Nat /\ busy'[n] <= MaxBusy
<1>1. MaxBusy \in Nat /\ Take(n) /\ write_in[n] \in Nat /\ read_in[n] \in Nat
  BY Times, NodeTypes DEF RecvAtOnce, Recv
<1>2. PICK ticks \in 0..MaxBusy : busy' = [busy EXCEPT ![n] = ticks]
  BY <1>1 DEF Take
<1>3. busy'[n] \in Nat /\ busy'[n] <= MaxBusy
  BY <1>1, <1>2 DEF TypeOK
<1>4. \/ pc[n] = "poll"
      \/ pc[n] = "select" /\ write_in[n] > 0 /\ read_in[n] > 0
      \/ pc[n] = "spin"
  BY <1>1 DEF RecvAtOnce, Recv, Fired
<1> QED
  BY <1>1, <1>3, <1>4 DEF Take, TypeOK, Silent, history

LEMMA WaitMoves ==
  ASSUME TypeOK, NEW n \in Nodes, Pends(n) \/ Spin(n)
  PROVE  /\ UNCHANGED <<tx[n], rx[n], write_in[n], read_in[n], busy[n], net[n]>>
         /\ UNCHANGED <<quiet[n], behind[n], quiet[Other(n)], behind[Other(n)], longest[n]>>
         /\ \/ pc[n] = "poll" /\ pc'[n] = "select" /\ kept'[n] = 0
            \/ pc[n] = "select" /\ pc'[n] = "spin" /\ ~Due(n) /\ kept'[n] = kept[n]
BY DEF Pends, Spin, TypeOK, history

LEMMA SendMoves ==
  ASSUME TypeOK, NEW n \in Nodes, Send(n)
  PROVE  /\ UNCHANGED <<pc[n], rx[n], write_in[n], read_in[n], busy[n], net[n]>>
         /\ UNCHANGED <<quiet[Other(n)], behind[Other(n)], kept[n], longest[n]>>
         /\ tx'[n] = Only("Used") /\ quiet'[n] = 0
BY Ends DEF Send, Transmit, TypeOK

LEMMA UpdatedMoves ==
  ASSUME TypeOK, NEW n \in Nodes, Updated(n)
  PROVE  /\ UNCHANGED <<tx[n], rx[n], net[n], busy[n]>> /\ Silent(n)
         /\ pc[n] = "update" /\ busy[n] = 0 /\ pc'[n] = "sync"
BY DEF Updated, TypeOK, Silent, history

LEMMA CrashMoves ==
  ASSUME TypeOK, NEW n \in Nodes, Crash(n)
  PROVE  Silent(n) /\ pc'[n] = "crashed" /\ rx'[n] = Only("Closed")
BY DEF Crash, TypeOK, Silent, history

LEMMA TickMoves ==
  ASSUME TypeOK, NEW n \in Nodes, Tick
  PROVE  /\ ~Overdue(n) /\ UNCHANGED <<pc[n], behind[n]>>
         /\ tx'[n] = Aged(tx[n], Lease[n] + 1) /\ rx'[n] = Aged(rx[n], RxLease(n) + 1)
         /\ write_in'[n] = Later(write_in[n]) /\ read_in'[n] = Later(read_in[n])
         /\ busy'[n] = Later(busy[n])
         /\ DOMAIN net'[n] = DOMAIN net[n] /\ Len(net'[n]) = Len(net[n])
         /\ \A i \in DOMAIN net[n] : net'[n][i] = More(net[n][i], MaxDelay)
         /\ quiet'[n] <= quiet[n] + 1
         /\ quiet[n] < MaxQuiet => quiet'[n] = quiet[n] + 1
<1>1. /\ MaxQuiet \in Nat /\ quiet[n] \in Nat /\ net[n] \in Seq(0..MaxDelay)
      /\ Len(net[n]) \in Nat /\ DOMAIN net[n] = 1..Len(net[n])
  BY NodeTypes, LenProperties, TimesAssumption
<1>2. /\ DOMAIN net'[n] = DOMAIN net[n]
      /\ \A i \in DOMAIN net[n] : net'[n][i] = More(net[n][i], MaxDelay)
  BY DEF Tick, TypeOK
<1>3. Len(net'[n]) = Len(net[n])
  <2>1. net'[n] \in Seq(0..MaxDelay)
    BY TypeStep DEF TypeOK, Next
  <2>2. DOMAIN net'[n] = 1..Len(net'[n]) /\ Len(net'[n]) \in Nat
    BY <2>1, LenProperties
  <2> QED
    BY <1>1, <1>2, <2>2
<1>4. quiet'[n] <= quiet[n] + 1 /\ (quiet[n] < MaxQuiet => quiet'[n] = quiet[n] + 1)
  <2>1. quiet'[n] = More(quiet[n], MaxQuiet)
    BY DEF Tick, TypeOK
  <2> QED
    BY <1>1, <2>1 DEF More
<1> QED
  BY <1>2, <1>3, <1>4 DEF Tick, TypeOK

\* The counts of a tick.
LEMMA TickKept ==
  ASSUME TypeOK, NEW n \in Nodes, Tick, kept[n] <= longest[n]
  PROVE  /\ kept'[n] \in Nat /\ longest'[n] \in Nat
         /\ kept'[n] <= longest'[n] /\ longest[n] <= longest'[n]
         /\ pc[n] # "update" => UNCHANGED <<kept[n], longest[n]>>
         /\ pc[n] = "update" /\ longest'[n] < MaxKept => kept'[n] = kept[n] + 1
<1>1. /\ kept[n] \in 0..MaxKept /\ longest[n] \in 0..MaxKept /\ MaxKept \in Nat
      /\ kept'[n] = IF pc[n] = "update" THEN More(kept[n], MaxKept) ELSE kept[n]
      /\ longest'[n] = IF pc[n] = "update" /\ longest[n] = kept[n]
                         THEN More(kept[n], MaxKept) ELSE longest[n]
  BY Times DEF TypeOK, Tick
<1>2. PICK k \in Nat, l \in Nat : k = kept[n] /\ l = longest[n] /\ k <= MaxKept /\ l <= MaxKept
  BY <1>1
<1> QED
  BY <1>1, <1>2 DEF More

\* The longest run never gets shorter.
LEMMA LongestGrows ==
  ASSUME TypeOK, NEW n \in Nodes, kept[n] <= longest[n], [Next]_vars
  PROVE  longest[n] <= longest'[n]
<1>1. longest[n] \in Nat
  BY Waits
<1>2. ASSUME NEW a \in Nodes, Loop(a) \/ Send(a) \/ Crash(a) PROVE UNCHANGED longest[n]
  <2>1. CASE a # n
    BY <1>2, <2>1, Apart DEF Untouched
  <2>2. CASE a = n
    BY <1>2, <2>2, SyncMoves, WriteMoves, ReadMoves, RecvMoves, WaitMoves, SendMoves, UpdatedMoves,
       CrashMoves DEF Loop, Silent
  <2> QED
    BY <2>1, <2>2
<1>3. CASE UNCHANGED vars
  BY <1>1, <1>3 DEF vars
<1> QED
  BY <1>1, <1>2, <1>3, TickKept DEF Next

-------------------------------------------------------------------------------
(* Silence.                                                                   *)

\* What a tick does to the age and the timer of a clock.
LEMMA TickClock ==
  ASSUME NEW clock \in Clock, NEW most \in Nat, NEW age \in Nat, age < most
  PROVE  /\ Aged(clock, most).state = clock.state /\ Aged(clock, most) \in Clock
         /\ clock.state # "Synchronized" => Aged(clock, most) = clock
         /\ clock.state = "Synchronized" =>
              /\ clock.age < most => Aged(clock, most).age = clock.age + 1
              /\ ~(clock.age < most) => Aged(clock, most).age = clock.age
              /\ TimeLeft(Aged(clock, most), age) = Later(TimeLeft(clock, age))
BY DEF Clock, Aged, TimeLeft, Later

LEMMA SentTick ==
  ASSUME TypeOK, NEW n \in Nodes, SentInTime(n), Tick
  PROVE  SentInTime(n)'
<1> USE DEF Running
<1>0. /\ tx[n] \in Clock /\ tx[n].state \in {"Opened", "Used", "Synchronized", "Closed"}
      /\ write_in[n] \in Nat /\ quiet[n] \in Nat /\ tx[n].age \in Nat
      /\ tx'[n] \in Clock /\ tx'[n].age \in Nat
      /\ quiet'[n] \in Nat /\ quiet'[n] <= quiet[n] + 1
  BY NodeTypes, TypeStep, TickMoves DEF Next, TypeOK, Clock
<1>1. /\ Lease[n] \in Nat /\ Quarter(n) \in Nat /\ Quarter(n) >= 1 /\ Lease[n] = 4 * Quarter(n)
      /\ longest[n] \in Nat /\ kept[n] \in Nat /\ MaxKept \in Nat
      /\ First(n) = Quarter(n) + longest[n] /\ Second(n) = Quarter(n) + 1 + longest[n]
      /\ Silence(n) = First(n) + Second(n)
  BY Times, Waits
<1>2. /\ ~Overdue(n) /\ pc'[n] = pc[n] /\ pc[n] \notin {"sync", "poll"}
      /\ write_in'[n] = Later(write_in[n])
  BY TickMoves DEF Overdue
<1>3. /\ tx'[n].state = tx[n].state
      /\ tx[n].state # "Synchronized" => tx'[n] = tx[n]
      /\ tx[n].state = "Synchronized" =>
           /\ tx[n].age <= Lease[n] => tx'[n].age = tx[n].age + 1
           /\ ~(tx[n].age <= Lease[n]) => tx'[n].age = tx[n].age
           /\ TimeLeft(tx'[n], Quarter(n)) = Later(TimeLeft(tx[n], Quarter(n)))
  <2>1. Lease[n] + 1 \in Nat /\ Quarter(n) < Lease[n] + 1 /\ tx'[n] = Aged(tx[n], Lease[n] + 1)
    BY <1>1, TickMoves
  <2>2. tx[n].age <= Lease[n] <=> tx[n].age < Lease[n] + 1
    BY <1>0, <1>1
  <2>3. PICK most \in Nat, age \in Nat : most = Lease[n] + 1 /\ age = Quarter(n) /\ age < most
    BY <1>1, <2>1
  <2>4. /\ Aged(tx[n], most).state = tx[n].state
        /\ tx[n].state # "Synchronized" => Aged(tx[n], most) = tx[n]
        /\ tx[n].state = "Synchronized" =>
             /\ tx[n].age < most => Aged(tx[n], most).age = tx[n].age + 1
             /\ ~(tx[n].age < most) => Aged(tx[n], most).age = tx[n].age
             /\ TimeLeft(Aged(tx[n], most), age) = Later(TimeLeft(tx[n], age))
    BY <1>0, <2>3, TickClock
  <2> QED
    BY <2>1, <2>2, <2>3, <2>4
<1>4. /\ kept[n] <= longest[n] /\ kept'[n] \in Nat /\ longest'[n] \in Nat
      /\ kept'[n] <= longest'[n] /\ longest[n] <= longest'[n]
      /\ pc[n] # "update" => kept'[n] = kept[n] /\ longest'[n] = longest[n]
      /\ pc[n] = "update" /\ longest'[n] < MaxKept => kept'[n] = kept[n] + 1
      /\ pc[n] \in {"select", "spin"} => kept[n] = 0
  BY TickKept DEF SentInTime
<1>5. /\ First(n)' = Quarter(n) + longest'[n] /\ Second(n)' = Quarter(n) + 1 + longest'[n]
      /\ Silence(n)' = First(n)' + Second(n)' /\ Quarter(n)' = Quarter(n)
  <2>1. TypeOK'
    BY TypeStep DEF Next
  <2>2. Silence(n)' = Lease[n] \div 2 + 1 + 2 * longest'[n]
    BY DEF Silence
  <2>3. Lease[n] \div 2 = 2 * Quarter(n)
    BY Times
  <2> QED
    BY <1>1, <1>4, <2>2, <2>3 DEF First, Second, Quarter
<1>6. ASSUME longest'[n] < MaxKept, pc[n] \in {"select", "spin"}
      PROVE  /\ Timed(n)' /\ quiet'[n] <= Silence(n)'
             /\ pc[n] = "spin" => tx'[n].state # "Closed"
                                  /\ (tx'[n].state = "Synchronized" => tx'[n].age <= Quarter(n) + 1)
  <2>1. /\ Timed(n) /\ quiet[n] <= Silence(n) /\ longest'[n] = longest[n] /\ kept[n] = 0
        /\ pc[n] = "spin" => tx[n].state # "Closed"
    BY <1>4, <1>6 DEF SentInTime
  <2>2. pc[n] = "spin" \/ write_in[n] = 0 => ~ShouldSendKeepAlive(n) /\ tx[n].state = "Synchronized"
    BY <1>2, <1>6 DEF Overdue, Due, Fired
  <2>3. CASE tx[n].state = "Used"
    <3>1. quiet'[n] + write_in'[n] <= Quarter(n) /\ write_in'[n] \in Nat /\ pc[n] # "spin"
      BY <1>0, <1>1, <1>2, <2>1, <2>2, <2>3 DEF Timed, Later
    <3> QED
      BY <1>0, <1>1, <1>3, <1>4, <1>5, <2>1, <2>3, <3>1 DEF Timed
  <2>4. CASE tx[n].state = "Synchronized"
    <3>1. /\ write_in[n] = TimeLeft(tx[n], Quarter(n)) /\ tx[n].age <= Lease[n]
          /\ quiet[n] <= First(n) + tx[n].age
      BY <2>1, <2>4 DEF Timed
    <3>2. tx[n].age <= Quarter(n)
      BY <1>0, <1>1, <2>2, <2>4, <3>1 DEF TimeLeft, ShouldSendKeepAlive, Expired, Quarter
    <3>3. tx'[n].age = tx[n].age + 1
      BY <1>3, <2>4, <3>1
    <3>4. /\ tx'[n].age <= Second(n)' /\ tx'[n].age <= Lease[n] /\ quiet'[n] <= First(n)' + tx'[n].age
          /\ quiet'[n] <= Silence(n)' /\ tx'[n].age <= Quarter(n) + 1
      BY <1>0, <1>1, <1>5, <2>1, <3>1, <3>2, <3>3
    <3>5. write_in'[n] = TimeLeft(tx'[n], Quarter(n))
      BY <1>2, <1>3, <2>4, <3>1
    <3> QED
      BY <1>3, <1>5, <2>4, <3>4, <3>5 DEF Timed
  <2> QED
    BY <1>0, <2>1, <2>2, <2>3, <2>4 DEF Timed
<1>7. ASSUME longest'[n] < MaxKept, pc[n] = "update"
      PROVE  Turning(n)' /\ quiet'[n] <= Silence(n)'
  <2>1. longest[n] < MaxKept /\ kept'[n] = kept[n] + 1
    BY <1>1, <1>4, <1>7
  <2>2. Turning(n) /\ quiet[n] <= Silence(n)
    BY <1>7, <2>1 DEF SentInTime
  <2>3. quiet'[n] <= First(n)' + Quarter(n) + 1 + kept'[n]
    BY <1>0, <1>1, <1>4, <1>5, <1>7, <2>1, <2>2 DEF Turning
  <2>4. tx'[n].state \in {"Opened", "Used"} => quiet'[n] <= Quarter(n) + kept'[n]
    BY <1>0, <1>1, <1>3, <2>1, <2>2 DEF Turning
  <2>5. tx'[n].state = "Synchronized" =>
          /\ tx'[n].age <= Quarter(n) + 1 + kept'[n]
          /\ tx'[n].age <= Lease[n] => quiet'[n] <= First(n)' + tx'[n].age
    BY <1>0, <1>1, <1>3, <1>4, <1>5, <2>1, <2>2 DEF Turning
  <2>6. quiet'[n] <= Silence(n)'
    BY <1>0, <1>1, <1>4, <1>5, <2>3
  <2> QED
    BY <1>5, <2>3, <2>4, <2>5, <2>6 DEF Turning
<1>8. ASSUME longest'[n] < MaxKept, Running(n) PROVE quiet'[n] <= Silence(n)'
  BY <1>2, <1>6, <1>7, <1>8, NodeTypes
<1> QED
  BY <1>2, <1>4, <1>5, <1>6, <1>7, <1>8 DEF SentInTime

LEMMA SentOwn ==
  ASSUME TypeOK, NEW n \in Nodes, SentInTime(n), Loop(n) \/ Send(n) \/ Crash(n)
  PROVE  SentInTime(n)'
<1>0. /\ tx[n] \in Clock /\ tx[n].state \in {"Opened", "Used", "Synchronized", "Closed"}
      /\ write_in[n] \in Nat /\ quiet[n] \in Nat /\ tx[n].age \in Nat
      /\ \A s : Only(s).state = s /\ Only(s).age = 0
  BY NodeTypes DEF Only
<1>1. /\ Lease[n] \in Nat /\ Quarter(n) \in Nat /\ Quarter(n) >= 1 /\ Lease[n] = 4 * Quarter(n)
      /\ longest[n] \in Nat /\ kept[n] \in Nat
      /\ First(n) = Quarter(n) + longest[n] /\ Second(n) = Quarter(n) + 1 + longest[n]
      /\ Silence(n) = First(n) + Second(n)
  BY Times, Waits
<1>2. /\ kept[n] <= longest[n] /\ (pc[n] \in {"select", "spin"} => kept[n] = 0)
  BY DEF SentInTime
<1>3. UNCHANGED longest[n] => UNCHANGED <<Quarter(n), First(n), Second(n), Silence(n)>>
  BY DEF Quarter, First, Second, Silence
<1>4. CASE Sync(n)
  <2>1. /\ pc[n] = "sync" /\ UNCHANGED <<quiet[n], kept[n], longest[n]>> /\ pc'[n] \in {"poll", "ended"}
        /\ pc'[n] = "poll" => /\ tx'[n] = Synced(tx[n], Lease[n], FALSE)
                              /\ tx[n].state # "Closed"
        /\ write_in'[n] = TimeLeft(tx'[n], Quarter(n))
    BY <1>0, <1>4, SyncMoves DEF Silent, Synced
  <2>2. ASSUME longest[n] < MaxKept PROVE Turning(n) /\ quiet[n] <= Silence(n)
    BY <2>1, <2>2 DEF SentInTime, Running
  <2>3. ASSUME longest[n] < MaxKept, pc'[n] = "poll" PROVE Turning(n)' /\ Timed(n)'
    <3>1. CASE Expired(tx[n], Lease[n])
      BY <1>0, <1>3, <2>1, <2>2, <2>3, <3>1 DEF Turning, Timed, Synced, TimeLeft
    <3>2. CASE ~Expired(tx[n], Lease[n]) /\ tx[n].state \in {"Opened", "Used"}
      <4>1. tx'[n] = Only("Synchronized") /\ quiet[n] <= Quarter(n) + kept[n]
        BY <2>1, <2>2, <2>3, <3>2 DEF Synced, Turning
      <4>2. TimeLeft(tx'[n], Quarter(n)) = Quarter(n)
        BY <1>0, <1>1, <4>1 DEF TimeLeft
      <4> QED
        BY <1>0, <1>1, <1>2, <1>3, <2>1, <4>1, <4>2 DEF Turning, Timed
    <3>3. CASE ~Expired(tx[n], Lease[n]) /\ tx[n].state = "Synchronized"
      <4>1. tx'[n] = tx[n] /\ tx[n].age <= Lease[n]
        BY <1>0, <1>1, <2>1, <2>3, <3>3 DEF Synced, Expired
      <4> QED
        BY <1>0, <1>1, <1>2, <1>3, <2>1, <2>2, <2>3, <3>3, <4>1 DEF Turning, Timed
    <3> QED
      BY <1>0, <2>1, <2>3, <3>1, <3>2, <3>3
  <2> QED
    BY <1>2, <1>3, <2>1, <2>2, <2>3 DEF SentInTime, Running
<1>5. CASE WriteTimer(n) \/ ReadTimer(n)
  <2>1. /\ pc[n] \in {"select", "spin"} /\ pc'[n] \in {"sync", "ended"}
        /\ UNCHANGED <<kept[n], longest[n]>>
        /\ \/ tx'[n] = Only("Used") /\ quiet'[n] = 0
           \/ /\ UNCHANGED <<tx[n], quiet[n]>>
              /\ pc'[n] = "sync" => write_in[n] > 0 \/ ~ShouldSendKeepAlive(n)
    BY <1>5, WriteMoves, ReadMoves DEF Silent
  <2>2. ASSUME longest[n] < MaxKept PROVE Timed(n) /\ quiet[n] <= Silence(n)
    BY <2>1, <2>2 DEF SentInTime, Running
  <2>3. ASSUME longest[n] < MaxKept, pc'[n] = "sync" PROVE Turning(n)' /\ quiet'[n] <= Silence(n)
    <3>1. CASE tx'[n] = Only("Used") /\ quiet'[n] = 0
      BY <1>0, <1>1, <1>3, <2>1, <3>1 DEF Turning
    <3>2. CASE /\ UNCHANGED <<tx[n], quiet[n]>>
               /\ write_in[n] > 0 \/ ~ShouldSendKeepAlive(n)
      <4>1. tx[n].state = "Synchronized" => tx[n].age <= Quarter(n)
        BY <1>0, <1>1, <2>2, <2>3, <3>2 DEF Timed, TimeLeft, ShouldSendKeepAlive, Expired, Quarter
      <4> QED
        BY <1>0, <1>1, <1>3, <2>1, <2>2, <2>3, <3>2, <4>1 DEF Timed, Turning
    <3> QED
      BY <2>1, <2>3, <3>1, <3>2
  <2>4. longest[n] < MaxKept => quiet'[n] <= Silence(n)
    BY <1>0, <1>1, <2>1, <2>2
  <2> QED
    BY <1>2, <1>3, <2>1, <2>3, <2>4 DEF SentInTime, Running
<1>6. CASE RecvAtOnce(n) \/ Recv(n)
  <2>1. /\ \/ pc[n] = "poll"
           \/ pc[n] = "select" /\ write_in[n] > 0
           \/ pc[n] = "spin"
        /\ pc'[n] = "update" /\ UNCHANGED <<tx[n], quiet[n], kept[n], longest[n]>>
    BY <1>6, RecvMoves DEF Silent
  <2>2. longest[n] < MaxKept => quiet[n] <= Silence(n)
    BY <2>1 DEF SentInTime, Running
  <2>3. ASSUME longest[n] < MaxKept PROVE Turning(n)'
    <3>1. CASE pc[n] = "poll"
      BY <1>3, <2>1, <2>3, <3>1 DEF SentInTime, Turning
    <3>2. CASE pc[n] \in {"select", "spin"}
      <4>1. Timed(n) /\ kept[n] = 0
        BY <2>3, <3>2 DEF SentInTime
      <4>2. /\ tx[n].state \in {"Used", "Synchronized"}
            /\ tx[n].state = "Synchronized" => tx[n].age <= Quarter(n) + 1
        BY <1>0, <1>1, <2>1, <2>3, <3>2, <4>1 DEF SentInTime, Timed, TimeLeft
      <4> QED
        BY <1>0, <1>1, <1>3, <2>1, <4>1, <4>2 DEF Timed, Turning
    <3> QED
      BY <2>1, <3>1, <3>2
  <2> QED
    BY <1>2, <1>3, <2>1, <2>2, <2>3 DEF SentInTime
<1>7. CASE Pends(n) \/ Spin(n)
  <2>1. /\ UNCHANGED <<tx[n], write_in[n], quiet[n], longest[n]>>
        /\ \/ pc[n] = "poll" /\ pc'[n] = "select" /\ kept'[n] = 0
           \/ pc[n] = "select" /\ pc'[n] = "spin" /\ ~Due(n) /\ kept'[n] = kept[n]
    BY <1>7, WaitMoves
  <2>2. ASSUME longest[n] < MaxKept PROVE Timed(n)' /\ quiet'[n] <= Silence(n)
    BY <1>3, <2>1, <2>2 DEF SentInTime, Running, Timed
  <2>3. ~Due(n) => tx[n].state = "Synchronized" /\ tx[n].age <= Quarter(n)
    BY <1>0, <1>1 DEF Due, ShouldSendKeepAlive, Expired, Quarter
  <2>4. pc'[n] = "spin" => tx'[n].state = "Synchronized" /\ tx'[n].age <= Quarter(n) + 1
    BY <1>0, <1>1, <2>1, <2>3
  <2> QED
    BY <1>1, <1>2, <1>3, <2>1, <2>2, <2>4 DEF SentInTime
<1>8. CASE Updated(n)
  <2>1. pc[n] = "update" /\ pc'[n] = "sync" /\ UNCHANGED <<tx[n], quiet[n], kept[n], longest[n]>>
    BY <1>8, UpdatedMoves DEF Silent
  <2> QED
    BY <1>2, <1>3, <2>1 DEF SentInTime, Running, Turning
<1>9. CASE Crash(n)
  BY <1>2, <1>9, CrashMoves DEF SentInTime, Running, Silent
<1>10. CASE Send(n)
  <2>1. /\ UNCHANGED <<pc[n], write_in[n], kept[n], longest[n]>>
        /\ tx'[n] = Only("Used") /\ quiet'[n] = 0
    BY <1>10, SendMoves
  <2>2. Turning(n)' /\ quiet'[n] <= Silence(n)
    BY <1>0, <1>1, <1>3, <2>1 DEF Turning
  <2>3. ASSUME longest[n] < MaxKept, pc[n] \in {"poll", "select", "spin"} PROVE Timed(n)'
    <3>1. write_in[n] <= Quarter(n)
      BY <1>0, <1>1, <2>3 DEF SentInTime, Timed, TimeLeft
    <3> QED
      BY <1>0, <1>1, <1>3, <2>1, <3>1 DEF Timed
  <2> QED
    BY <1>0, <1>2, <1>3, <2>1, <2>2, <2>3 DEF SentInTime
<1> QED
  BY <1>4, <1>5, <1>6, <1>7, <1>8, <1>9, <1>10 DEF Loop

LEMMA SentStep ==
  ASSUME TypeOK, NEW n \in Nodes, SentInTime(n), [Next]_vars
  PROVE  SentInTime(n)'
<1>1. CASE UNCHANGED <<pc[n], tx[n], write_in[n], quiet[n], kept[n], longest[n]>>
  BY <1>1 DEF SentInTime, Turning, Timed, Running, First, Second, Silence, Quarter
<1>2. ASSUME NEW a \in Nodes, a # n, Loop(a) \/ Send(a) \/ Crash(a) PROVE SentInTime(n)'
  BY <1>1, <1>2, Apart DEF Untouched
<1>3. CASE UNCHANGED vars
  BY <1>1, <1>3 DEF vars
<1> QED
  BY <1>2, <1>3, SentTick, SentOwn DEF Next

-------------------------------------------------------------------------------
(* Reception.                                                                 *)

\* The rx clock through a tick.
LEMMA TickHeard ==
  ASSUME TypeOK, NEW n \in Nodes, Tick
  PROVE  /\ rx'[n].state = rx[n].state /\ rx'[n].age \in Nat
         /\ rx[n].state # "Synchronized" => rx'[n] = rx[n]
         /\ Heard(n) =>
              /\ rx[n].age <= RxLease(n) => rx'[n].age = rx[n].age + 1
              /\ ~(rx[n].age <= RxLease(n)) => rx'[n].age = rx[n].age
              /\ TimeLeft(rx'[n], RxLease(n)) = Later(TimeLeft(rx[n], RxLease(n)))
<1>1. /\ rx[n] \in Clock /\ rx[n].age \in Nat /\ RxLease(n) \in Nat
      /\ rx'[n] = Aged(rx[n], RxLease(n) + 1)
  BY NodeTypes, TickMoves
<1>2. PICK most \in Nat, age \in Nat : most = RxLease(n) + 1 /\ age = RxLease(n) /\ age < most
  BY <1>1
<1>3. /\ Aged(rx[n], most).state = rx[n].state /\ Aged(rx[n], most) \in Clock
      /\ rx[n].state # "Synchronized" => Aged(rx[n], most) = rx[n]
      /\ rx[n].state = "Synchronized" =>
           /\ rx[n].age < most => Aged(rx[n], most).age = rx[n].age + 1
           /\ ~(rx[n].age < most) => Aged(rx[n], most).age = rx[n].age
           /\ TimeLeft(Aged(rx[n], most), age) = Later(TimeLeft(rx[n], age))
  BY <1>1, <1>2, TickClock
<1>4. rx[n].age <= RxLease(n) <=> rx[n].age < most
  BY <1>1, <1>2
<1> QED
  BY <1>1, <1>2, <1>3, <1>4 DEF Heard, Clock

LEMMA ClockedStep ==
  ASSUME TypeOK, NEW n \in Nodes, Clocked(n), [Next]_vars
  PROVE  Clocked(n)'
<1>0. /\ rx[n].state \in {"Opened", "Used", "Synchronized", "Closed"} /\ rx[n].age \in Nat
      /\ RxLease(n) \in Nat
      /\ \A s : Only(s).state = s /\ Only(s).age = 0
  BY NodeTypes DEF Only
<1>1. CASE UNCHANGED <<pc[n], rx[n], read_in[n]>>
  BY <1>1 DEF Clocked, Heard
<1>2. CASE Sync(n)
  <2>1. /\ pc[n] = "sync" /\ rx[n].state # "Closed"
        /\ rx'[n] = Synced(rx[n], RxLease(n), tx[n].state = "Closed")
        /\ pc'[n] = IF rx'[n].state = "Closed" THEN "ended" ELSE "poll"
        /\ read_in'[n] = TimeLeft(rx'[n], RxLease(n))
    BY <1>2, SyncMoves DEF Clocked
  <2>2. \/ rx'[n] = Only("Closed") \/ rx'[n] = Only("Synchronized")
        \/ rx'[n] = rx[n] /\ Heard(n)
    BY <1>0, <2>1 DEF Synced, Heard
  <2> QED
    BY <1>0, <2>1, <2>2 DEF Clocked, Heard
<1>3. CASE WriteTimer(n) \/ ReadTimer(n)
  <2>1. /\ pc[n] \in {"select", "spin"} /\ pc'[n] \in {"sync", "ended"} /\ UNCHANGED rx[n]
    BY <1>3, WriteMoves, ReadMoves
  <2> QED
    BY <2>1 DEF Clocked, Heard
<1>4. CASE RecvAtOnce(n) \/ Recv(n)
  <2>1. pc'[n] = "update" /\ rx'[n] = Only("Used")
    BY <1>4, RecvMoves
  <2> QED
    BY <1>0, <2>1 DEF Clocked, Heard
<1>5. CASE Updated(n)
  <2>1. pc[n] = "update" /\ pc'[n] = "sync" /\ UNCHANGED rx[n]
    BY <1>5, UpdatedMoves
  <2> QED
    BY <2>1 DEF Clocked, Heard
<1>10. CASE Crash(n)
  BY <1>0, <1>10, CrashMoves DEF Clocked, Heard
<1>11. CASE Pends(n) \/ Spin(n)
  <2>1. /\ pc[n] \in {"poll", "select"} /\ pc'[n] \in {"select", "spin"}
        /\ UNCHANGED <<rx[n], read_in[n]>>
    BY <1>11, WaitMoves
  <2> QED
    BY <2>1 DEF Clocked, Heard
<1>6. CASE Send(n)
  BY <1>1, <1>6, SendMoves
<1>7. CASE Tick
  <2>1. pc'[n] = pc[n] /\ read_in'[n] = Later(read_in[n])
    BY <1>7, TickMoves
  <2>2. rx[n].age <= RxLease(n) + 1 /\ Heard(n) => rx'[n].age <= RxLease(n) + 1
    BY <1>0, <1>7, TickHeard
  <2> QED
    BY <1>7, <2>1, <2>2, TickHeard DEF Clocked, Heard
<1>8. ASSUME NEW a \in Nodes, a # n, Loop(a) \/ Send(a) \/ Crash(a) PROVE Clocked(n)'
  BY <1>1, <1>8, Apart DEF Untouched
<1>9. CASE UNCHANGED vars
  BY <1>1, <1>9 DEF vars
<1> QED
  BY <1>2, <1>3, <1>4, <1>5, <1>6, <1>7, <1>8, <1>9, <1>10, <1>11 DEF Next, Loop

\* Nobody runs again.
LEMMA RunningOnce ==
  ASSUME TypeOK, NEW n \in Nodes, [Next]_vars
  PROVE  Running(n)' => Running(n)
<1>1. CASE UNCHANGED pc[n]
  BY <1>1 DEF Running
<1>2. CASE Loop(n) \/ Crash(n)
  BY <1>2, SyncMoves, WriteMoves, ReadMoves, RecvMoves, WaitMoves, UpdatedMoves, CrashMoves
     DEF Loop, Running
<1>3. CASE Send(n) \/ Tick
  BY <1>1, <1>3, SendMoves, TickMoves
<1>4. ASSUME NEW a \in Nodes, a # n, Loop(a) \/ Send(a) \/ Crash(a) PROVE UNCHANGED pc[n]
  BY <1>4, Apart DEF Untouched
<1>5. CASE UNCHANGED vars
  BY <1>1, <1>5 DEF vars
<1> QED
  BY <1>1, <1>2, <1>3, <1>4, <1>5 DEF Next

\* The ways net[n] and the silence of the other end change.
LEMMA LinkMoves ==
  ASSUME TypeOK, NEW n \in Nodes, [Next]_vars
  PROVE  \/ UNCHANGED <<net[n], quiet[Other(n)], behind[Other(n)]>>
         \/ RecvAtOnce(n) \/ Recv(n) \/ Crash(n) \/ Sent(Other(n)) \/ Tick
<1>1. CASE UNCHANGED vars
  BY <1>1 DEF vars
<1>2. ASSUME NEW a \in Nodes, a # n, Loop(a) \/ Send(a) \/ Crash(a)
      PROVE  UNCHANGED <<net[n], quiet[Other(n)], behind[Other(n)]>> \/ Sent(Other(n))
  BY <1>2, Apart
<1>3. CASE \/ Sync(n) \/ Pends(n) \/ Spin(n) \/ WriteTimer(n) \/ ReadTimer(n) \/ Updated(n)
           \/ Send(n)
  BY <1>3, SyncMoves, WaitMoves, WriteMoves, ReadMoves, UpdatedMoves, SendMoves DEF Silent
<1> QED
  BY <1>1, <1>2, <1>3 DEF Next, Loop

LEMMA DeliveredStep ==
  ASSUME TypeOK, NEW n \in Nodes, Delivered(n), [Next]_vars
  PROVE  Delivered(n)'
<1> SUFFICES ASSUME Running(n)' PROVE Delivered(n)'
  BY DEF Delivered
<1>0. /\ Other(n) \in Nodes /\ quiet[Other(n)] \in Nat /\ behind[Other(n)] \in Nat
      /\ Running(n) /\ net[n] \in Seq(0..MaxDelay) /\ MaxDelay \in Nat
      /\ Len(net[n]) \in Nat /\ DOMAIN net[n] = 1..Len(net[n])
      /\ \A i \in DOMAIN net[n] : net[n][i] \in Nat /\ net[n][i] <= MaxDelay
  <2>1. net[n] \in Seq(0..MaxDelay) /\ MaxDelay \in Nat
    BY NodeTypes, Times
  <2>2. DOMAIN net[n] = 1..Len(net[n]) /\ \A i \in DOMAIN net[n] : net[n][i] \in 0..MaxDelay
    BY <2>1, LenProperties, ElementOfSeq
  <2> QED
    BY <2>1, <2>2, Ends, NodeTypes, RunningOnce, LenProperties
<1>1. /\ Len(net[n]) <= behind[Other(n)] + 1
      /\ \A i \in DOMAIN net[n] : net[n][i] < MaxDelay => quiet[Other(n)] <= net[n][i]
  BY <1>0 DEF Delivered
<1>2. CASE UNCHANGED <<net[n], quiet[Other(n)], behind[Other(n)]>>
  BY <1>1, <1>2 DEF Delivered
<1>3. CASE RecvAtOnce(n) \/ Recv(n)
  <2>1. /\ net[n] # <<>> /\ net'[n] = Tail(net[n])
        /\ quiet'[Other(n)] = quiet[Other(n)] /\ behind'[Other(n)] = behind[Other(n)]
    BY <1>3, RecvMoves DEF Silent
  <2>2. /\ Len(Tail(net[n])) = Len(net[n]) - 1
        /\ DOMAIN Tail(net[n]) = 1..(Len(net[n]) - 1)
        /\ \A i \in 1..(Len(net[n]) - 1) : Tail(net[n])[i] = net[n][i + 1]
    BY <1>0, <2>1, HeadTailProperties, LenProperties
  <2>3. Len(net'[n]) <= behind'[Other(n)] + 1
    BY <1>0, <1>1, <2>1, <2>2
  <2>4. ASSUME NEW i \in DOMAIN net'[n], net'[n][i] < MaxDelay
        PROVE  quiet'[Other(n)] <= net'[n][i]
    <3>1. i + 1 \in DOMAIN net[n] /\ net'[n][i] = net[n][i + 1]
      BY <1>0, <2>1, <2>2, <2>4
    <3> QED
      BY <1>1, <2>1, <2>4, <3>1
  <2> QED
    BY <2>3, <2>4 DEF Delivered
<1>4. CASE Sent(Other(n))
  <2>1. /\ quiet'[Other(n)] = 0 /\ behind'[Other(n)] = Len(net[n])
        /\ net'[n] = Append(net[n], 0)
    BY <1>0, <1>4, Ends DEF Sent
  <2>2. /\ Len(Append(net[n], 0)) = Len(net[n]) + 1
        /\ DOMAIN Append(net[n], 0) = 1..(Len(net[n]) + 1)
        /\ \A i \in 1..(Len(net[n]) + 1) : Append(net[n], 0)[i] \in Nat
    <3>1. 0 \in 0..MaxDelay
      BY <1>0
    <3> QED
      BY <1>0, <3>1, AppendProperties, LenProperties
  <2>3. Len(net'[n]) <= behind'[Other(n)] + 1
    BY <1>0, <2>1, <2>2
  <2>4. ASSUME NEW i \in DOMAIN net'[n] PROVE quiet'[Other(n)] <= net'[n][i]
    <3>1. Append(net[n], 0)[i] \in Nat
      BY <2>1, <2>2, <2>4
    <3> QED
      BY <2>1, <3>1
  <2> QED
    BY <2>3, <2>4 DEF Delivered
<1>5. CASE Tick
  <2>1. /\ DOMAIN net'[n] = DOMAIN net[n] /\ Len(net'[n]) = Len(net[n])
        /\ \A i \in DOMAIN net[n] :
             net'[n][i] = IF net[n][i] < MaxDelay THEN net[n][i] + 1 ELSE MaxDelay
    BY <1>5, TickMoves DEF More
  <2>2. /\ quiet'[Other(n)] <= quiet[Other(n)] + 1 /\ behind'[Other(n)] = behind[Other(n)]
        /\ quiet'[Other(n)] \in Nat
    BY <1>0, <1>5, TickMoves, TypeStep DEF Next, TypeOK
  <2>3. Len(net'[n]) <= behind'[Other(n)] + 1
    BY <1>1, <2>1, <2>2
  <2>4. ASSUME NEW i \in DOMAIN net'[n], net'[n][i] < MaxDelay
        PROVE  quiet'[Other(n)] <= net'[n][i]
    <3>1. PICK a \in Nat : a = net[n][i]
      BY <1>0, <2>1, <2>4, ElementOfSeq
    <3>2. net'[n][i] = IF a < MaxDelay THEN a + 1 ELSE MaxDelay
      BY <2>1, <2>4, <3>1
    <3>3. MaxDelay \in Nat /\ quiet[Other(n)] \in Nat
      BY <1>0
    <3>4. a < MaxDelay /\ net'[n][i] = a + 1
      BY <2>4, <3>1, <3>2, <3>3
    <3>5. quiet[Other(n)] <= a
      BY <1>1, <2>1, <2>4, <3>1, <3>4
    <3> QED
      BY <2>2, <3>1, <3>3, <3>4, <3>5
  <2> QED
    BY <2>3, <2>4 DEF Delivered
<1>6. CASE Crash(n)
  BY <1>6, CrashMoves DEF Running
<1> QED
  BY <1>2, <1>3, <1>4, <1>5, <1>6, LinkMoves

-------------------------------------------------------------------------------
(* What is read in time.                                                      *)

LEMMA HeadFirst ==
  ASSUME NEW S, NEW s \in Seq(S), s # <<>>
  PROVE  1 \in DOMAIN s /\ Head(s) = s[1] /\ Head(s) \in S
BY HeadTailProperties, LenProperties

LEMMA Products ==
  \A k, c \in Nat : k * c \in Nat /\ (k + 1) * c = k * c + c
OBVIOUS

LEMMA Distributes ==
  \A k, l, c \in Nat : (k + l + 1) * c = k * c + l * c + c
OBVIOUS

LEMMA ReadsTypes ==
  ASSUME NEW b \in Nat, NEW l \in Nat, l <= b + 1
  PROVE  /\ MaxDelay + MaxBusy + (b + 1 - l) * MaxBusy \in Nat
         /\ MaxDelay + MaxBusy + (b + 1 - l) * MaxBusy >= MaxDelay + MaxBusy
<1>1. MaxBusy \in Nat /\ MaxDelay \in Nat
  BY TimesAssumption
<1>2. b + 1 - l \in Nat
  OBVIOUS
<1>3. (b + 1 - l) * MaxBusy \in Nat
  BY <1>1, <1>2, Products
<1> QED
  BY <1>1, <1>3

LEMMA ReadInTimeStep ==
  ASSUME TypeOK, TypeOK', NEW n \in Nodes, Clocked(n), Delivered(n), Delivered(n)',
         ReadInTime(n), [Next]_vars
  PROVE  ReadInTime(n)'
<1> SUFFICES ASSUME pc'[n] \in Between \cup {"update"} PROVE ReadInTime(n)'
  BY DEF ReadInTime
<1> USE DEF Between
<1>0. /\ Running(n) /\ Running(n)' /\ Other(n) \in Nodes /\ Other(Other(n)) = n /\ Other(n) # n
      /\ quiet[Other(n)] \in Nat /\ busy[n] \in Nat /\ busy[n] <= MaxBusy
      /\ MaxBusy \in Nat /\ MaxDelay \in Nat /\ rx[n].age \in Nat /\ RxLease(n) \in Nat
      /\ rx[n].state \in {"Opened", "Used", "Synchronized", "Closed"}
      /\ \A s : Only(s).state = s /\ Only(s).age = 0
  BY Ends, NodeTypes, Times, RunningOnce DEF Running, Only
<1>1. Reads(n) \in Nat /\ Reads(n) >= MaxDelay + MaxBusy
  <2>1. /\ behind[Other(n)] \in Nat /\ Len(net[n]) \in Nat
        /\ Len(net[n]) <= behind[Other(n)] + 1
    BY <1>0, NodeTypes, LenProperties DEF Delivered
  <2> QED
    BY <2>1, ReadsTypes DEF Reads
<1>2. Reads(n)' \in Nat /\ Reads(n)' >= MaxDelay + MaxBusy
  <2>1. net'[n] \in Seq(0..MaxDelay) /\ behind'[Other(n)] \in Nat
    BY <1>0 DEF TypeOK
  <2>2. Len(net'[n]) \in Nat /\ Len(net'[n]) <= behind'[Other(n)] + 1
    BY <1>0, <2>1, LenProperties DEF Delivered
  <2> QED
    BY <2>1, <2>2, ReadsTypes DEF Reads
<1>3. UNCHANGED <<net[n], behind[Other(n)]>> => Reads(n)' = Reads(n)
  BY DEF Reads
<1>4. CASE /\ UNCHANGED <<rx[n], busy[n], net[n], quiet[Other(n)], behind[Other(n)]>>
           /\ \/ pc'[n] = pc[n]
              \/ pc[n] \in Between /\ pc'[n] \in Between
  BY <1>3, <1>4 DEF ReadInTime, Heard
<1>5. CASE Sync(n)
  <2>1. /\ pc[n] = "sync" /\ pc'[n] = "poll" /\ rx'[n].state # "Closed"
        /\ rx'[n] = Synced(rx[n], RxLease(n), tx[n].state = "Closed")
        /\ UNCHANGED <<net[n], quiet[Other(n)], behind[Other(n)]>>
    BY <1>5, SyncMoves DEF Silent
  <2>2. Heard(n) => rx'[n] = rx[n]
    BY <1>0, <2>1 DEF Synced, Heard
  <2>3. ~Heard(n) => rx'[n].age = 0
    BY <1>0, <2>1 DEF Synced, Heard, Clocked
  <2> QED
    BY <1>0, <1>1, <1>3, <2>1, <2>2, <2>3 DEF ReadInTime, Heard
<1>6. CASE WriteTimer(n) \/ ReadTimer(n) \/ Pends(n) \/ Spin(n)
  <2>1. /\ pc[n] \in Between /\ pc'[n] \in Between
        /\ UNCHANGED <<rx[n], busy[n], net[n], quiet[Other(n)], behind[Other(n)]>>
    BY <1>6, WriteMoves, ReadMoves, WaitMoves DEF Silent
  <2> QED
    BY <1>4, <2>1
<1>7. CASE RecvAtOnce(n) \/ Recv(n)
  <2>1. /\ pc[n] \in Between /\ pc'[n] = "update" /\ net[n] # <<>>
        /\ net'[n] = Tail(net[n]) /\ quiet'[Other(n)] = quiet[Other(n)]
        /\ behind'[Other(n)] = behind[Other(n)] /\ busy'[n] \in Nat /\ busy'[n] <= MaxBusy
    BY <1>7, RecvMoves DEF Silent
  <2>2. quiet[Other(n)] <= Reads(n)
    BY <2>1 DEF ReadInTime
  <2>3. Reads(n)' = Reads(n) + MaxBusy
    <3>1. /\ Len(Tail(net[n])) = Len(net[n]) - 1 /\ behind[Other(n)] \in Nat /\ Len(net[n]) \in Nat
          /\ Len(net[n]) <= behind[Other(n)] + 1
      BY <1>0, <2>1, NodeTypes, HeadTailProperties, LenProperties DEF Delivered
    <3>2. PICK k \in Nat, c \in Nat : k = behind[Other(n)] + 1 - Len(net[n]) /\ c = MaxBusy
      BY <1>0, <3>1
    <3>3. /\ Reads(n) = MaxDelay + c + k * c
          /\ Reads(n)' = MaxDelay + c + (k + 1) * c
      <4>1. behind'[Other(n)] + 1 - Len(net'[n]) = k + 1
        BY <2>1, <3>1, <3>2
      <4> QED
        BY <3>2, <4>1 DEF Reads
    <3>4. (k + 1) * c = k * c + c
      BY <3>2, Products
    <3>5. PICK p \in Nat : p = k * c
      BY <3>2, Products
    <3>6. Reads(n) = MaxDelay + c + p /\ Reads(n)' = MaxDelay + c + (p + c)
      BY <3>3, <3>4, <3>5
    <3>7. MaxDelay \in Nat
      BY <1>0
    <3>8. MaxDelay + c + (p + c) = (MaxDelay + c + p) + c
      BY <3>2, <3>5, <3>7
    <3> QED
      BY <3>2, <3>6, <3>8
  <2> QED
    BY <1>0, <1>1, <2>1, <2>2, <2>3 DEF ReadInTime
<1>8. CASE Updated(n)
  <2>1. /\ pc[n] = "update" /\ busy[n] = 0 /\ pc'[n] = "sync" /\ ~Heard(n)
        /\ UNCHANGED <<rx[n], net[n], quiet[Other(n)], behind[Other(n)]>>
    BY <1>8, UpdatedMoves DEF Silent, Clocked, Heard
  <2> QED
    BY <1>0, <1>1, <1>3, <2>1 DEF ReadInTime, Heard
<1>9. CASE Crash(n)
  BY <1>9, CrashMoves
<1>10. CASE Send(n)
  BY <1>4, <1>10, SendMoves
<1>11. CASE Sent(Other(n)) /\ Untouched(n)
  <2>1. quiet'[Other(n)] = 0 /\ busy'[n] = busy[n] /\ rx'[n] = rx[n]
    BY <1>11 DEF Sent, Untouched
  <2> QED
    BY <1>0, <1>2, <2>1 DEF ReadInTime
<1>12. CASE Tick
  <2>1. /\ ~Overdue(n) /\ pc'[n] = pc[n] /\ behind'[Other(n)] = behind[Other(n)]
        /\ Len(net'[n]) = Len(net[n]) /\ busy'[n] = Later(busy[n])
        /\ quiet'[Other(n)] <= quiet[Other(n)] + 1
    BY <1>0, <1>12, TickMoves
  <2>2. quiet'[Other(n)] \in Nat /\ Reads(n)' = Reads(n)
    BY <1>0, <2>1 DEF TypeOK, Reads
  <2>3. CASE pc[n] = "update"
    <3>1. busy[n] > 0
      BY <1>0, <2>1, <2>3 DEF Overdue
    <3> QED
      BY <1>0, <1>1, <2>1, <2>2, <2>3, <3>1 DEF ReadInTime, Later
  <2>4. CASE pc[n] \in {"select", "spin"} /\ net[n] = <<>>
    <3>1. Heard(n) /\ read_in[n] = TimeLeft(rx[n], RxLease(n))
      BY <2>4 DEF Clocked
    <3>2. rx[n].age <= RxLease(n)
      BY <1>0, <2>1, <2>4, <3>1 DEF Overdue, Fired, Due, Expired, TimeLeft, Heard
    <3>3. rx'[n].age = rx[n].age + 1 /\ Heard(n)'
      BY <1>12, <3>1, <3>2, TickHeard DEF Heard
    <3>4. net'[n] = <<>>
      BY <1>0, <2>1, <2>4, EmptySeq, NodeTypes DEF TypeOK
    <3>5. quiet[Other(n)] <= Reads(n) + rx[n].age
      BY <2>4, <3>1 DEF ReadInTime
    <3>6. quiet'[Other(n)] <= Reads(n)' + rx'[n].age
      <4>1. PICK q \in Nat, p \in Nat, r \in Nat, age \in Nat :
              /\ q = quiet[Other(n)] /\ p = quiet'[Other(n)] /\ r = Reads(n) /\ age = rx[n].age
        BY <1>0, <1>1, <2>2
      <4>2. p <= q + 1 /\ q <= r + age
        BY <2>1, <3>5, <4>1
      <4>3. p <= r + (age + 1)
        BY <4>1, <4>2
      <4> QED
        BY <2>2, <3>3, <4>1, <4>3
    <3>7. pc'[n] \in Between /\ pc'[n] # "update"
      BY <2>1, <2>4
    <3>8. quiet'[Other(n)] <= Reads(n)' + (IF Heard(n)' THEN rx'[n].age ELSE 0)
      BY <3>3, <3>6
    <3> HIDE DEF Between
    <3> QED
      BY <3>4, <3>7, <3>8 DEF ReadInTime
  <2>5. CASE pc[n] \in {"select", "spin"} /\ net[n] # <<>>
    <3>1. /\ net[n] \in Seq(0..MaxDelay) /\ 1 \in DOMAIN net[n] /\ Head(net[n]) = net[n][1]
          /\ Head(net[n]) \in 0..MaxDelay
      <4>1. net[n] \in Seq(0..MaxDelay)
        BY NodeTypes
      <4> QED
        BY <2>5, <4>1, HeadFirst
    <3>2. net'[n] # <<>>
      BY <2>1, <2>5, <3>1, EmptySeq
    <3>3. Head(net[n]) < MaxDelay
      BY <1>0, <2>1, <2>5, <3>1 DEF Overdue, Arrived
    <3>4. quiet[Other(n)] <= Head(net[n])
      BY <1>0, <3>1, <3>3 DEF Delivered
    <3>5. MaxDelay \in Nat /\ MaxBusy \in Nat /\ quiet[Other(n)] \in Nat
      BY <1>0
    <3>6. Head(net[n]) + 1 <= MaxDelay /\ Head(net[n]) \in Nat
      BY <3>1, <3>3, <3>5
    <3>7. quiet'[Other(n)] <= MaxDelay + MaxBusy
      BY <2>1, <2>2, <3>4, <3>5, <3>6
    <3>8. Reads(n) \in Nat /\ Reads(n) >= MaxDelay + MaxBusy
      BY <1>1
    <3>9. quiet'[Other(n)] <= Reads(n)'
      BY <2>2, <3>5, <3>7, <3>8
    <3> QED
      BY <2>1, <2>5, <3>2, <3>9 DEF ReadInTime
  <2> QED
    BY <2>1, <2>3, <2>4, <2>5 DEF Overdue
<1>13. ASSUME NEW a \in Nodes, a # n, Loop(a) \/ Send(a) \/ Crash(a) PROVE ReadInTime(n)'
  BY <1>4, <1>11, <1>13, Apart DEF Untouched
<1>14. CASE UNCHANGED vars
  BY <1>4, <1>14 DEF vars
<1> QED
  BY <1>5, <1>6, <1>7, <1>8, <1>9, <1>10, <1>12, <1>13, <1>14 DEF Next, Loop

-------------------------------------------------------------------------------
(* What keeps both ends.                                                      *)

\* What Alive leaves to the leases.
LEMMA NotOver ==
  ASSUME TypeOK, NEW n \in Nodes, SentInTime(n), SentInTime(Other(n)), Clocked(n), BothThere,
         Alive(n), Alive(Other(n)), pc[n] \in Between
  PROVE  /\ ~Expired(tx[n], Lease[n]) /\ ~Expired(rx[n], RxLease(n))
         /\ Heard(n) => rx[n].age <= RxLease(n)
<1> USE DEF Between
<1>0. /\ Other(n) \in Nodes /\ tx[n].age \in Nat /\ rx[n].age \in Nat
      /\ quiet[Other(n)] \in Nat /\ net[n] \in Seq(0..MaxDelay) /\ MaxDelay \in Nat
      /\ Lease[n] \in Nat /\ RxLease(n) \in Nat /\ RxLease(n) = Lease[Other(n)]
      /\ First(n) \in Nat /\ Second(n) \in Nat /\ Silence(n) = First(n) + Second(n)
      /\ Silence(Other(n)) \in Nat /\ Quarter(n) \in Nat /\ kept[n] \in Nat /\ longest[n] \in Nat
      /\ Second(n) = Quarter(n) + 1 + longest[n]
  BY Ends, NodeTypes, Times, Waits DEF RxLease
<1>1. /\ longest[n] < MaxKept /\ longest[Other(n)] < MaxKept
      /\ Silence(n) + MaxDelay <= Lease[n]
      /\ Silence(Other(n)) + MaxDelay <= RxLease(n)
  BY <1>0 DEF BothThere, QuickEnough
<1>2. ~Expired(tx[n], Lease[n])
  <2>1. Second(n) <= Lease[n]
    BY <1>0, <1>1
  <2>2. tx[n].state = "Synchronized" => tx[n].age <= Second(n)
    <3>1. CASE pc[n] = "sync"
      <4>1. Turning(n) /\ kept[n] <= longest[n]
        BY <1>1, <3>1 DEF SentInTime
      <4>2. tx[n].state = "Synchronized" => tx[n].age <= Quarter(n) + 1 + kept[n]
        BY <4>1 DEF Turning
      <4>3. Quarter(n) + 1 + kept[n] <= Second(n)
        BY <1>0, <4>1
      <4>4. PICK a \in Nat, k \in Nat, s \in Nat :
              a = tx[n].age /\ k = Quarter(n) + 1 + kept[n] /\ s = Second(n)
        <5>1. tx[n].age \in Nat /\ Second(n) \in Nat
          BY <1>0
        <5>2. Quarter(n) \in Nat /\ kept[n] \in Nat
          BY <1>0
        <5>3. Quarter(n) + 1 + kept[n] \in Nat
          BY <5>2
        <5> QED
          BY <5>1, <5>3
      <4>5. k <= s /\ (tx[n].state = "Synchronized" => a <= k)
        BY <4>2, <4>3, <4>4
      <4>6. tx[n].state = "Synchronized" => a <= s
        BY <4>4, <4>5
      <4> QED
        BY <4>4, <4>6
    <3>2. CASE pc[n] # "sync"
      BY <1>1, <3>2 DEF SentInTime, Timed
    <3> QED
      BY <3>1, <3>2
  <2> QED
    BY <1>0, <2>1, <2>2 DEF Expired
<1>3. Heard(n) => rx[n].age <= RxLease(n)
  <2>1. quiet[Other(n)] <= Silence(Other(n))
    <3>1. Running(Other(n))
      BY <1>0, NodeTypes DEF BothThere, Alive, Running
    <3> QED
      BY <1>1, <3>1 DEF SentInTime
  <2>2. CASE net[n] = <<>>
    <3>1. Heard(n) => rx[n].age <= quiet[Other(n)]
      BY <2>2 DEF Alive
    <3>2. PICK s \in Nat, r \in Nat, q \in Nat, age \in Nat :
            /\ s = Silence(Other(n)) /\ r = RxLease(n) /\ q = quiet[Other(n)] /\ age = rx[n].age
      BY <1>0
    <3>3. s + MaxDelay <= r /\ q <= s /\ MaxDelay \in Nat /\ (Heard(n) => age <= q)
      BY <1>0, <1>1, <2>1, <3>1, <3>2
    <3>4. Heard(n) => age <= r
      BY <3>2, <3>3
    <3> QED
      BY <3>2, <3>4
  <2>3. CASE net[n] # <<>>
    <3>1. Head(net[n]) \in Nat /\ Head(net[n]) <= MaxDelay
      <4>1. Head(net[n]) \in 0..MaxDelay
        BY <1>0, <2>3, HeadFirst
      <4> QED
        BY <1>0, <4>1
    <3>2. Heard(n) => rx[n].age <= Silence(Other(n)) + Head(net[n])
      BY <2>3 DEF Alive
    <3>3. PICK h \in Nat : h = Head(net[n]) /\ h <= MaxDelay
      BY <3>1
    <3>4. PICK s \in Nat, r \in Nat, age \in Nat :
            s = Silence(Other(n)) /\ r = RxLease(n) /\ age = rx[n].age
      BY <1>0
    <3>5. s + MaxDelay <= r /\ (Heard(n) => age <= s + h)
      BY <1>1, <3>2, <3>3, <3>4
    <3>6. MaxDelay \in Nat
      BY <1>0
    <3>7. Heard(n) => age <= r
      BY <3>3, <3>4, <3>5, <3>6
    <3> QED
      BY <3>4, <3>7
  <2> QED
    BY <2>2, <2>3
<1>4. ~Expired(rx[n], RxLease(n))
  BY <1>0, <1>3 DEF Expired, Heard
<1> QED
  BY <1>2, <1>3, <1>4

LEMMA AliveStep ==
  ASSUME TypeOK, TypeOK', NEW n \in Nodes, SentInTime(n), SentInTime(Other(n)), Clocked(n),
         Silence(Other(n)) <= Silence(Other(n))', BothThere, BothThere', Alive(n), Alive(Other(n)), [Next]_vars
  PROVE  Alive(n)'
<1> USE DEF Between
<1>0. /\ Other(n) \in Nodes /\ Other(Other(n)) = n /\ Other(n) # n
      /\ Running(n) /\ pc[n] \in Between \cup {"update"} /\ pc'[n] # "crashed"
      /\ tx[n].state \in {"Opened", "Used", "Synchronized", "Closed"} /\ tx[n].age \in Nat
      /\ rx[n].state \in {"Opened", "Used", "Synchronized", "Closed"} /\ rx[n].age \in Nat
      /\ net[n] \in Seq(0..MaxDelay) /\ MaxDelay \in Nat /\ RxLease(n) \in Nat
      /\ quiet[Other(n)] \in Nat /\ Silence(Other(n)) \in Nat /\ Silence(Other(n)) < MaxQuiet
      /\ longest[Other(n)] < MaxKept
      /\ \A s : Only(s).state = s /\ Only(s).age = 0
  BY Ends, NodeTypes, Times, Waits DEF BothThere, QuickEnough, Alive, Running, Only
<1>S. Silence(Other(n))' \in Nat /\ Silence(Other(n)) <= Silence(Other(n))'
  <2>1. longest'[Other(n)] \in Nat /\ Lease[Other(n)] \div 2 \in Nat
    <3>1. longest'[Other(n)] \in 0..MaxKept
      BY <1>0 DEF TypeOK
    <3>2. Lease[Other(n)] \div 2 = 2 * Quarter(Other(n)) /\ Quarter(Other(n)) \in Nat
      BY <1>0, Times
    <3> QED
      BY <3>1, <3>2
  <2> QED
    BY <2>1 DEF Silence
<1>1. quiet[Other(n)] <= Silence(Other(n))
  <2>1. Running(Other(n))
    BY <1>0, NodeTypes DEF BothThere, Alive, Running
  <2> QED
    BY <1>0, <2>1 DEF SentInTime
<1>H. net[n] # <<>> => Head(net[n]) \in Nat
  BY <1>0, HeadFirst
<1>2. CASE /\ UNCHANGED <<rx[n], net[n], quiet[Other(n)]>> /\ tx'[n].state # "Closed"
           /\ \/ pc'[n] = pc[n]
              \/ pc[n] \in Between /\ pc'[n] \in Between
  <2>1. net[n] # <<>> /\ rx[n].age <= Silence(Other(n)) + Head(net[n])
          => rx[n].age <= Silence(Other(n))' + Head(net[n])
    <3>1. PICK s \in Nat, t \in Nat, age \in Nat :
            s = Silence(Other(n)) /\ t = Silence(Other(n))' /\ age = rx[n].age
      BY <1>0, <1>S
    <3>2. s <= t
      BY <1>S, <3>1
    <3>3. ASSUME net[n] # <<>> PROVE age <= s + Head(net[n]) => age <= t + Head(net[n])
      BY <1>H, <3>1, <3>2, <3>3
    <3> QED
      BY <3>1, <3>3
  <2> QED
    BY <1>2, <2>1 DEF Alive, Heard
<1>3. CASE Sync(n)
  <2>1. /\ pc[n] = "sync" /\ rx'[n] = Synced(rx[n], RxLease(n), tx[n].state = "Closed")
        /\ tx'[n] = Synced(tx[n], Lease[n], rx'[n].state = "Closed")
        /\ pc'[n] = IF rx'[n].state = "Closed" THEN "ended" ELSE "poll"
        /\ UNCHANGED <<net[n], quiet[Other(n)]>>
    BY <1>3, SyncMoves DEF Silent
  <2>2. ~Expired(tx[n], Lease[n]) /\ ~Expired(rx[n], RxLease(n)) /\ tx[n].state # "Closed"
    BY <2>1, NotOver DEF Alive
  <2>3. rx'[n] = Only("Synchronized") \/ (rx'[n] = rx[n] /\ rx[n].state = "Synchronized")
    BY <1>0, <2>1, <2>2 DEF Synced, Clocked
  <2>4. pc'[n] = "poll" /\ tx'[n].state # "Closed"
    BY <1>0, <2>1, <2>2, <2>3 DEF Synced
  <2>5. CASE rx'[n] = rx[n]
    BY <1>2, <2>1, <2>4, <2>5
  <2>6. CASE rx'[n] = Only("Synchronized")
    BY <1>0, <1>H, <1>S, <2>1, <2>4, <2>6 DEF Alive
  <2> QED
    BY <2>3, <2>5, <2>6
<1>4. CASE WriteTimer(n)
  <2>1. /\ pc[n] \in {"select", "spin"} /\ pc'[n] \in {"sync", "ended"}
        /\ pc'[n] = "ended" => Expired(tx[n], Lease[n])
        /\ UNCHANGED <<rx[n], net[n], quiet[Other(n)]>>
        /\ pc'[n] = "sync" => UNCHANGED tx[n] \/ tx'[n] = Only("Used")
    BY <1>4, WriteMoves
  <2>2. pc'[n] = "sync" /\ tx'[n].state # "Closed"
    BY <1>0, <2>1, NotOver DEF Alive
  <2> QED
    BY <1>2, <2>1, <2>2
<1>5. CASE ReadTimer(n)
  <2>1. /\ pc[n] \in {"select", "spin"} /\ UNCHANGED <<tx[n], rx[n], net[n], quiet[Other(n)]>>
        /\ pc'[n] = IF Expired(rx[n], RxLease(n)) THEN "ended" ELSE "sync"
    BY <1>5, ReadMoves DEF Silent
  <2>2. pc'[n] = "sync" /\ tx'[n].state # "Closed"
    BY <1>0, <2>1, NotOver DEF Alive
  <2> QED
    BY <1>2, <2>1, <2>2
<1>6. CASE RecvAtOnce(n) \/ Recv(n)
  <2>1. pc'[n] = "update" /\ UNCHANGED tx[n]
    BY <1>6, RecvMoves
  <2> QED
    BY <2>1 DEF Alive
<1>7. CASE Updated(n)
  <2>1. pc[n] = "update" /\ pc'[n] = "sync" /\ UNCHANGED <<tx[n], rx[n]>>
    BY <1>7, UpdatedMoves
  <2> QED
    BY <2>1 DEF Alive, Heard, Clocked
<1>13. CASE Crash(n)
  BY <1>0, <1>13, CrashMoves
<1>14. CASE Pends(n) \/ Spin(n)
  <2>1. /\ pc[n] \in Between /\ pc'[n] \in Between
        /\ UNCHANGED <<tx[n], rx[n], net[n], quiet[Other(n)]>>
    BY <1>14, WaitMoves
  <2> QED
    BY <1>2, <2>1 DEF Alive
<1>8. CASE Send(n)
  <2>1. /\ UNCHANGED <<pc[n], rx[n], net[n], quiet[Other(n)]>> /\ tx'[n] = Only("Used")
    BY <1>8, SendMoves
  <2> QED
    BY <1>0, <1>2, <2>1
<1>9. CASE Sent(Other(n)) /\ Untouched(n)
  <2>1. /\ net'[n] = Append(net[n], 0)
        /\ UNCHANGED <<pc[n], tx[n], rx[n]>>
    BY <1>0, <1>9 DEF Sent, Untouched
  <2>2. /\ net'[n] # <<>>
        /\ Head(net'[n]) = IF net[n] = <<>> THEN 0 ELSE Head(net[n])
    <3>1. 0 \in 0..MaxDelay
      BY <1>0
    <3>2. /\ Append(net[n], 0) \in Seq(0..MaxDelay) /\ Len(net[n]) \in Nat
          /\ Len(Append(net[n], 0)) = Len(net[n]) + 1
          /\ \A i \in 1..Len(net[n]) : Append(net[n], 0)[i] = net[n][i]
          /\ Append(net[n], 0)[Len(net[n]) + 1] = 0
      BY <1>0, <3>1, AppendProperties, LenProperties
    <3>3. net'[n] # <<>> /\ Head(net'[n]) = net'[n][1]
      <4>1. net'[n] # <<>>
        <5>1. Len(net'[n]) # 0
          BY <2>1, <3>2
        <5> QED
          BY <5>1, EmptySeq
      <4> QED
        BY <2>1, <3>2, <4>1, HeadFirst
    <3>4. CASE net[n] = <<>>
      BY <2>1, <3>2, <3>3, <3>4, EmptySeq
    <3>5. CASE net[n] # <<>>
      <4>1. Head(net[n]) = net[n][1] /\ 1 \in 1..Len(net[n])
        BY <1>0, <3>5, HeadFirst, LenProperties
      <4> QED
        BY <2>1, <3>2, <3>3, <3>5, <4>1
    <3> QED
      BY <3>3, <3>4, <3>5
  <2>3. ASSUME pc[n] \in Between, Heard(n)
        PROVE  rx[n].age <= Silence(Other(n))' + Head(net'[n])
    <3>1. CASE net[n] = <<>>
      <4>1. rx[n].age <= quiet[Other(n)] /\ Head(net'[n]) = 0
        BY <2>2, <2>3, <3>1 DEF Alive
      <4> QED
        BY <1>0, <1>1, <1>S, <4>1
    <3>2. CASE net[n] # <<>>
      <4>1. rx[n].age <= Silence(Other(n)) + Head(net[n]) /\ Head(net'[n]) = Head(net[n])
        BY <2>2, <2>3, <3>2 DEF Alive
      <4>2. PICK s \in Nat, t \in Nat, h \in Nat, age \in Nat :
              /\ s = Silence(Other(n)) /\ t = Silence(Other(n))' /\ h = Head(net[n])
              /\ age = rx[n].age
        BY <1>0, <1>H, <1>S, <3>2
      <4>3. s <= t /\ age <= s + h
        BY <1>S, <4>1, <4>2
      <4>4. age <= t + h
        BY <4>2, <4>3
      <4> QED
        BY <4>1, <4>2, <4>4
    <3> QED
      BY <3>1, <3>2
  <2> QED
    BY <2>1, <2>2, <2>3 DEF Alive, Heard
<1>10. CASE Tick
  <2>1. /\ ~Overdue(n) /\ pc'[n] = pc[n] /\ pc[n] \notin {"sync", "poll"}
        /\ Len(net'[n]) = Len(net[n])
        /\ \A i \in DOMAIN net[n] : net'[n][i] = More(net[n][i], MaxDelay)
        /\ quiet[Other(n)] < MaxQuiet => quiet'[Other(n)] = quiet[Other(n)] + 1
        /\ tx'[n] = Aged(tx[n], Lease[n] + 1)
    BY <1>0, <1>10, TickMoves DEF Overdue
  <2>2. pc'[n] # "ended" /\ tx'[n].state # "Closed"
    BY <2>1 DEF Alive, Aged
  <2>3. CASE pc[n] = "update"
    BY <2>1, <2>2, <2>3 DEF Alive
  <2>4. CASE pc[n] \in {"select", "spin"}
    <3>1. Heard(n) /\ rx[n].age <= RxLease(n)
      BY <2>4, NotOver DEF Clocked
    <3>2. rx'[n].age = rx[n].age + 1
      BY <1>0, <1>10, <3>1, TickHeard
    <3>3. CASE net[n] = <<>>
      <4>1. net'[n] = <<>>
        <5>1. net'[n] \in Seq(0..MaxDelay)
          BY DEF TypeOK
        <5> QED
          BY <2>1, <3>3, <5>1, EmptySeq
      <4>2. MaxQuiet \in Nat /\ quiet'[Other(n)] = quiet[Other(n)] + 1
        BY <1>0, <1>1, <2>1, TimesAssumption
      <4>3. rx[n].age <= quiet[Other(n)]
        BY <2>4, <3>1, <3>3 DEF Alive
      <4>4. rx'[n].age <= quiet'[Other(n)]
        BY <1>0, <3>2, <4>2, <4>3
      <4> QED
        BY <2>2, <4>1, <4>4 DEF Alive
    <3>4. CASE net[n] # <<>>
      <4>1. /\ 1 \in DOMAIN net[n] /\ Head(net[n]) = net[n][1] /\ Head(net[n]) \in 0..MaxDelay
        BY <1>0, <3>4, HeadFirst
      <4>2. net'[n] # <<>> /\ Head(net'[n]) = net'[n][1]
        <5>1. net'[n] \in Seq(0..MaxDelay) /\ Len(net[n]) # 0
          BY <1>0, <3>4, EmptySeq DEF TypeOK
        <5>2. net'[n] # <<>>
          BY <2>1, <5>1, EmptySeq
        <5> QED
          BY <5>1, <5>2, HeadFirst
      <4>3. Head(net[n]) < MaxDelay
        BY <1>0, <2>1, <2>4, <3>4, <4>1 DEF Overdue, Arrived
      <4>4. Head(net'[n]) = Head(net[n]) + 1
        BY <2>1, <4>1, <4>2, <4>3 DEF More
      <4>5. rx[n].age <= Silence(Other(n)) + Head(net[n])
        BY <2>4, <3>1, <3>4 DEF Alive
      <4>6. rx'[n].age <= Silence(Other(n))' + Head(net'[n])
        <5>1. PICK h \in Nat, s \in Nat, t \in Nat, age \in Nat :
                /\ h = Head(net[n]) /\ s = Silence(Other(n)) /\ t = Silence(Other(n))'
                /\ age = rx[n].age
          BY <1>0, <1>S, <4>1
        <5>2. age <= s + h /\ s <= t
          BY <1>S, <4>5, <5>1
        <5>3. age + 1 <= t + (h + 1)
          BY <5>1, <5>2
        <5> QED
          BY <3>2, <4>4, <5>1, <5>3
      <4> QED
        BY <2>2, <4>2, <4>6 DEF Alive
    <3> QED
      BY <3>3, <3>4
  <2> QED
    BY <1>0, <2>1, <2>3, <2>4
<1>11. ASSUME NEW a \in Nodes, a # n, Loop(a) \/ Send(a) \/ Crash(a) PROVE Alive(n)'
  <2>1. CASE UNCHANGED <<net[n], quiet[Other(n)]>>
    <3>1. UNCHANGED <<pc[n], tx[n], rx[n]>>
      BY <1>11, Apart DEF Untouched
    <3> QED
      BY <1>2, <2>1, <3>1 DEF Alive
  <2>2. CASE Sent(Other(n))
    BY <1>9, <1>11, <2>2, Apart
  <2> QED
    BY <1>11, <2>1, <2>2, Apart
<1>12. CASE UNCHANGED vars
  <2>1. UNCHANGED <<pc[n], tx[n], rx[n], net[n], quiet[Other(n)]>>
    BY <1>12 DEF vars
  <2> QED
    BY <1>2, <2>1 DEF Alive
<1> QED
  BY <1>3, <1>4, <1>5, <1>6, <1>7, <1>8, <1>10, <1>11, <1>12, <1>13, <1>14 DEF Next, Loop

-------------------------------------------------------------------------------
(* Results.                                                                   *)

LEMMA InitInv == Init => IInv
<1> SUFFICES ASSUME Init PROVE IInv
  OBVIOUS
<1>0. MaxBusy \in Nat /\ MaxDelay \in Nat /\ MaxKept \in Nat /\ 0 \in 0..MaxKept /\ 0 \in 0..MaxBusy
  BY TimesAssumption
<1>1. Only("Opened") \in Clock /\ Only("Opened").state = "Opened" /\ Only("Opened").age = 0
  BY DEF Only, Clock
<1>2. TypeOK
  BY <1>0, <1>1, EmptySeq DEF Init, TypeOK
<1>3. ASSUME NEW n \in Nodes
      PROVE  SentInTime(n) /\ Clocked(n) /\ Delivered(n) /\ ReadInTime(n) /\ Alive(n)
  <2>1. /\ pc[n] = "sync" /\ tx[n].state = "Opened" /\ rx[n].state = "Opened"
        /\ quiet[n] = 0 /\ quiet[Other(n)] = 0 /\ behind[Other(n)] = 0
        /\ kept[n] = 0 /\ longest[n] = 0
        /\ Len(net[n]) = 0 /\ net[n] = <<>> /\ DOMAIN net[n] = {}
    BY <1>1, Ends, EmptySeq DEF Init
  <2>2. First(n) \in Nat /\ Silence(n) \in Nat /\ Quarter(n) \in Nat
    BY <1>2, Waits, Times
  <2>3. Reads(n) \in Nat
    BY <2>1, ReadsTypes, <1>0 DEF Reads
  <2>4. Turning(n)
    BY <2>1, <2>2 DEF Turning
  <2>5. SentInTime(n)
    BY <2>1, <2>2, <2>4 DEF SentInTime
  <2> QED
    BY <2>1, <2>3, <2>5 DEF Clocked, Delivered, ReadInTime, Alive, Heard
<1> QED
  BY <1>2, <1>3 DEF IInv

\* Nothing shortens the longest run of callbacks, nor the silence it allows.
LEMMA SilenceGrows ==
  ASSUME TypeOK, TypeOK', NEW n \in Nodes, SentInTime(n), [Next]_vars
  PROVE  /\ longest[n] <= longest'[n] /\ Silence(n) <= Silence(n)'
         /\ Silence(n) \in Nat /\ Silence(n)' \in Nat
         /\ longest[n] \in Nat /\ longest'[n] \in Nat
<1>1. /\ longest[n] \in 0..MaxKept /\ longest'[n] \in 0..MaxKept /\ kept[n] \in 0..MaxKept
      /\ MaxKept \in Nat
  BY Times DEF TypeOK
<1>2. longest[n] <= longest'[n]
  BY LongestGrows DEF SentInTime
<1>3. PICK h \in Nat, l \in Nat, k \in Nat : h = Lease[n] \div 2 /\ l = longest[n] /\ k = longest'[n]
  <2>1. Lease[n] \div 2 = 2 * Quarter(n) /\ Quarter(n) \in Nat
    BY Times
  <2> QED
    BY <1>1, <2>1
<1>4. Silence(n) = h + 1 + 2 * l
  BY <1>3 DEF Silence
<1>5. Silence(n)' = h + 1 + 2 * k
  BY <1>3 DEF Silence
<1>6. l <= k
  BY <1>2, <1>3
<1>7. /\ h + 1 + 2 * l <= h + 1 + 2 * k
      /\ h + 1 + 2 * l \in Nat /\ h + 1 + 2 * k \in Nat
  BY <1>6
<1> QED
  BY <1>2, <1>3, <1>4, <1>5, <1>7

\* A crashed node stays so.
LEMMA CrashedOnce ==
  ASSUME TypeOK, NEW n \in Nodes, pc[n] = "crashed", [Next]_vars
  PROVE  pc'[n] = "crashed"
<1>1. CASE UNCHANGED pc[n]
  BY <1>1
<1>2. ASSUME NEW a \in Nodes, Loop(a) \/ Send(a) \/ Crash(a) PROVE pc'[n] = "crashed"
  <2>1. CASE a # n
    BY <1>2, <2>1, Apart DEF Untouched
  <2>2. CASE a = n
    BY <1>2, <2>2, SyncMoves, WriteMoves, ReadMoves, RecvMoves, WaitMoves, UpdatedMoves,
       CrashMoves, SendMoves DEF Loop
  <2> QED
    BY <2>1, <2>2
<1>3. CASE Tick
  BY <1>1, <1>3, TickMoves
<1>4. CASE UNCHANGED vars
  BY <1>1, <1>4 DEF vars
<1> QED
  BY <1>2, <1>3, <1>4 DEF Next

LEMMA StepInv == IInv /\ [Next]_vars => IInv'
<1> SUFFICES ASSUME IInv, [Next]_vars PROVE IInv'
  OBVIOUS
<1>1. TypeOK /\ TypeOK'
  BY TypeStep DEF IInv
<1>2. ASSUME NEW n \in Nodes
      PROVE  SentInTime(n)' /\ Clocked(n)' /\ Delivered(n)' /\ ReadInTime(n)'
  <2>1. SentInTime(n)' /\ Clocked(n)' /\ Delivered(n)'
    BY <1>1, SentStep, ClockedStep, DeliveredStep DEF IInv
  <2> QED
    BY <1>1, <2>1, ReadInTimeStep DEF IInv
<1>3. BothThere' => BothThere
  <2> SUFFICES ASSUME BothThere' PROVE BothThere
    OBVIOUS
  <2>1. ASSUME NEW n \in Nodes PROVE pc[n] # "crashed"
    BY <1>1, <2>1, CrashedOnce DEF BothThere
  <2>2. ASSUME NEW n \in Nodes PROVE longest[n] < MaxKept /\ Silence(n) + MaxDelay <= Lease[n]
    <3>1. longest'[n] < MaxKept /\ Silence(n)' + MaxDelay <= Lease[n]
      <4>1. QuickEnough'
        BY DEF BothThere
      <4> QED
        BY <4>1 DEF QuickEnough
    <3>2. PICK k \in Nat, l \in Nat, s \in Nat, t \in Nat :
            k = longest[n] /\ l = longest'[n] /\ s = Silence(n) /\ t = Silence(n)'
      BY <1>1, SilenceGrows DEF IInv
    <3>3. k <= l /\ s <= t
      BY <1>1, <3>2, SilenceGrows DEF IInv
    <3>4. MaxKept \in Nat /\ MaxDelay \in Nat /\ Lease[n] \in Nat
      BY Times
    <3>5. l < MaxKept /\ t + MaxDelay <= Lease[n]
      BY <3>1, <3>2
    <3>6. k < MaxKept /\ s + MaxDelay <= Lease[n]
      BY <3>2, <3>3, <3>4, <3>5
    <3> QED
      BY <3>2, <3>6
  <2> QED
    BY <2>1, <2>2 DEF BothThere, QuickEnough
<1>4. ASSUME BothThere', NEW n \in Nodes PROVE Alive(n)'
  <2>1. BothThere /\ Alive(n) /\ Alive(Other(n)) /\ Other(n) \in Nodes
    BY <1>3, <1>4, Ends DEF IInv
  <2>2. Silence(Other(n)) <= Silence(Other(n))'
    BY <1>1, <2>1, SilenceGrows DEF IInv
  <2> QED
    BY <1>1, <1>4, <2>1, <2>2, AliveStep DEF IInv
<1> QED
  BY <1>1, <1>2, <1>4 DEF IInv

LEMMA InvHolds == Spec => []IInv
BY InitInv, StepInv, PTL DEF Spec

\* Every clock, timer and batch has its type, and no batch is on the link for longer than it
\* may be, for all leases, delays and callbacks.
THEOREM TypeCorrect == Spec => []TypeOK
<1>1. IInv => TypeOK
  BY DEF IInv
<1> QED
  BY <1>1, InvHolds, PTL

\* Half a lease, and twice the longest time that its peer has kept it from its timers, is the
\* longest silence of a node whose driver runs (tx.rs:61-97, driver.rs:69-112), whatever its
\* user sends and however long the callbacks of one batch take.
THEOREM QuietHolds == Spec => []QuietAtMostHalf
<1>1. IInv => QuietAtMostHalf
  BY DEF IInv, SentInTime, QuietAtMostHalf
<1> QED
  BY <1>1, InvHolds, PTL

\* Neither driver gives up a transport whose ends are both there, as long as that silence and
\* the delay of the link are within the lease.
THEOREM NoFalseCloseHolds == Spec => []NoFalseClose
<1>1. IInv => NoFalseClose
  BY DEF IInv, BothThere, Alive, NoFalseClose
<1> QED
  BY <1>1, InvHolds, PTL

\* An end notices that nothing comes any more, after the lease, the delay of the link and the
\* callbacks of what was on it, however many batches that is.
THEOREM SilenceIsDetected == Spec => []SilenceDetected
<1>1. IInv => SilenceDetected
  <2> SUFFICES ASSUME IInv, NEW n \in Nodes, Running(n)
               PROVE  quiet[Other(n)] <= Lease[Other(n)] + 1 + MaxDelay
                        + (behind[Other(n)] + 2) * MaxBusy
    BY DEF SilenceDetected
  <2>1. TypeOK /\ Clocked(n) /\ Delivered(n) /\ ReadInTime(n)
    BY DEF IInv
  <2>2. /\ Other(n) \in Nodes /\ quiet[Other(n)] \in Nat /\ behind[Other(n)] \in Nat
        /\ busy[n] \in Nat /\ rx[n].age \in Nat /\ RxLease(n) \in Nat /\ Len(net[n]) \in Nat
        /\ MaxBusy \in Nat /\ MaxDelay \in Nat /\ RxLease(n) = Lease[Other(n)] /\ RxLease(n) >= 1
        /\ pc[n] \in Between \cup {"update"}
    <3>1. Other(n) \in Nodes
      BY Ends
    <3>2. quiet[Other(n)] \in Nat /\ behind[Other(n)] \in Nat
      BY <2>1, <3>1 DEF TypeOK
    <3>3. /\ busy[n] \in Nat /\ rx[n].age \in Nat /\ RxLease(n) \in Nat
          /\ pc[n] \in Between \cup {"update"} /\ net[n] \in Seq(0..MaxDelay)
      BY <2>1, NodeTypes DEF Running, Between
    <3>4. /\ MaxBusy \in Nat /\ MaxDelay \in Nat /\ Lease[Other(n)] \in Nat
          /\ Quarter(Other(n)) \in Nat /\ Lease[Other(n)] = 4 * Quarter(Other(n))
          /\ Quarter(Other(n)) >= 1
      BY <3>1, Times
    <3>5. RxLease(n) = Lease[Other(n)] /\ RxLease(n) >= 1
      BY <3>4 DEF RxLease
    <3>6. Len(net[n]) \in Nat
      BY <3>3, LenProperties
    <3> QED
      BY <3>1, <3>2, <3>3, <3>4, <3>5, <3>6
  <2>3. PICK k \in Nat, l \in Nat, c \in Nat :
          k = behind[Other(n)] + 1 - Len(net[n]) /\ l = Len(net[n]) /\ c = MaxBusy
    <3>1. Len(net[n]) <= behind[Other(n)] + 1
      BY <2>1 DEF Delivered
    <3>2. behind[Other(n)] + 1 - Len(net[n]) \in Nat
      BY <2>2, <3>1
    <3> QED
      BY <2>2, <3>2
  <2>4. /\ k * c \in Nat /\ Reads(n) = MaxDelay + c + k * c
        /\ behind[Other(n)] + 2 = k + l + 1
    <3>1. k * c \in Nat
      BY <2>3, Products
    <3>2. Reads(n) = MaxDelay + c + k * c
      BY <2>3 DEF Reads
    <3>3. behind[Other(n)] + 2 = k + l + 1
      BY <2>2, <2>3
    <3> QED
      BY <3>1, <3>2, <3>3
  <2>5. PICK p \in Nat : p = k * c
    BY <2>4
  <2>6. PICK q \in Nat : q = (behind[Other(n)] + 2) * MaxBusy /\ q >= p + c
    <3>1. (k + l + 1) * c = k * c + l * c + c /\ l * c \in Nat
      BY <2>3, Products, Distributes
    <3>2. (behind[Other(n)] + 2) * MaxBusy = (k + l + 1) * c
      BY <2>3, <2>4
    <3>3. PICK r \in Nat : r = l * c
      BY <3>1
    <3>4. (behind[Other(n)] + 2) * MaxBusy = p + r + c
      BY <2>5, <3>1, <3>2, <3>3
    <3>5. p + r + c >= p + c /\ p + r + c \in Nat
      OBVIOUS
    <3> QED
      BY <3>4, <3>5
  <2>7. PICK x \in Nat, y \in Nat, d \in Nat, age \in Nat :
          /\ x = quiet[Other(n)] /\ y = Lease[Other(n)] /\ y = RxLease(n) /\ d = MaxDelay
          /\ age = rx[n].age
    BY <2>2
  <2>8. x <= d + c + p + y + 1
    <3>1. Reads(n) = d + c + p
      BY <2>4, <2>5, <2>7
    <3>2. CASE pc[n] = "update"
      <4>1. quiet[Other(n)] + busy[n] <= Reads(n) /\ busy[n] \in Nat
        BY <2>1, <2>2, <3>2 DEF ReadInTime
      <4>2. PICK b \in Nat : b = busy[n]
        BY <4>1
      <4>3. x + b <= d + c + p
        BY <2>7, <3>1, <4>1, <4>2
      <4> QED
        BY <4>3
    <3>3. CASE pc[n] \in Between /\ net[n] # <<>>
      <4>1. x <= d + c + p
        BY <2>1, <2>7, <3>1, <3>3 DEF ReadInTime
      <4> QED
        BY <4>1
    <3>4. CASE pc[n] \in Between /\ net[n] = <<>>
      <4>1. Heard(n) => age <= y + 1
        BY <2>1, <2>7 DEF Clocked
      <4>2. x <= d + c + p + (IF Heard(n) THEN age ELSE 0)
        BY <2>1, <2>7, <3>1, <3>4 DEF ReadInTime
      <4> QED
        BY <4>1, <4>2
    <3>5. pc[n] = "update" \/ pc[n] \in Between
      BY <2>2
    <3> QED
      BY <3>2, <3>3, <3>4, <3>5
  <2>9. x <= y + 1 + d + q
    BY <2>6, <2>8
  <2> QED
    BY <2>6, <2>7, <2>9
<1> QED
  BY <1>1, InvHolds, PTL
===============================================================================
