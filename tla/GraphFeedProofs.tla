-------------------------- MODULE GraphFeedProofs --------------------------
(***************************************************************************)
(* Proofs about GraphFeed for any number of items, tabs and server restarts *)
(* and any queue limit.                                                    *)
(***************************************************************************)
EXTENDS GraphFeed, SequenceTheorems, TLAPS

USE QueueAssumption, ServerAssumption

-----------------------------------------------------------------------------
(* Applying differences in order.                                          *)

LEMMA DrainMember ==
  ASSUME NEW view, NEW q \in Seq(Diffs), NEW x
  PROVE  x \in Drain(view, q) <=>
           \E i \in 0..Len(q) :
             /\ x \in Brings(view, q, i)
             /\ \A j \in 1..Len(q) : i <= j => x \notin q[j].removed
<1>1. DOMAIN q = 1..Len(q) /\ Len(q) \in Nat
  BY LenProperties
<1>2. {0} \cup DOMAIN q = 0..Len(q)
  BY <1>1
<1>. QED  BY <1>1, <1>2 DEF Drain

\* An empty queue leaves the view as it is.
LEMMA DrainEmpty ==
  ASSUME NEW view
  PROVE  Drain(view, << >>) = view
<1>. DEFINE q == << >>
<1>1. q \in Seq(Diffs) /\ 0..Len(q) = {0} /\ 1..Len(q) = {}
  <2>1. q \in Seq(Diffs) /\ Len(q) = 0
    BY EmptySeq
  <2>. QED  BY <2>1
<1>. HIDE DEF q
<1>2. \A x : x \in Drain(view, q) <=> x \in Brings(view, q, 0)
  BY <1>1, DrainMember
<1>. QED  BY <1>2 DEF Brings, q

\* A difference at the end of the queue is applied last ...
LEMMA DrainAppend ==
  ASSUME NEW view, NEW q \in Seq(Diffs), NEW d \in Diffs
  PROVE  Drain(view, Append(q, d)) = Apply(Drain(view, q), d)
<1>. DEFINE r == Append(q, d)
            n == Len(q)
<1>1. /\ n \in Nat /\ r \in Seq(Diffs) /\ Len(r) = n + 1
      /\ r[n + 1] = d /\ \A i \in 1..n : r[i] = q[i]
  BY AppendProperties, LenProperties
<1>. HIDE DEF r, n
<1>2. /\ \A i \in 0..n : Brings(view, r, i) = Brings(view, q, i)
      /\ Brings(view, r, n + 1) = d.added
  BY <1>1 DEF Brings
<1>3. ASSUME NEW x  PROVE x \in Drain(view, r) <=> x \in Apply(Drain(view, q), d)
  <2>1. x \in Drain(view, r) <=>
          \E i \in 0..(n + 1) :
            /\ x \in Brings(view, r, i)
            /\ \A j \in 1..(n + 1) : i <= j => x \notin r[j].removed
    BY <1>1, DrainMember
  <2>2. x \in Drain(view, q) <=>
          \E i \in 0..n : /\ x \in Brings(view, q, i)
                          /\ \A j \in 1..n : i <= j => x \notin q[j].removed
    BY DrainMember DEF n
  <2>3. ASSUME x \in Drain(view, r)  PROVE x \in Apply(Drain(view, q), d)
    <3>1. PICK i \in 0..(n + 1) : /\ x \in Brings(view, r, i)
                                  /\ \A j \in 1..(n + 1) : i <= j => x \notin r[j].removed
      BY <2>1, <2>3
    <3>2. x \notin d.removed
      BY <1>1, <3>1
    <3>3. CASE i = n + 1
      BY <1>2, <3>1, <3>2, <3>3 DEF Apply
    <3>4. CASE i \in 0..n
      <4>1. x \in Brings(view, q, i)
        BY <1>2, <3>1, <3>4
      <4>2. \A j \in 1..n : i <= j => x \notin q[j].removed
        BY <1>1, <3>1
      <4>. QED  BY <2>2, <3>2, <3>4, <4>1, <4>2 DEF Apply
    <3>. QED  BY <1>1, <3>3, <3>4
  <2>4. ASSUME x \in Apply(Drain(view, q), d)  PROVE x \in Drain(view, r)
    <3>1. x \notin d.removed /\ (x \in Drain(view, q) \/ x \in d.added)
      BY <2>4 DEF Apply
    <3>2. CASE x \in d.added
      <4>1. /\ n + 1 \in 0..(n + 1) /\ x \in Brings(view, r, n + 1)
            /\ \A j \in 1..(n + 1) : n + 1 <= j => x \notin r[j].removed
        BY <1>1, <1>2, <3>1, <3>2
      <4>. QED  BY <2>1, <4>1
    <3>3. CASE x \in Drain(view, q)
      <4>1. PICK i \in 0..n : /\ x \in Brings(view, q, i)
                              /\ \A j \in 1..n : i <= j => x \notin q[j].removed
        BY <2>2, <3>3
      <4>2. i \in 0..(n + 1) /\ x \in Brings(view, r, i)
        BY <1>1, <1>2, <4>1
      <4>3. ASSUME NEW j \in 1..(n + 1), i <= j  PROVE x \notin r[j].removed
        <5>1. j = n + 1 \/ j \in 1..n
          BY <1>1
        <5>. QED  BY <1>1, <3>1, <4>1, <4>3, <5>1
      <4>. QED  BY <2>1, <4>2, <4>3
    <3>. QED  BY <3>1, <3>2, <3>3
  <2>. QED  BY <2>3, <2>4
<1>. QED  BY <1>3 DEF r

\* ... and the one at its head first.
LEMMA DrainHead ==
  ASSUME NEW view, NEW q \in Seq(Diffs), q # << >>
  PROVE  Drain(Apply(view, Head(q)), Tail(q)) = Drain(view, q)
<1>. DEFINE r == Tail(q)
            n == Len(r)
            d == Head(q)
            w == Apply(view, d)
<1>1. /\ r \in Seq(Diffs) /\ n \in Nat /\ Len(q) = n + 1
      /\ q[1] = d /\ \A i \in 1..n : r[i] = q[i + 1]
  <2>1. Len(q) \in Nat /\ d = q[1]
    BY LenProperties
  <2>2. r \in Seq(Diffs) /\ Len(r) = Len(q) - 1 /\ \A i \in 1..Len(r) : r[i] = q[i + 1]
    BY HeadTailProperties
  <2>3. Len(r) \in Nat
    BY <2>2, LenProperties
  <2>. QED  BY <2>1, <2>2, <2>3
<1>. HIDE DEF r, n, d
<1>2. /\ \A i \in 1..n : Brings(w, r, i) = Brings(view, q, i + 1)
      /\ Brings(w, r, 0) = (Brings(view, q, 0) \cup Brings(view, q, 1)) \ d.removed
  BY <1>1 DEF Brings, Apply
<1>. HIDE DEF w
<1>3. ASSUME NEW x  PROVE x \in Drain(w, r) <=> x \in Drain(view, q)
  <2>1. x \in Drain(w, r) <=>
          \E i \in 0..n : /\ x \in Brings(w, r, i)
                          /\ \A j \in 1..n : i <= j => x \notin r[j].removed
    BY <1>1, DrainMember DEF n
  <2>2. x \in Drain(view, q) <=>
          \E i \in 0..(n + 1) :
            /\ x \in Brings(view, q, i)
            /\ \A j \in 1..(n + 1) : i <= j => x \notin q[j].removed
    BY <1>1, DrainMember
  <2>3. ASSUME x \in Drain(w, r)  PROVE x \in Drain(view, q)
    <3>1. PICK i \in 0..n : /\ x \in Brings(w, r, i)
                            /\ \A j \in 1..n : i <= j => x \notin r[j].removed
      BY <2>1, <2>3
    <3>2. \A j \in 2..(n + 1) : i + 1 <= j => x \notin q[j].removed
      <4>1. ASSUME NEW j \in 2..(n + 1), i + 1 <= j  PROVE x \notin q[j].removed
        <5>1. j - 1 \in 1..n /\ i <= j - 1 /\ (j - 1) + 1 = j
          BY <1>1, <4>1
        <5>. QED  BY <1>1, <3>1, <5>1
      <4>. QED  BY <4>1
    <3>3. CASE i \in 1..n
      <4>1. i + 1 \in 0..(n + 1) /\ x \in Brings(view, q, i + 1)
        BY <1>1, <1>2, <3>1, <3>3
      <4>2. \A j \in 1..(n + 1) : i + 1 <= j => x \notin q[j].removed
        <5>1. \A j \in 1..(n + 1) : i + 1 <= j => j \in 2..(n + 1)
          BY <1>1, <3>3
        <5>. QED  BY <3>2, <5>1
      <4>. QED  BY <2>2, <4>1, <4>2
    <3>4. CASE i = 0
      <4>1. PICK k \in {0, 1} : x \in Brings(view, q, k)
        BY <1>2, <3>1, <3>4
      <4>2. x \notin d.removed
        BY <1>2, <3>1, <3>4
      <4>3. k \in 0..(n + 1)
        BY <1>1
      <4>4. ASSUME NEW j \in 1..(n + 1)  PROVE x \notin q[j].removed
        <5>1. j = 1 \/ (j \in 2..(n + 1) /\ i + 1 <= j)
          BY <1>1, <3>4
        <5>. QED  BY <1>1, <3>2, <4>2, <5>1
      <4>. QED  BY <2>2, <4>1, <4>3, <4>4
    <3>. QED  BY <1>1, <3>3, <3>4
  <2>4. ASSUME x \in Drain(view, q)  PROVE x \in Drain(w, r)
    <3>1. PICK i \in 0..(n + 1) : /\ x \in Brings(view, q, i)
                                  /\ \A j \in 1..(n + 1) : i <= j => x \notin q[j].removed
      BY <2>2, <2>4
    <3>2. \A j \in 1..n : i <= j + 1 => x \notin r[j].removed
      BY <1>1, <3>1
    <3>3. CASE i \in {0, 1}
      <4>1. x \notin d.removed
        BY <1>1, <3>1, <3>3
      <4>2. x \in Brings(w, r, 0) /\ 0 \in 0..n
        BY <1>1, <1>2, <3>1, <3>3, <4>1
      <4>3. \A j \in 1..n : x \notin r[j].removed
        BY <1>1, <3>2, <3>3
      <4>. QED  BY <2>1, <4>2, <4>3
    <3>4. CASE i \in 2..(n + 1)
      <4>1. i - 1 \in 1..n /\ (i - 1) + 1 = i
        BY <1>1, <3>4
      <4>2. x \in Brings(w, r, i - 1)
        BY <1>2, <3>1, <4>1
      <4>3. \A j \in 1..n : i - 1 <= j => x \notin r[j].removed
        BY <1>1, <3>2, <3>4
      <4>. QED  BY <2>1, <4>1, <4>2, <4>3
    <3>. QED  BY <1>1, <3>3, <3>4
  <2>. QED  BY <2>3, <2>4
<1>. QED  BY <1>3 DEF r, d, w

-----------------------------------------------------------------------------
(* Types.                                                                  *)

TabRecs == [pc : TabPcs, view : SUBSET Items, reply : SUBSET Items]

LEMMA ApplyType ==
  ASSUME NEW view \in SUBSET Items, NEW d \in Diffs
  PROVE  Apply(view, d) \in SUBSET Items
BY DEF Apply, Diffs

LEMMA EnqueueType ==
  ASSUME NEW q \in Seq(Diffs), NEW d \in Diffs, Len(q) <= QueueMax
  PROVE  /\ Enqueue(q, d) \in Seq(Diffs)
         /\ Len(Enqueue(q, d)) <= QueueMax
         /\ Len(q) # QueueMax => Enqueue(q, d) = Append(q, d)
<1>1. /\ Len(q) \in Nat /\ Append(q, d) \in Seq(Diffs)
      /\ Len(Append(q, d)) = Len(q) + 1
  BY AppendProperties, LenProperties
<1>. QED  BY <1>1 DEF Enqueue

LEMMA TailType ==
  ASSUME NEW q \in Seq(Diffs), q # << >>, Len(q) <= QueueMax
  PROVE  /\ Head(q) \in Diffs /\ Tail(q) \in Seq(Diffs) /\ Len(Tail(q)) <= QueueMax
<1>1. /\ Head(q) \in Diffs /\ Tail(q) \in Seq(Diffs) /\ Len(Tail(q)) = Len(q) - 1
      /\ Len(q) \in Nat
  BY HeadTailProperties, LenProperties
<1>. QED  BY <1>1

LEMMA EmptyQueues ==
  ASSUME NEW q, q = [t \in Tabs |-> << >>]
  PROVE  /\ q \in [Tabs -> Seq(Diffs)]
         /\ \A t \in Tabs : Len(q[t]) <= QueueMax
<1>. DEFINE e == << >>
<1>1. e \in Seq(Diffs) /\ Len(e) <= QueueMax
  BY EmptySeq
<1>2. q = [t \in Tabs |-> e]
  OBVIOUS
<1>. HIDE DEF e
<1>. QED  BY <1>1, <1>2

LEMMA InitTyped == Init => TypeOK
<1>. SUFFICES ASSUME Init  PROVE TypeOK
  OBVIOUS
<1>1. queue \in [Tabs -> Seq(Diffs)] /\ \A t \in Tabs : Len(queue[t]) <= QueueMax
  BY EmptyQueues DEF Init
<1>2. tab \in [Tabs -> TabRecs] /\ poll \in [pc : PollPcs, reply : SUBSET Items]
  BY DEF Init, Asleep, ClosedTab, TabRecs, PollPcs, TabPcs
<1>3. /\ saved = {} /\ last = {} /\ bootstrapped = FALSE /\ servers = 0
      /\ lost = [t \in Tabs |-> {}]
  BY DEF Init
<1>4. /\ {saved, last} \subseteq SUBSET Items /\ bootstrapped \in BOOLEAN
      /\ lost \in [Tabs -> SUBSET Causes]
  BY <1>3
<1>5. servers \in 0..MaxServers
  BY <1>3
<1>. QED  BY <1>1, <1>2, <1>4, <1>5 DEF TypeOK, TabRecs

\* The difference of two graphs is one, and the one the poll task broadcasts.
LEMMA DiffType ==
  ASSUME NEW old \in SUBSET Items, NEW new \in SUBSET Items
  PROVE  /\ Diff(old, new) \in Diffs
         /\ Apply(old, Diff(old, new)) = new
BY DEF Diff, Diffs, Apply

LEMMA NextTyped ==
  ASSUME TypeOK, [Next]_vars
  PROVE  TypeOK'
<1>1. /\ saved \in SUBSET Items /\ last \in SUBSET Items /\ bootstrapped \in BOOLEAN
      /\ poll \in [pc : PollPcs, reply : SUBSET Items]
      /\ tab \in [Tabs -> TabRecs]
      /\ queue \in [Tabs -> Seq(Diffs)]
      /\ \A t \in Tabs : Len(queue[t]) <= QueueMax
      /\ lost \in [Tabs -> SUBSET Causes] /\ servers \in 0..MaxServers
  BY DEF TypeOK, TabRecs
<1>2. << >> \in Seq(Diffs) /\ Len(<< >>) <= QueueMax
  BY EmptySeq
<1>3. ClosedTab \in TabRecs /\ Asleep \in [pc : PollPcs, reply : SUBSET Items]
  BY DEF ClosedTab, Asleep, TabRecs, TabPcs, PollPcs
<1>4. \A ts, c : c \in Causes => MarkLost(ts, c) \in [Tabs -> SUBSET Causes]
  BY <1>1 DEF MarkLost
<1>5. ASSUME NEW batch \in SUBSET Items, Save(batch)  PROVE TypeOK'
  BY <1>1, <1>5 DEF Save, TypeOK, TabRecs
<1>6. CASE PollStarts \/ PollRead \/ PollFails
  BY <1>1, <1>3, <1>6 DEF PollStarts, PollRead, PollFails, TypeOK, TabRecs, PollPcs
<1>7. CASE PollHandle
  <2>. DEFINE d == Diff(last, poll.reply)
  <2>1. poll.reply \in SUBSET Items /\ d \in Diffs
    BY <1>1, DiffType
  <2>. HIDE DEF d
  <2>2. queue' \in [Tabs -> Seq(Diffs)] /\ \A t \in Tabs : Len(queue'[t]) <= QueueMax
    <3>1. \/ queue' = queue
          \/ queue' = [t \in Tabs |-> IF tab[t].pc = "live" THEN Enqueue(queue[t], d)
                                      ELSE queue[t]]
      BY <1>7 DEF PollHandle, d
    <3>2. \A t \in Tabs : /\ Enqueue(queue[t], d) \in Seq(Diffs)
                           /\ Len(Enqueue(queue[t], d)) <= QueueMax
      BY <1>1, <2>1, EnqueueType
    <3>. QED  BY <1>1, <3>1, <3>2
  <2>3. lost' \in [Tabs -> SUBSET Causes]
    <3>. DEFINE full == {t \in {u \in Tabs : tab[u].pc = "live"} : Len(queue[t]) = QueueMax}
    <3>1. \/ lost' = lost
          \/ lost' = [t \in Tabs |->
                 lost[t] \cup (IF t \in full THEN {"full"} ELSE {})
                         \cup (IF tab[t].pc = "loaded" THEN {"unregistered"} ELSE {})]
      BY <1>7 DEF PollHandle
    <3>. HIDE DEF full
    <3>. QED  BY <1>1, <3>1 DEF Causes
  <2>4. UNCHANGED <<saved, tab, servers>> /\ bootstrapped' = TRUE /\ last' = poll.reply
        /\ poll' = Asleep
    BY <1>7 DEF PollHandle
  <2>. QED  BY <1>1, <1>3, <2>1, <2>2, <2>3, <2>4 DEF TypeOK, TabRecs
<1>8. ASSUME NEW t \in Tabs, TabStep(t)  PROVE TypeOK'
  <2>1. tab[t] \in TabRecs
    BY <1>1
  <2>2. CASE OpenPage(t) \/ FetchRead(t) \/ FetchFails(t)
    <3>1. tab' \in [Tabs -> TabRecs]
      <4>1. CASE OpenPage(t)
        BY <1>1, <2>1, <4>1 DEF OpenPage, TabRecs, TabPcs
      <4>2. CASE FetchRead(t)
        BY <1>1, <2>1, <4>2 DEF FetchRead, TabRecs, TabPcs
      <4>3. CASE FetchFails(t)
        BY <1>1, <1>3, <4>3 DEF FetchFails
      <4>. QED  BY <2>2, <4>1, <4>2, <4>3
    <3>2. UNCHANGED <<saved, last, bootstrapped, poll, queue, lost, servers>>
      BY <2>2 DEF OpenPage, FetchRead, FetchFails
    <3>. QED  BY <1>1, <3>1, <3>2 DEF TypeOK, TabRecs
  <2>3. CASE FetchHandle(t)
    <3>1. tab' \in [Tabs -> TabRecs] /\ tab[t].reply \in SUBSET Items
      BY <1>1, <2>1, <2>3 DEF FetchHandle, Render, TabRecs, TabPcs
    <3>2. lost' \in [Tabs -> SUBSET Causes]
      <4>. DEFINE ts == IF last # tab[t].reply THEN {u \in Tabs : Shows(u)} ELSE {}
      <4>1. lost' = [MarkLost(ts, "seed") EXCEPT ![t] = {}]
        BY <2>3 DEF FetchHandle
      <4>2. MarkLost(ts, "seed") \in [Tabs -> SUBSET Causes]
        BY <1>4 DEF Causes
      <4>. QED  BY <4>1, <4>2
    <3>3. /\ last' = tab[t].reply /\ bootstrapped' = TRUE
          /\ UNCHANGED <<saved, poll, queue, servers>>
      BY <2>3 DEF FetchHandle
    <3>. QED  BY <1>1, <3>1, <3>2, <3>3 DEF TypeOK, TabRecs
  <2>4. CASE OpenStream(t)
    <3>1. tab' \in [Tabs -> TabRecs]
      BY <1>1, <2>1, <2>4 DEF OpenStream, TabRecs, TabPcs
    <3>2. queue' = [queue EXCEPT ![t] = << >>]
          /\ UNCHANGED <<saved, last, bootstrapped, poll, lost, servers>>
      BY <2>4 DEF OpenStream
    <3>. QED  BY <1>1, <1>2, <3>1, <3>2 DEF TypeOK, TabRecs
  <2>5. CASE Deliver(t)
    <3>1. /\ queue[t] \in Seq(Diffs) /\ queue[t] # << >> /\ Len(queue[t]) <= QueueMax
          /\ queue' = [queue EXCEPT ![t] = Tail(queue[t])]
          /\ tab' = [tab EXCEPT ![t].view = Apply(tab[t].view, Head(queue[t]))]
          /\ UNCHANGED <<saved, last, bootstrapped, poll, lost, servers>>
      BY <1>1, <2>5 DEF Deliver
    <3>2. /\ Head(queue[t]) \in Diffs /\ Tail(queue[t]) \in Seq(Diffs)
          /\ Len(Tail(queue[t])) <= QueueMax
      BY <3>1, TailType
    <3>3. Apply(tab[t].view, Head(queue[t])) \in SUBSET Items
      BY <2>1, <3>2, ApplyType DEF TabRecs
    <3>4. tab' \in [Tabs -> TabRecs]
      BY <1>1, <2>1, <3>1, <3>3 DEF TabRecs
    <3>. QED  BY <1>1, <3>1, <3>2, <3>4 DEF TypeOK, TabRecs
  <2>6. CASE Disconnect(t) \/ ClosePage(t)
    <3>1. tab' \in [Tabs -> TabRecs]
      <4>1. CASE Disconnect(t)
        BY <1>1, <2>1, <4>1 DEF Disconnect, TabRecs, TabPcs
      <4>2. CASE ClosePage(t)
        BY <1>1, <1>3, <4>2 DEF ClosePage
      <4>. QED  BY <2>6, <4>1, <4>2
    <3>2. lost' \in [Tabs -> SUBSET Causes]
      BY <1>1, <1>4, <2>6 DEF Disconnect, ClosePage, Causes
    <3>3. /\ queue' = [queue EXCEPT ![t] = << >>]
          /\ UNCHANGED <<saved, last, bootstrapped, poll, servers>>
      BY <2>6 DEF Disconnect, ClosePage
    <3>. QED  BY <1>1, <1>2, <3>1, <3>2, <3>3 DEF TypeOK, TabRecs
  <2>. QED  BY <1>8, <2>2, <2>3, <2>4, <2>5, <2>6 DEF TabStep
<1>9. CASE RestartServer
  <2>1. tab' \in [Tabs -> TabRecs]
    BY <1>1, <1>3, <1>9 DEF RestartServer, TabRecs, TabPcs
  <2>2. lost' \in [Tabs -> SUBSET Causes]
    BY <1>4, <1>9 DEF RestartServer, Causes
  <2>3. /\ servers < MaxServers /\ servers' = servers + 1
        /\ last' = {} /\ bootstrapped' = FALSE /\ poll' = Asleep
        /\ queue' = [u \in Tabs |-> << >>] /\ saved' = saved
    BY <1>9 DEF RestartServer
  <2>4. queue' \in [Tabs -> Seq(Diffs)] /\ \A t \in Tabs : Len(queue'[t]) <= QueueMax
    BY <2>3, EmptyQueues
  <2>5. servers' \in 0..MaxServers
    BY <1>1, <2>3
  <2>. QED  BY <1>1, <1>3, <2>1, <2>2, <2>3, <2>4, <2>5 DEF TypeOK, TabRecs
<1>10. CASE UNCHANGED vars
  BY <1>10 DEF vars, TypeOK
<1>. QED  BY <1>5, <1>6, <1>7, <1>8, <1>9, <1>10 DEF Next, PollStep

\* The types, and with them the queues' limit: no step of the poll task, of a
\* handler or of a page lets a queue grow past QUEUE_MAX.
THEOREM TypeInvariance == Spec => []TypeOK
BY InitTyped, NextTyped, PTL DEF Spec

-----------------------------------------------------------------------------
(* A tab that misses nothing.                                              *)

\* InStep alone is not inductive: a stream is opened on the assumption that
\* nothing was queued before, and the first reply after a restart is taken
\* without a broadcast, on the assumption that no page is in step then.
FeedInv ==
  /\ InStep
  /\ \A t \in Tabs : tab[t].pc # "live" => queue[t] = << >>
  /\ \A t \in Tabs : Shows(t) /\ lost[t] = {} => bootstrapped

\* A step that leaves a tab and its queue alone, and either the graph it is
\* in step with or the fact that it is not.
Kept(t) ==
  /\ tab'[t] = tab[t] /\ queue'[t] = queue[t]
  /\ \/ lost'[t] = lost[t] /\ last' = last
     \/ lost'[t] # {}
     \/ ~Shows(t)

\* What FeedInv says of one tab.
Fed(t) ==
  /\ Shows(t) /\ lost[t] = {} => Drained(t) = last /\ bootstrapped
  /\ tab[t].pc # "live" => queue[t] = << >>

LEMMA FedIsInv == FeedInv <=> \A t \in Tabs : Fed(t)
BY DEF FeedInv, InStep, Fed

LEMMA KeptFed ==
  ASSUME NEW t \in Tabs, Fed(t), Kept(t), bootstrapped => bootstrapped'
  PROVE  Fed(t)'
BY DEF Fed, Kept, Shows, Drained

LEMMA NextFed ==
  ASSUME TypeOK, FeedInv, [Next]_vars
  PROVE  FeedInv'
<1>1. /\ last \in SUBSET Items /\ bootstrapped \in BOOLEAN
      /\ poll.reply \in SUBSET Items
      /\ tab \in [Tabs -> TabRecs]
      /\ queue \in [Tabs -> Seq(Diffs)]
      /\ \A t \in Tabs : Len(queue[t]) <= QueueMax
      /\ lost \in [Tabs -> SUBSET Causes]
  BY DEF TypeOK, TabRecs
<1>2. \A t \in Tabs : Fed(t)
  BY FedIsInv
<1>. SUFFICES \A t \in Tabs : Fed(t)'
  BY DEF FeedInv, InStep, Fed
<1>3. CASE \/ \E batch \in SUBSET Items : Save(batch)
           \/ PollStarts \/ PollRead \/ PollFails \/ UNCHANGED vars
  <2>1. UNCHANGED <<tab, queue, lost, last, bootstrapped>>
    BY <1>3 DEF Save, PollStarts, PollRead, PollFails, vars
  <2>. QED  BY <1>2, <2>1, KeptFed DEF Kept
<1>4. CASE PollHandle
  <2>. DEFINE d == Diff(last, poll.reply)
  <2>1. tab' = tab /\ bootstrapped' = TRUE /\ last' = poll.reply
    BY <1>4 DEF PollHandle
  <2>2. CASE ~bootstrapped \/ poll.reply = last
    <3>1. UNCHANGED <<queue, lost>>
      BY <1>4, <2>2 DEF PollHandle
    <3>2. ASSUME NEW t \in Tabs  PROVE Fed(t)'
      <4>1. CASE Shows(t) /\ lost[t] = {}
        BY <1>2, <2>1, <2>2, <3>1, <4>1, KeptFed DEF Kept, Fed
      <4>2. CASE ~Shows(t) \/ lost[t] # {}
        BY <1>2, <2>1, <3>1, <4>2, KeptFed DEF Kept
      <4>. QED  BY <4>1, <4>2
    <3>. QED  BY <3>2
  <2>3. CASE bootstrapped /\ poll.reply # last
    <3>1. ASSUME NEW t \in Tabs
          PROVE  /\ queue'[t] = IF tab[t].pc = "live" THEN Enqueue(queue[t], d) ELSE queue[t]
                 /\ lost[t] \subseteq lost'[t]
                 /\ tab[t].pc = "loaded" => lost'[t] # {}
                 /\ tab[t].pc = "live" /\ Len(queue[t]) = QueueMax => lost'[t] # {}
      BY <1>4, <2>3 DEF PollHandle
    <3>2. d \in Diffs /\ Apply(last, d) = poll.reply
      BY <1>1, DiffType
    <3>. HIDE DEF d
    <3>3. ASSUME NEW t \in Tabs  PROVE Fed(t)'
      <4>1. CASE tab[t].pc = "live" /\ Len(queue[t]) # QueueMax /\ lost'[t] = {}
        <5>1. queue'[t] = Append(queue[t], d)
          BY <1>1, <3>1, <3>2, <4>1, EnqueueType
        <5>2. Drained(t) = last
          BY <1>2, <3>1, <4>1 DEF Fed, Shows
        <5>3. Drain(tab[t].view, queue'[t]) = poll.reply
          BY <1>1, <3>2, <5>1, <5>2, DrainAppend DEF Drained
        <5>. QED  BY <2>1, <4>1, <5>3 DEF Fed, Drained, Shows
      <4>2. CASE tab[t].pc = "live" /\ (Len(queue[t]) = QueueMax \/ lost'[t] # {})
        BY <2>1, <3>1, <4>2 DEF Fed, Shows
      <4>3. CASE tab[t].pc = "loaded"
        BY <1>2, <2>1, <3>1, <4>3 DEF Fed, Shows
      <4>4. CASE ~Shows(t)
        BY <1>2, <2>1, <3>1, <4>4 DEF Fed, Shows
      <4>. QED  BY <4>1, <4>2, <4>3, <4>4 DEF Shows
    <3>. QED  BY <3>3
  <2>. QED  BY <2>2, <2>3
<1>5. ASSUME NEW u \in Tabs, TabStep(u), NEW t \in Tabs  PROVE Fed(t)'
  <2>1. CASE OpenPage(u) \/ FetchRead(u) \/ FetchFails(u)
    <3>1. /\ UNCHANGED <<queue, lost, last, bootstrapped>>
          /\ t # u => tab'[t] = tab[t]
          /\ t = u => tab[t].pc # "live" /\ tab'[t].pc \in {"fetch", "reply", "closed"}
      <4>1. CASE OpenPage(u)
        BY <1>1, <4>1 DEF OpenPage, TabRecs
      <4>2. CASE FetchRead(u)
        BY <1>1, <4>2 DEF FetchRead, TabRecs
      <4>3. CASE FetchFails(u)
        BY <1>1, <4>3 DEF FetchFails, ClosedTab
      <4>. QED  BY <2>1, <4>1, <4>2, <4>3
    <3>2. CASE t # u
      BY <1>2, <3>1, <3>2, KeptFed DEF Kept
    <3>3. CASE t = u
      BY <1>2, <3>1, <3>3 DEF Fed, Shows
    <3>. QED  BY <3>2, <3>3
  <2>2. CASE FetchHandle(u)
    <3>1. /\ tab[u].pc = "reply" /\ last' = tab[u].reply /\ bootstrapped' = TRUE
          /\ tab' = [tab EXCEPT ![u] = [pc |-> "loaded", view |-> tab[u].reply, reply |-> {}]]
          /\ queue' = queue
      BY <2>2 DEF FetchHandle, Render
    <3>2. CASE t = u
      <4>1. queue[t] = << >>
        BY <1>2, <3>1, <3>2 DEF Fed
      <4>2. tab'[t].pc = "loaded" /\ tab'[t].view = tab[u].reply
        BY <1>1, <3>1, <3>2
      <4>3. Drain(tab'[t].view, queue'[t]) = last'
        BY <3>1, <4>1, <4>2, DrainEmpty
      <4>. QED  BY <3>1, <4>1, <4>2, <4>3 DEF Fed, Drained
    <3>3. CASE t # u
      <4>. DEFINE ts == IF last # tab[u].reply THEN {v \in Tabs : Shows(v)} ELSE {}
      <4>1. lost' = [MarkLost(ts, "seed") EXCEPT ![u] = {}]
        BY <2>2 DEF FetchHandle
      <4>2. lost'[t] = IF t \in ts THEN lost[t] \cup {"seed"} ELSE lost[t]
        BY <3>3, <4>1 DEF MarkLost
      <4>3. tab'[t] = tab[t]
        BY <1>1, <3>1, <3>3
      <4>4. Kept(t)
        BY <3>1, <4>2, <4>3 DEF Kept
      <4>. QED  BY <1>2, <3>1, <4>4, KeptFed
    <3>. QED  BY <3>2, <3>3
  <2>3. CASE OpenStream(u)
    <3>1. /\ tab[u].pc = "loaded" /\ tab' = [tab EXCEPT ![u].pc = "live"]
          /\ queue' = [queue EXCEPT ![u] = << >>]
          /\ UNCHANGED <<lost, last, bootstrapped>>
      BY <2>3 DEF OpenStream
    <3>2. queue[u] = << >>
      BY <1>2, <3>1 DEF Fed
    <3>3. queue'[t] = queue[t] /\ tab'[t].view = tab[t].view
          /\ t # u => tab'[t] = tab[t]
      BY <1>1, <3>1, <3>2 DEF TabRecs
    <3>4. CASE t # u
      BY <1>2, <3>1, <3>3, <3>4, KeptFed DEF Kept
    <3>5. CASE t = u
      BY <1>2, <3>1, <3>2, <3>3, <3>5 DEF Fed, Shows, Drained
    <3>. QED  BY <3>4, <3>5
  <2>4. CASE Deliver(u)
    <3>1. /\ tab[u].pc = "live" /\ queue[u] # << >> /\ queue[u] \in Seq(Diffs)
          /\ tab' = [tab EXCEPT ![u].view = Apply(tab[u].view, Head(queue[u]))]
          /\ queue' = [queue EXCEPT ![u] = Tail(queue[u])]
          /\ UNCHANGED <<lost, last, bootstrapped>>
      BY <1>1, <2>4 DEF Deliver
    <3>2. CASE t # u
      <4>1. tab'[t] = tab[t] /\ queue'[t] = queue[t]
        BY <1>1, <3>1, <3>2
      <4>. QED  BY <1>2, <3>1, <4>1, KeptFed DEF Kept
    <3>3. CASE t = u
      <4>1. /\ tab'[t].pc = "live" /\ tab'[t].view = Apply(tab[t].view, Head(queue[t]))
            /\ queue'[t] = Tail(queue[t])
        BY <1>1, <3>1, <3>3 DEF TabRecs
      <4>2. Drain(tab'[t].view, queue'[t]) = Drain(tab[t].view, queue[t])
        BY <3>1, <3>3, <4>1, DrainHead
      <4>. QED  BY <1>2, <3>1, <3>3, <4>1, <4>2 DEF Fed, Shows, Drained
    <3>. QED  BY <3>2, <3>3
  <2>5. CASE Disconnect(u)
    <3>1. /\ tab[u].pc = "live" /\ tab' = [tab EXCEPT ![u].pc = "loaded"]
          /\ lost' = IF queue[u] = << >> THEN lost ELSE MarkLost({u}, "unregistered")
          /\ queue' = [queue EXCEPT ![u] = << >>]
          /\ UNCHANGED <<last, bootstrapped>>
      BY <2>5 DEF Disconnect
    <3>2. CASE t # u
      <4>1. tab'[t] = tab[t] /\ queue'[t] = queue[t] /\ lost'[t] = lost[t]
        BY <1>1, <3>1, <3>2 DEF MarkLost
      <4>. QED  BY <1>2, <3>1, <4>1, KeptFed DEF Kept
    <3>3. CASE t = u
      <4>1. /\ tab'[t].pc = "loaded" /\ tab'[t].view = tab[t].view /\ queue'[t] = << >>
        BY <1>1, <3>1, <3>3 DEF TabRecs
      <4>2. CASE queue[t] = << >>
        BY <1>2, <3>1, <3>3, <4>1, <4>2 DEF Fed, Shows, Drained
      <4>3. CASE queue[t] # << >>
        <5>1. lost'[t] # {}
          BY <3>1, <3>3, <4>3 DEF MarkLost
        <5>. QED  BY <4>1, <5>1 DEF Fed
      <4>. QED  BY <4>2, <4>3
    <3>. QED  BY <3>2, <3>3
  <2>6. CASE ClosePage(u)
    <3>1. /\ tab' = [tab EXCEPT ![u] = ClosedTab]
          /\ queue' = [queue EXCEPT ![u] = << >>]
          /\ lost' = [lost EXCEPT ![u] = {}]
          /\ UNCHANGED <<last, bootstrapped>>
      BY <2>6 DEF ClosePage
    <3>2. CASE t # u
      <4>1. tab'[t] = tab[t] /\ queue'[t] = queue[t] /\ lost'[t] = lost[t]
        BY <1>1, <3>1, <3>2
      <4>. QED  BY <1>2, <3>1, <4>1, KeptFed DEF Kept
    <3>3. CASE t = u
      <4>1. tab'[t].pc = "closed" /\ queue'[t] = << >>
        BY <1>1, <3>1, <3>3 DEF ClosedTab
      <4>. QED  BY <4>1 DEF Fed, Shows
    <3>. QED  BY <3>2, <3>3
  <2>. QED  BY <1>5, <2>1, <2>2, <2>3, <2>4, <2>5, <2>6 DEF TabStep
<1>6. CASE RestartServer
  <2>1. ASSUME NEW t \in Tabs  PROVE Fed(t)'
    <3>1. queue'[t] = << >>
      BY <1>6 DEF RestartServer
    <3>2. CASE Shows(t)
      <4>1. lost'[t] # {}
        BY <1>6, <3>2 DEF RestartServer, MarkLost
      <4>. QED  BY <3>1, <4>1 DEF Fed
    <3>3. CASE ~Shows(t)
      <4>1. tab'[t].pc = "closed"
        BY <1>6, <3>3 DEF RestartServer, ClosedTab
      <4>. QED  BY <3>1, <4>1 DEF Fed, Shows
    <3>. QED  BY <3>2, <3>3
  <2>. QED  BY <2>1
<1>. QED  BY <1>3, <1>4, <1>5, <1>6 DEF Next, PollStep

LEMMA InitFed == Init => FeedInv
BY DEF Init, FeedInv, InStep, Shows, ClosedTab

LEMMA FeedInvariance == Spec => []FeedInv
BY InitFed, NextFed, TypeInvariance, PTL DEF Spec

\* Through stale polls, full queues, reconnections, restarts and other tabs'
\* loads, a tab that was marked with no loss shows, once its queue is drained,
\* the graph the poll task knows.
THEOREM TabsInStep == Spec => []InStep
BY FeedInvariance, PTL DEF FeedInv
=============================================================================
