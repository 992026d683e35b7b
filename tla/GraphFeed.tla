----------------------------- MODULE GraphFeed ------------------------------
(***************************************************************************)
(* The live graph view (web/server.py and the script of                    *)
(* static/index.html): one poll task compares the daemon's node list with  *)
(* the last graph it knows and pushes the difference to every open tab;    *)
(* a tab loads the whole graph once and applies differences from then on.  *)
(*                                                                         *)
(* A graph is a set of items, nodes and edges alike.  What the view shows  *)
(* of a node never changes once it is saved, so no item is ever updated.   *)
(***************************************************************************)
EXTENDS Naturals, Sequences

CONSTANTS Items,         \* nodes and edges the store may come to hold
          Tabs,          \* browser tabs
          QueueMax,      \* _GraphBroadcaster.QUEUE_MAX
          MaxServers     \* bound on restarts of `comet-cc graph`

ASSUME QueueAssumption == QueueMax \in Nat \ {0}
ASSUME ServerAssumption == MaxServers \in Nat

VARIABLES
  saved,          \* the graph in the daemon's store
  last,           \* _last_nodes and _last_edges
  bootstrapped,   \* _bootstrapped
  poll,           \* the poll task: its step and the reply it holds
  tab,            \* each tab: its step, what it shows, its fetch's reply
  queue,          \* the queue registered for each tab
  lost,           \* how a tab has come to miss a difference (history)
  servers         \* restarts of the web server so far

vars == <<saved, last, bootstrapped, poll, tab, queue, lost, servers>>

Causes == {"unregistered", "full", "seed"}

\* fetch, reply: list_all_nodes runs in a thread; loaded: the page shows its
\* graph, no event stream is open; live: the stream is registered.
PollPcs == {"sleep", "fetch", "reply"}
TabPcs == {"closed", "fetch", "reply", "loaded", "live"}

Diffs == [added : SUBSET Items, removed : SUBSET Items]

TypeOK ==
  /\ {saved, last} \subseteq SUBSET Items
  /\ bootstrapped \in BOOLEAN
  /\ poll \in [pc : PollPcs, reply : SUBSET Items]
  /\ tab \in [Tabs -> [pc : TabPcs, view : SUBSET Items, reply : SUBSET Items]]
  /\ queue \in [Tabs -> Seq(Diffs)]
  /\ \A t \in Tabs : Len(queue[t]) <= QueueMax
  /\ lost \in [Tabs -> SUBSET Causes]
  /\ servers \in 0..MaxServers

ClosedTab == [pc |-> "closed", view |-> {}, reply |-> {}]
Asleep == [pc |-> "sleep", reply |-> {}]

Init ==
  /\ saved = {} /\ last = {} /\ bootstrapped = FALSE
  /\ poll = Asleep
  /\ tab = [t \in Tabs |-> ClosedTab]
  /\ queue = [t \in Tabs |-> <<>>]
  /\ lost = [t \in Tabs |-> {}]
  /\ servers = 0

\* A page that has rendered a graph, with or without an event stream.
Shows(t) == tab[t].pc \in {"loaded", "live"}

MarkLost(ts, cause) ==
  [t \in Tabs |-> IF t \in ts THEN lost[t] \cup {cause} ELSE lost[t]]

-----------------------------------------------------------------------------
\* The daemon saves nodes or links: a batch of items appears at once.
Save(batch) ==
  /\ batch # {} /\ batch \cap saved = {}
  /\ saved' = saved \cup batch
  /\ UNCHANGED <<last, bootstrapped, poll, tab, queue, lost, servers>>

-----------------------------------------------------------------------------
(* The poll task.                                                          *)

PollStarts ==
  /\ poll.pc = "sleep"
  /\ poll' = [poll EXCEPT !.pc = "fetch"]
  /\ UNCHANGED <<saved, last, bootstrapped, tab, queue, lost, servers>>

\* The daemon reads its store; the reply reaches the poll task later.
PollRead ==
  /\ poll.pc = "fetch"
  /\ poll' = [pc |-> "reply", reply |-> saved]
  /\ UNCHANGED <<saved, last, bootstrapped, tab, queue, lost, servers>>

\* No answer: back off and sleep.
PollFails ==
  /\ poll.pc = "fetch"
  /\ poll' = Asleep
  /\ UNCHANGED <<saved, last, bootstrapped, tab, queue, lost, servers>>

\* Mistake: items that are gone are left out of the difference.
Diff_AddsOnly(old, new) == [added |-> new \ old, removed |-> {}]

\* _diff
Diff(old, new) == [added |-> new \ old, removed |-> old \ new]

\* Mistake: the queue's limit is not enforced.
Enqueue_Unbounded(q, d) == Append(q, d)

\* put_nowait; a full queue drops the difference.
Enqueue(q, d) == IF Len(q) < QueueMax THEN Append(q, d) ELSE q

\* The first reply ever is taken as it is; a later one that differs is
\* remembered and its difference broadcast, in one step of the event loop.
PollHandle ==
  /\ poll.pc = "reply"
  /\ poll' = Asleep
  /\ bootstrapped' = TRUE
  /\ last' = poll.reply
  /\ LET d == Diff(last, poll.reply)
         live == {t \in Tabs : tab[t].pc = "live"}
         full == {t \in live : Len(queue[t]) = QueueMax}
     IN IF ~bootstrapped \/ poll.reply = last
        THEN UNCHANGED <<queue, lost>>
        ELSE /\ queue' = [t \in Tabs |-> IF t \in live THEN Enqueue(queue[t], d)
                                         ELSE queue[t]]
             /\ lost' = [t \in Tabs |->
                  lost[t] \cup (IF t \in full THEN {"full"} ELSE {})
                          \cup (IF tab[t].pc = "loaded" THEN {"unregistered"} ELSE {})]
  /\ UNCHANGED <<saved, tab, servers>>

-----------------------------------------------------------------------------
(* A tab, and the handlers that serve it.                                  *)

OpenPage(t) ==
  /\ tab[t].pc = "closed"
  /\ tab' = [tab EXCEPT ![t].pc = "fetch"]
  /\ UNCHANGED <<saved, last, bootstrapped, poll, queue, lost, servers>>

\* _api_graph asks the daemon in a thread ...
FetchRead(t) ==
  /\ tab[t].pc = "fetch"
  /\ tab' = [tab EXCEPT ![t].pc = "reply", ![t].reply = saved]
  /\ UNCHANGED <<saved, last, bootstrapped, poll, queue, lost, servers>>

FetchFails(t) ==
  /\ tab[t].pc = "fetch"
  /\ tab' = [tab EXCEPT ![t] = ClosedTab]
  /\ UNCHANGED <<saved, last, bootstrapped, poll, queue, lost, servers>>

Render(t) ==
  tab' = [tab EXCEPT ![t] = [pc |-> "loaded", view |-> tab[t].reply, reply |-> {}]]

\* Mistake: the page's graph is not made the poll task's last one.
FetchHandle_NoSeed(t) ==
  /\ tab[t].pc = "reply"
  /\ Render(t)
  /\ lost' = [lost EXCEPT ![t] = {}]
  /\ UNCHANGED <<saved, last, bootstrapped, poll, queue, servers>>

\* ... and makes the reply the last graph, for all tabs: seed_state.  A tab
\* that already shows a graph never hears of the difference.
FetchHandle(t) ==
  /\ tab[t].pc = "reply"
  /\ last' = tab[t].reply
  /\ bootstrapped' = TRUE
  /\ Render(t)
  /\ lost' = [MarkLost(IF last # tab[t].reply THEN {u \in Tabs : Shows(u)} ELSE {},
                       "seed") EXCEPT ![t] = {}]
  /\ UNCHANGED <<saved, poll, queue, servers>>

\* The page opens its EventSource: _api_events registers an empty queue.
OpenStream(t) ==
  /\ tab[t].pc = "loaded"
  /\ tab' = [tab EXCEPT ![t].pc = "live"]
  /\ queue' = [queue EXCEPT ![t] = <<>>]
  /\ UNCHANGED <<saved, last, bootstrapped, poll, lost, servers>>

\* onmessage: upsert what is added, remove what is removed.
Apply(view, d) == (view \cup d.added) \ d.removed

Deliver(t) ==
  /\ tab[t].pc = "live"
  /\ queue[t] # <<>>
  /\ tab' = [tab EXCEPT ![t].view = Apply(@, Head(queue[t]))]
  /\ queue' = [queue EXCEPT ![t] = Tail(@)]
  /\ UNCHANGED <<saved, last, bootstrapped, poll, lost, servers>>

\* onerror: the stream is closed, and opened again later; the graph is not
\* fetched again, and what was queued is lost.
Disconnect(t) ==
  /\ tab[t].pc = "live"
  /\ tab' = [tab EXCEPT ![t].pc = "loaded"]
  /\ lost' = IF queue[t] = <<>> THEN lost ELSE MarkLost({t}, "unregistered")
  /\ queue' = [queue EXCEPT ![t] = <<>>]
  /\ UNCHANGED <<saved, last, bootstrapped, poll, servers>>

\* The tab is closed, or about to be reloaded.
ClosePage(t) ==
  /\ Shows(t)
  /\ tab' = [tab EXCEPT ![t] = ClosedTab]
  /\ queue' = [queue EXCEPT ![t] = <<>>]
  /\ lost' = [lost EXCEPT ![t] = {}]
  /\ UNCHANGED <<saved, last, bootstrapped, poll, servers>>

\* `comet-cc graph` is stopped and started: pages stay open in the browser and
\* open their stream again; requests under way fail.
RestartServer ==
  /\ servers < MaxServers
  /\ servers' = servers + 1
  /\ last' = {} /\ bootstrapped' = FALSE
  /\ poll' = Asleep
  /\ tab' = [t \in Tabs |-> IF Shows(t) THEN [tab[t] EXCEPT !.pc = "loaded"]
                            ELSE ClosedTab]
  /\ queue' = [t \in Tabs |-> <<>>]
  /\ lost' = MarkLost({t \in Tabs : Shows(t)}, "unregistered")
  /\ UNCHANGED saved

PollStep == PollStarts \/ PollRead \/ PollHandle

TabStep(t) ==
  \/ OpenPage(t) \/ FetchRead(t) \/ FetchFails(t) \/ FetchHandle(t)
  \/ OpenStream(t) \/ Deliver(t) \/ Disconnect(t) \/ ClosePage(t)

Next ==
  \/ \E batch \in SUBSET Items : Save(batch)
  \/ PollStep \/ PollFails
  \/ \E t \in Tabs : TabStep(t)
  \/ RestartServer

Spec == Init /\ [][Next]_vars

\* The poll task runs for ever and an open stream is written to.
FairSpec ==
  Spec /\ WF_vars(PollStep) /\ \A t \in Tabs : WF_vars(Deliver(t))

-----------------------------------------------------------------------------
\* A view once the differences of q are applied to it in order: an item shows
\* if the view (at 0) or a difference brings it, and none from there on, that
\* difference included, takes it away.
Brings(view, q, i) == IF i = 0 THEN view ELSE q[i].added

Drain(view, q) ==
  UNION {Brings(view, q, i) \ UNION {q[j].removed : j \in {k \in DOMAIN q : i <= k}}
           : i \in {0} \cup DOMAIN q}

\* What a tab will show once its queue is drained.
Drained(t) == Drain(tab[t].view, queue[t])

\* A tab that missed no difference is exactly one drained queue behind the
\* poll task, through stale polls, reconnections and other tabs' loads: a
\* difference can be missed in the three recorded ways only.
InStep == \A t \in Tabs : Shows(t) /\ lost[t] = {} => Drained(t) = last

\* While the daemon answers, a live tab that misses nothing comes to show
\* every node that is saved.
ViewCatchesUp ==
  []<><<PollRead>>_vars =>
    \A t \in Tabs : tab[t].pc = "live" /\ lost[t] = {} ~>
                      \/ tab[t].view = saved
                      \/ tab[t].pc # "live" \/ lost[t] # {}
=============================================================================
