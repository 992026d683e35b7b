-------------------------------- MODULE Trim --------------------------------
(***************************************************************************)
(* The trim orchestrator (proxy/trim.py) over its session registry         *)
(* (proxy/session.py): the asyncio thread that rewrites each request, the   *)
(* worker thread that drains the job queue, the registry both share with    *)
(* almost no locking, and the rows the worker commits to the node store.   *)
(*                                                                         *)
(* rewrite() never awaits, so one request at a time is being rewritten;    *)
(* each of its reads of shared state is a step the worker may precede.     *)
(* LLM calls are steps with every outcome their wrappers let through.      *)
(***************************************************************************)
EXTENDS Transcript

CONSTANTS Sessions,
          Scripts,        \* transcripts a session may grow through
          MaxLen,         \* bound on their length
          NodeIds,        \* ids MemoryNode.new_id can still hand out
          NoNode,         \* the value None of a node id
          MinL1Buffer,    \* config.MIN_L1_BUFFER
          MaxL1Buffer,    \* config.MAX_L1_BUFFER
          MaxRestarts     \* bound on daemon restarts

\* With a minimum of 0 the sensor would be asked about an empty buffer.
ASSUME BufferAssumption == MinL1Buffer \in Nat \ {0} /\ MaxL1Buffer \in Nat
ASSUME RestartAssumption == MaxRestarts \in Nat
ASSUME ScriptAssumption ==
  MaxLen \in Nat /\ \A sc \in Scripts : sc \in Seq(Message) /\ Len(sc) <= MaxLen
ASSUME SessionAssumption == Sessions # {}
ASSUME NoNodeAssumption == NoNode \notin NodeIds \cup Sessions

VARIABLES
  script,         \* the transcript each session's conversation follows
  absorbed,       \* SessionState.absorbed_fps
  summaryUser,    \* SessionState.summary_user, as the node it summarises
  summaryAsst,    \* SessionState.summary_asst, as the node it acknowledges
  inFlight,       \* SessionState.compact_in_flight
  sensorQueued,   \* SessionState.sensor_queued
  jobs,           \* TrimOrchestrator.jobs
  req,            \* the request being rewritten
  wrk,            \* the worker thread
  owner,          \* nodes table: the session of each saved node
  raw,            \* raw_turns table: what is saved of each turn with each node
  restarts        \* number of daemon restarts so far

flags == <<inFlight, sensorQueued>>
pair == <<summaryUser, summaryAsst>>
registry == <<absorbed, pair, flags>>
store == <<owner, raw>>
vars == <<script, registry, jobs, req, wrk, store, restarts>>

-----------------------------------------------------------------------------
ReqPcs == {"idle", "scan", "inFlight", "queued", "mark", "put", "pair",
           "keep", "inject", "sent"}
WrkPcs == {"idle", "pickup", "start", "sense", "compact", "save", "raw",
           "link", "done1", "done2", "done3", "done4", "finally"}

Entries == SUBSET (1..MaxLen)     \* a buffer entry: positions it covers

Jobs == [sid : Sessions, buffer : SUBSET Entries]

Requests == [pc : ReqPcs, sid : Sessions, n : 0..MaxLen, k : 1..(MaxLen + 1),
             unabsorbed : Seq(1..MaxLen), kept : Seq(1..MaxLen),
             summary : NodeIds \cup {NoNode}]

Workers == [pc : WrkPcs, sid : Sessions, buffer : SUBSET Entries,
            node : NodeIds \cup {NoNode}]

TypeOK ==
  /\ script \in [Sessions -> Scripts]
  /\ absorbed \in [Sessions -> SUBSET Fps]
  /\ summaryUser \in [Sessions -> NodeIds \cup {NoNode}]
  /\ summaryAsst \in [Sessions -> NodeIds \cup {NoNode}]
  /\ inFlight \in [Sessions -> BOOLEAN]
  /\ sensorQueued \in [Sessions -> BOOLEAN]
  /\ jobs \in Seq(Jobs)
  /\ req \in Requests
  /\ wrk \in Workers
  /\ owner \in [NodeIds -> Sessions \cup {NoNode}]
  /\ raw \in [NodeIds -> SUBSET ((1..MaxLen) \X Parts)]
  /\ restarts \in 0..MaxRestarts

-----------------------------------------------------------------------------
AnySession == CHOOSE s \in Sessions : TRUE

IdleRequest == [pc |-> "idle", sid |-> AnySession, n |-> 0, k |-> 1,
                unabsorbed |-> <<>>, kept |-> <<>>, summary |-> NoNode]

IdleWorker == [pc |-> "idle", sid |-> AnySession, buffer |-> {},
               node |-> NoNode]

\* The process starts: an empty registry and queue, both threads idle.
FreshProcess(abs, su, sa, inf, sq, js, rq, wk) ==
  /\ abs = [s \in Sessions |-> {}]
  /\ su = [s \in Sessions |-> NoNode]
  /\ sa = [s \in Sessions |-> NoNode]
  /\ inf = [s \in Sessions |-> FALSE]
  /\ sq = [s \in Sessions |-> FALSE]
  /\ js = <<>>
  /\ rq = IdleRequest
  /\ wk = IdleWorker

Init ==
  /\ script \in [Sessions -> Scripts]
  /\ FreshProcess(absorbed, summaryUser, summaryAsst, inFlight, sensorQueued,
                  jobs, req, wrk)
  /\ owner = [x \in NodeIds |-> NoNode]
  /\ raw = [x \in NodeIds |-> {}]
  /\ restarts = 0

\* SessionRegistry._lock is held across the four writes of mark_compact_done.
LockFree == wrk.pc \notin {"done2", "done3", "done4"}

\* The messages array of the request being rewritten.
Msgs == [p \in 1..req.n |-> script[req.sid][p]]

FpAt(k) == Msgs[L1At(Msgs, k)].fp

-----------------------------------------------------------------------------
(* The request path: TrimOrchestrator.rewrite.                             *)

\* A request with the first n messages of a session's transcript; Claude Code
\* sends a transcript that ends with a user message, and may send the same one
\* again (a retry, a sidecar call) or an earlier one (a rewind).
Receive(s, n) ==
  /\ req.pc = "idle"
  /\ LockFree
  /\ script[s][n].role = "user"
  /\ req' = [IdleRequest EXCEPT !.pc = "scan", !.sid = s, !.n = n]
  /\ UNCHANGED <<script, registry, jobs, wrk, store, restarts>>

\* One element of unabsorbed_indices.  The index k of an L1 entry is then used
\* as an index into the messages array.
ScanUnabsorbed ==
  /\ req.pc = "scan"
  /\ req.k <= L1Len(Msgs)
  /\ req' = [req EXCEPT
       !.k = @ + 1,
       !.unabsorbed = IF FpAt(req.k) \in absorbed[req.sid]
                      THEN @ ELSE Append(@, req.k)]
  /\ UNCHANGED <<script, registry, jobs, wrk, store, restarts>>

\* bundled, the view of the unabsorbed messages handed to the sensor.
Bundled == BundleAt(Msgs, req.unabsorbed)

\* The scan is over; len(bundled) >= MIN_L1_BUFFER is local.
EndScan ==
  /\ req.pc = "scan"
  /\ req.k > L1Len(Msgs)
  /\ req' = [req EXCEPT
       !.pc = IF Cardinality(Bundled) >= MinL1Buffer THEN "inFlight" ELSE "pair",
       !.k = 1]
  /\ UNCHANGED <<script, registry, jobs, wrk, store, restarts>>

\* ... and not state.compact_in_flight
ReadInFlight ==
  /\ req.pc = "inFlight"
  /\ req' = [req EXCEPT !.pc = IF inFlight[req.sid] THEN "pair" ELSE "queued"]
  /\ UNCHANGED <<script, registry, jobs, wrk, store, restarts>>

\* Mistake: the sensor_queued test is left out.
ReadQueued_Ignored ==
  /\ req.pc = "queued"
  /\ req' = [req EXCEPT !.pc = "mark"]
  /\ UNCHANGED <<script, registry, jobs, wrk, store, restarts>>

\* ... and not state.sensor_queued
ReadQueued ==
  /\ req.pc = "queued"
  /\ req' = [req EXCEPT !.pc = IF sensorQueued[req.sid] THEN "pair" ELSE "mark"]
  /\ UNCHANGED <<script, registry, jobs, wrk, store, restarts>>

MarkSensorQueued ==
  /\ req.pc = "mark"
  /\ LockFree
  /\ sensorQueued' = [sensorQueued EXCEPT ![req.sid] = TRUE]
  /\ req' = [req EXCEPT !.pc = "put"]
  /\ UNCHANGED <<script, absorbed, pair, inFlight, jobs, wrk, store, restarts>>

PutJob ==
  /\ req.pc = "put"
  /\ jobs' = Append(jobs, [sid |-> req.sid, buffer |-> Bundled])
  /\ req' = [req EXCEPT !.pc = "pair"]
  /\ UNCHANGED <<script, registry, wrk, store, restarts>>

\* Mistake: a session counts as summarised as soon as it has absorbed turns.
ReadPair_ByMask ==
  /\ req.pc = "pair"
  /\ IF absorbed[req.sid] # {}
     THEN req' = [req EXCEPT !.pc = "keep"]
     ELSE req' = [req EXCEPT !.pc = "sent",
                             !.kept = [p \in 1..req.n |-> p]]
  /\ UNCHANGED <<script, registry, jobs, wrk, store, restarts>>

\* if state.summary_user and state.summary_asst; without a pair the messages
\* go out as they came.  Both fields only ever go from None to a value, so one
\* step for the two reads has every outcome of two.
ReadPair ==
  /\ req.pc = "pair"
  /\ IF summaryUser[req.sid] # NoNode /\ summaryAsst[req.sid] # NoNode
     THEN req' = [req EXCEPT !.pc = "keep"]
     ELSE req' = [req EXCEPT !.pc = "sent",
                             !.kept = [p \in 1..req.n |-> p]]
  /\ UNCHANGED <<script, registry, jobs, wrk, store, restarts>>

\* Mistake: the kept index is one too high.
ScanKept_OffByOne ==
  /\ req.pc = "keep"
  /\ req.k <= L1Len(Msgs)
  /\ req' = [req EXCEPT
       !.k = @ + 1,
       !.kept = IF FpAt(req.k) \in absorbed[req.sid]
                THEN @ ELSE Append(@, req.k + 1)]
  /\ UNCHANGED <<script, registry, jobs, wrk, store, restarts>>

\* One element of kept_idx: a second scan of absorbed_fps, later than the first.
ScanKept ==
  /\ req.pc = "keep"
  /\ req.k <= L1Len(Msgs)
  /\ req' = [req EXCEPT
       !.k = @ + 1,
       !.kept = IF FpAt(req.k) \in absorbed[req.sid]
                THEN @ ELSE Append(@, req.k)]
  /\ UNCHANGED <<script, registry, jobs, wrk, store, restarts>>

EndKept ==
  /\ req.pc = "keep"
  /\ req.k > L1Len(Msgs)
  /\ req' = [req EXCEPT !.pc = "inject"]
  /\ UNCHANGED <<script, registry, jobs, wrk, store, restarts>>

\* summary_block is built from state.summary_user as it is now.
InjectPair ==
  /\ req.pc = "inject"
  /\ req' = [req EXCEPT !.pc = "sent", !.summary = summaryUser[req.sid]]
  /\ UNCHANGED <<script, registry, jobs, wrk, store, restarts>>

\* The rewritten body is forwarded and the next request may be rewritten.
Forward ==
  /\ req.pc = "sent"
  /\ req' = IdleRequest
  /\ UNCHANGED <<script, registry, jobs, wrk, store, restarts>>

RequestStep ==
  \/ ScanUnabsorbed \/ EndScan \/ ReadInFlight \/ ReadQueued
  \/ MarkSensorQueued \/ PutJob \/ ReadPair \/ ScanKept \/ EndKept
  \/ InjectPair \/ Forward

-----------------------------------------------------------------------------
(* The worker: run_jobs and _do_sensor_check.                              *)

TakeJob ==
  /\ wrk.pc = "idle"
  /\ jobs # <<>>
  /\ wrk' = [IdleWorker EXCEPT !.pc = "pickup", !.sid = Head(jobs).sid,
                               !.buffer = Head(jobs).buffer]
  /\ jobs' = Tail(jobs)
  /\ UNCHANGED <<script, registry, req, store, restarts>>

\* Mistake: the queue slot is not reopened on pickup.
MarkSensorPickup_Forgets ==
  /\ wrk.pc = "pickup"
  /\ wrk' = IF Cardinality(wrk.buffer) < MinL1Buffer
            THEN IdleWorker ELSE [wrk EXCEPT !.pc = "start"]
  /\ UNCHANGED <<script, registry, jobs, req, store, restarts>>

\* The queue slot reopens before the check runs; a buffer below the minimum is
\* dropped without one.
MarkSensorPickup ==
  /\ wrk.pc = "pickup"
  /\ sensorQueued' = [sensorQueued EXCEPT ![wrk.sid] = FALSE]
  /\ wrk' = IF Cardinality(wrk.buffer) < MinL1Buffer
            THEN IdleWorker ELSE [wrk EXCEPT !.pc = "start"]
  /\ UNCHANGED <<script, absorbed, pair, inFlight, jobs, req, store, restarts>>

MarkCompactStart ==
  /\ wrk.pc = "start"
  /\ inFlight' = [inFlight EXCEPT ![wrk.sid] = TRUE]
  /\ wrk' = [wrk EXCEPT !.pc = "sense"]
  /\ UNCHANGED <<script, absorbed, pair, sensorQueued, jobs, req, store, restarts>>

\* The sensor's verdict: a shift, a high load or a full buffer is a reason to
\* compact; without one the check ends; a reply whose load is no number raises,
\* and only the finally clause runs.
SenseTrips ==
  /\ wrk.pc = "sense"
  /\ wrk' = [wrk EXCEPT !.pc = "compact"]
  /\ UNCHANGED <<script, registry, jobs, req, store, restarts>>

\* Mistake: the buffer_overflow rule is left out.
SenseMaintains_AnySize ==
  /\ wrk.pc = "sense"
  /\ wrk' = [wrk EXCEPT !.pc = "finally"]
  /\ UNCHANGED <<script, registry, jobs, req, store, restarts>>

SenseMaintains ==
  /\ wrk.pc = "sense"
  /\ Cardinality(wrk.buffer) < MaxL1Buffer
  /\ wrk' = [wrk EXCEPT !.pc = "finally"]
  /\ UNCHANGED <<script, registry, jobs, req, store, restarts>>

\* Mistake: the check has no finally clause.
SenseRaises_NoFinally ==
  /\ wrk.pc = "sense"
  /\ wrk' = IdleWorker
  /\ UNCHANGED <<script, registry, jobs, req, store, restarts>>

SenseRaises ==
  /\ wrk.pc = "sense"
  /\ wrk' = [wrk EXCEPT !.pc = "finally"]
  /\ UNCHANGED <<script, registry, jobs, req, store, restarts>>

\* Mistake: the turns are masked before the node is saved.
CompactSucceeds_MasksFirst ==
  /\ wrk.pc = "compact"
  /\ \E x \in NodeIds : /\ owner[x] = NoNode
                        /\ wrk' = [wrk EXCEPT !.pc = "done1", !.node = x]
  /\ UNCHANGED <<script, registry, jobs, req, store, restarts>>

\* The compacter returns a new node, or it returns None or raises.
CompactSucceeds ==
  /\ wrk.pc = "compact"
  /\ \E x \in NodeIds : /\ owner[x] = NoNode
                        /\ wrk' = [wrk EXCEPT !.pc = "save", !.node = x]
  /\ UNCHANGED <<script, registry, jobs, req, store, restarts>>

CompactFails ==
  /\ wrk.pc = "compact"
  /\ wrk' = [wrk EXCEPT !.pc = "finally"]
  /\ UNCHANGED <<script, registry, jobs, req, store, restarts>>

\* save_node commits on its own ...
SaveNode ==
  /\ wrk.pc = "save"
  /\ owner' = [owner EXCEPT ![wrk.node] = wrk.sid]
  /\ wrk' = [wrk EXCEPT !.pc = "raw"]
  /\ UNCHANGED <<script, registry, jobs, req, raw, restarts>>

\* Mistake: only plain turns are stored, tool bundles are not.
SaveRawTurns_PlainOnly ==
  /\ wrk.pc = "raw"
  /\ raw' = [raw EXCEPT
       ![wrk.node] = RawTurns(script[wrk.sid],
                              {e \in wrk.buffer : Cardinality(e) = 1})]
  /\ wrk' = [wrk EXCEPT !.pc = "link"]
  /\ UNCHANGED <<script, registry, jobs, req, owner, restarts>>

\* Mistake: the rows of all nodes are deleted before the new ones are written.
SaveRawTurns_DeletesAll ==
  /\ wrk.pc = "raw"
  /\ raw' = [x \in NodeIds |-> IF x = wrk.node
                               THEN RawTurns(script[wrk.sid], wrk.buffer)
                               ELSE {}]
  /\ wrk' = [wrk EXCEPT !.pc = "link"]
  /\ UNCHANGED <<script, registry, jobs, req, owner, restarts>>

\* ... and so does save_raw_turns, with a row for each entry of the buffer: its
\* raw_content as it was rendered when the job was put.
SaveRawTurns ==
  /\ wrk.pc = "raw"
  /\ raw' = [raw EXCEPT ![wrk.node] = RawTurns(script[wrk.sid], wrk.buffer)]
  /\ wrk' = [wrk EXCEPT !.pc = "link"]
  /\ UNCHANGED <<script, registry, jobs, req, owner, restarts>>

\* Cross-linking and bundle synthesis, which raises on an LLM reply that is
\* JSON of another shape than asked for.
LinkAndSynthesize ==
  /\ wrk.pc = "link"
  /\ wrk' = [wrk EXCEPT !.pc = "done1"]
  /\ UNCHANGED <<script, registry, jobs, req, store, restarts>>

SynthesisRaises ==
  /\ wrk.pc = "link"
  /\ \E e \in wrk.buffer : \E p \in e : IsToolUse(script[wrk.sid][p])
  /\ wrk' = [wrk EXCEPT !.pc = "finally"]
  /\ UNCHANGED <<script, registry, jobs, req, store, restarts>>

\* mark_compact_done: four writes under the registry lock, which the readers
\* of rewrite do not take.
DoneInFlight ==
  /\ wrk.pc = "done1"
  /\ inFlight' = [inFlight EXCEPT ![wrk.sid] = FALSE]
  /\ wrk' = [wrk EXCEPT !.pc = "done2"]
  /\ UNCHANGED <<script, absorbed, pair, sensorQueued, jobs, req, store, restarts>>

DoneAbsorb ==
  /\ wrk.pc = "done2"
  /\ absorbed' = [absorbed EXCEPT
       ![wrk.sid] = @ \cup FpsOf(script[wrk.sid], UNION wrk.buffer)]
  /\ wrk' = [wrk EXCEPT !.pc = "done3"]
  /\ UNCHANGED <<script, pair, flags, jobs, req, store, restarts>>

DoneSummaryUser ==
  /\ wrk.pc = "done3"
  /\ summaryUser' = [summaryUser EXCEPT ![wrk.sid] = wrk.node]
  /\ wrk' = [wrk EXCEPT !.pc = "done4"]
  /\ UNCHANGED <<script, absorbed, summaryAsst, flags, jobs, req, store, restarts>>

DoneSummaryAsst ==
  /\ wrk.pc = "done4"
  /\ summaryAsst' = [summaryAsst EXCEPT ![wrk.sid] = wrk.node]
  /\ wrk' = [wrk EXCEPT !.pc = "finally"]
  /\ UNCHANGED <<script, absorbed, summaryUser, flags, jobs, req, store, restarts>>

\* The finally clause: every way out of the check clears the flag.
Finally ==
  /\ wrk.pc = "finally"
  /\ inFlight' = [inFlight EXCEPT ![wrk.sid] = FALSE]
  /\ wrk' = IdleWorker
  /\ UNCHANGED <<script, absorbed, pair, sensorQueued, jobs, req, store, restarts>>

WorkerStep ==
  \/ TakeJob \/ MarkSensorPickup \/ MarkCompactStart
  \/ SenseTrips \/ SenseMaintains \/ SenseRaises
  \/ CompactSucceeds \/ CompactFails
  \/ SaveNode \/ SaveRawTurns \/ LinkAndSynthesize \/ SynthesisRaises
  \/ DoneInFlight \/ DoneAbsorb \/ DoneSummaryUser \/ DoneSummaryAsst
  \/ Finally

-----------------------------------------------------------------------------
\* The daemon stops at any point, or is killed, and a new one starts: the
\* registry, the queue and both threads are gone, committed rows are not.
Restart ==
  /\ restarts < MaxRestarts
  /\ restarts' = restarts + 1
  /\ FreshProcess(absorbed', summaryUser', summaryAsst', inFlight',
                  sensorQueued', jobs', req', wrk')
  /\ UNCHANGED <<script, store>>

Next ==
  \/ \E s \in Sessions : \E n \in DOMAIN script[s] : Receive(s, n)
  \/ RequestStep
  \/ WorkerStep
  \/ Restart

Spec == Init /\ [][Next]_vars

\* rewrite() runs to its end without awaiting, and every LLM call the worker
\* makes has a timeout, so neither thread stops for good.
Fairness == WF_vars(RequestStep) /\ WF_vars(WorkerStep)

FairSpec == Spec /\ Fairness

-----------------------------------------------------------------------------
(* Safety.                                                                 *)

\* sensor_queued is set exactly while a check of the session is between the
\* request that decided to queue it and the worker that has picked it up: a
\* flag left behind would end compaction of the session for good.
SensorFlagExact ==
  \A s \in Sessions :
    sensorQueued[s] <=>
      \/ req.pc = "put" /\ req.sid = s
      \/ \E i \in DOMAIN jobs : jobs[i].sid = s
      \/ wrk.pc = "pickup" /\ wrk.sid = s

\* A burst of requests leaves at most one check of a session in the queue.
OneCheckPerSession ==
  \A i, j \in DOMAIN jobs : jobs[i].sid = jobs[j].sid => i = j

Compacting(s) ==
  /\ wrk.sid = s
  /\ wrk.pc \in {"sense", "compact", "save", "raw", "link", "done1"}

\* compact_in_flight is set while the worker compacts the session, whichever
\* way the check goes on, and cleared once the worker has left it.
InFlightExact ==
  \A s \in Sessions :
    /\ Compacting(s) => inFlight[s]
    /\ inFlight[s] => Compacting(s) \/ (wrk.pc = "finally" /\ wrk.sid = s)

\* The parts of message p that nodes of the session hold.
Holds(s, p) ==
  {part \in Parts :
     \E x \in NodeIds : owner[x] = s /\ <<p, part>> \in raw[x]}

\* The positions whose messages are stored, as far as the rendering keeps them.
StoredPositions(s) ==
  {p \in DOMAIN script[s] :
     HasText(script[s][p]) /\ Kept(script[s][p]) \subseteq Holds(s, p)}

\* Every fingerprint the proxy masks belongs to a turn whose text, or whose
\* calls and results, nodes of the session hold, so a failed compaction, or a
\* crash half way through one, loses no turn.  The rendering is lossy, and
\* this promises nothing of the text beside a call or a result, nor of what a
\* call's input or a lone result says beyond its cut: see MaskedIsVerbatim.
MaskedIsStored ==
  \A s \in Sessions : absorbed[s] \subseteq FpsOf(script[s], StoredPositions(s))

\* The positions the request being forwarded leaves out.
Dropped == (1..req.n) \ {req.kept[i] : i \in DOMAIN req.kept}

\* A rewritten request leaves out stored turns only, whatever the worker did
\* between the two scans, as long as the transcript has no blank and no
\* repeated message.
OnlyStoredTurnsDropped ==
  req.pc = "sent" /\ Clean(script[req.sid]) =>
    Dropped \subseteq StoredPositions(req.sid)

\* A request that leaves turns out carries the summary of a saved node of its
\* own session.
DropCarriesSummary ==
  req.pc = "sent" /\ Dropped # {} =>
    /\ req.summary # NoNode
    /\ owner[req.summary] = req.sid
    /\ raw[req.summary] # {}

-----------------------------------------------------------------------------
(* Liveness.                                                               *)

\* A session that goes on sending enough unabsorbed turns is sensed again and
\* again: no other session, failure or unlucky interleaving shuts it out.
SensorNeverStarved ==
  \A s \in Sessions :
    []<>(req.pc = "inFlight" /\ req.sid = s) =>
      []<>(wrk.pc = "sense" /\ wrk.sid = s)

\* Once a conversation only moves forward, it does not go on sending a full
\* buffer of unabsorbed turns unless the LLM goes on failing: the request
\* stays bounded.  (A sensor that raises on a smaller buffer is no excuse.)
LLMFails == (SenseRaises /\ ~SenseMaintains) \/ CompactFails \/ SynthesisRaises

SendsFullBuffer(s) ==
  req.pc = "sent" /\ req.sid = s /\ Cardinality(Bundled) >= MaxL1Buffer

BacklogIsCompacted ==
  \A s \in Sessions :
    /\ <>[](req.pc # "idle" => req.n = Len(script[req.sid]))
    /\ []<>SendsFullBuffer(s)
    => []<><<LLMFails>>_vars

-----------------------------------------------------------------------------
(* What the abstract memory sees of this state.                            *)

Memory == INSTANCE TurnMemory WITH
  stored <- [s \in Sessions |-> FpsOf(script[s], StoredPositions(s))],
  masked <- absorbed,
  dropped <- [s \in Sessions |->
                IF req.pc = "sent" /\ req.sid = s
                THEN FpsOf(Msgs, Dropped) ELSE {}]

\* A request goes without a text only if that text is stored (as far as
\* MaskedIsStored says), also on transcripts that repeat a message.
ImplementsMemory == Memory!Spec

-----------------------------------------------------------------------------
(* What the sources say and the code does not do.                          *)

\* trim.py:194 "Keep messages whose fp isn't in absorbed_fps", on transcripts
\* that hold blank messages too.
UnabsorbedIsKept ==
  req.pc = "sent" =>
    \A p \in Dropped : HasText(Msgs[p]) => Msgs[p].fp \in absorbed[req.sid]

\* session.py:17 "messages that are covered by the current summary pair".
AbsorbedIsCoveredByPair ==
  \A s \in Sessions :
    wrk.pc = "idle" /\ summaryUser[s] # NoNode =>
      absorbed[s] \subseteq
        FpsOf(script[s], {x[1] : x \in raw[summaryUser[s]]})

\* trim.py:194 "the tail is a valid continuation": a tool call is kept together
\* with its result or not at all.
ToolCallsAnswered ==
  req.pc = "sent" =>
    \A p \in 1..(req.n - 1) :
      IsToolUse(Msgs[p]) /\ IsToolResult(Msgs[p + 1]) =>
        (p \in Dropped <=> p + 1 \in Dropped)

\* README.md:20 "every compacted node stores the absorbed turns verbatim": all
\* that a masked turn says is held.
MaskedIsVerbatim ==
  \A s \in Sessions : \A f \in absorbed[s] :
    \E p \in DOMAIN script[s] : /\ script[s][p].fp = f
                               /\ Said(script[s][p]) \subseteq Holds(s, p)
=============================================================================
