----------------------------- MODULE HookWorker -----------------------------
(***************************************************************************)
(* The two compaction workers of one daemon (daemon.py): the hook-era      *)
(* worker, which reads Claude Code's transcript file when the Stop hook    *)
(* asks for it, and the trim worker, of which Trim.tla has the detail.     *)
(* They share the session brief, the store lock and the queue_depth RPC    *)
(* that reports on both.                                                   *)
(*                                                                         *)
(* A brief is abstracted to the nodes whose minutes it holds: an LLM that  *)
(* is given a brief returns it with the minutes of its own node added.     *)
(***************************************************************************)
EXTENDS Transcript

CONSTANTS Sessions,
          Script,         \* the transcript file each session grows
          MaxLen,         \* bound on its length
          NodeIds,        \* ids MemoryNode.new_id can still hand out
          None,           \* no node, no session
          MinL1Buffer,    \* config.MIN_L1_BUFFER
          MaxL1Buffer,    \* config.MAX_L1_BUFFER
          MaxQueue,       \* bound on the jobs waiting in each queue
          MaxRestarts     \* bound on daemon restarts

ASSUME ScriptAssumption ==
  MaxLen \in Nat /\ Script \in [Sessions -> Seq(Message)]
  /\ \A s \in Sessions : Len(Script[s]) <= MaxLen
ASSUME BufferAssumption == MinL1Buffer \in Nat /\ MaxL1Buffer \in Nat
ASSUME BoundAssumption == MaxQueue \in Nat /\ MaxRestarts \in Nat
ASSUME SessionAssumption == Sessions # {}
ASSUME NoneAssumption == None \notin NodeIds \cup Sessions

VARIABLES
  len,        \* how much of its transcript each session has written
  queue,      \* Daemon.compact_queue
  consumed,   \* Daemon._consumed_fp: a fingerprint is the entries of its node
  busy,       \* Daemon._worker_busy
  wrk,        \* the hook-era worker
  asking,     \* the session whose request has a check yet to put, or None
  trimJobs,   \* TrimOrchestrator.jobs
  trimQueued, \* sensor_queued of each session
  trimFlight, \* compact_in_flight of each session
  trm,        \* the trim worker
  brief,      \* session_briefs table
  saved,      \* nodes table, with what each node stands for
  poll,       \* one queue_depth call
  restarts

hook == <<queue, consumed, busy, wrk>>
trim == <<asking, trimJobs, trimQueued, trimFlight, trm>>
store == <<brief, saved>>
vars == <<len, hook, trim, store, poll, restarts>>

-----------------------------------------------------------------------------
Entries == SUBSET (1..MaxLen)     \* a logical node: positions it groups

HookPcs == {"idle", "got", "read", "sense", "brief", "compact", "save",
            "minutes", "mark", "finally"}
TrimPcs == {"idle", "pickup", "start", "sense", "brief", "compact", "save",
            "minutes", "done", "lowered", "finally"}
PollPcs == {"idle", "flight", "queued", "queue", "busy", "done"}

NodeIdsOrNone == NodeIds \cup {None}

\* by: the worker that saved the node; epoch: the process it ran in; holds:
\* the logical nodes it summarises; minutes: the brief it wrote, if it did.
SavedNodes == [sid : Sessions \cup {None}, by : {"none", "hook", "trim"},
               epoch : 0..MaxRestarts, holds : SUBSET Entries,
               minutes : SUBSET NodeIds]

\* A queue_depth call: left are the sessions whose flags are yet to be read,
\* sid is the one being read.  early, hookGap and trimGap are history: what
\* the readings that came out zero have overlooked.
Polls == [pc : PollPcs, left : SUBSET Sessions, sid : Sessions,
          early : BOOLEAN, hookGap : BOOLEAN, trimGap : BOOLEAN]

TypeOK ==
  /\ len \in [Sessions -> 0..MaxLen]
  /\ queue \in Seq(Sessions) /\ Len(queue) <= MaxQueue
  /\ consumed \in [Sessions -> SUBSET Entries]
  /\ busy \in BOOLEAN
  /\ wrk \in [pc : HookPcs, sid : Sessions, buffer : SUBSET Entries,
              base : SUBSET NodeIds, node : NodeIdsOrNone]
  /\ busy <=> wrk.pc \notin {"idle", "got"}
  /\ wrk.pc \in {"save", "minutes", "mark"} => wrk.node # None
  /\ asking \in Sessions \cup {None}
  /\ trimJobs \in Seq(Sessions)
  /\ {trimQueued, trimFlight} \subseteq [Sessions -> BOOLEAN]
  /\ trm \in [pc : TrimPcs, sid : Sessions, base : SUBSET NodeIds,
              node : NodeIdsOrNone]
  /\ brief \in [Sessions -> SUBSET NodeIds]
  /\ saved \in [NodeIds -> SavedNodes]
  /\ poll \in Polls
  /\ restarts \in 0..MaxRestarts

AnySession == CHOOSE s \in Sessions : TRUE

IdleWorker == [pc |-> "idle", sid |-> AnySession, buffer |-> {}, base |-> {},
               node |-> None]
IdleTrim == [pc |-> "idle", sid |-> AnySession, base |-> {}, node |-> None]
IdlePoll == [pc |-> "idle", left |-> {}, sid |-> AnySession, early |-> FALSE,
             hookGap |-> FALSE, trimGap |-> FALSE]
Unsaved == [sid |-> None, by |-> "none", epoch |-> 0, holds |-> {},
            minutes |-> {}]

\* Daemon.__init__: nothing queued, consumed or under way.
Init ==
  /\ len = [s \in Sessions |-> 0]
  /\ queue = <<>> /\ busy = FALSE /\ wrk = IdleWorker
  /\ consumed = [s \in Sessions |-> {}]
  /\ asking = None /\ trimJobs = <<>> /\ trm = IdleTrim
  /\ trimQueued = [s \in Sessions |-> FALSE]
  /\ trimFlight = [s \in Sessions |-> FALSE]
  /\ brief = [s \in Sessions |-> {}]
  /\ saved = [x \in NodeIds |-> Unsaved]
  /\ poll = IdlePoll
  /\ restarts = 0

\* Every access to the store holds Daemon._store_lock; a node and the brief
\* that goes with it are written under one hold of it.
StoreFree == wrk.pc # "minutes" /\ trm.pc # "minutes"

\* Ids no node has and neither worker has taken.  They are interchangeable,
\* so MemoryNode.new_id may be taken to hand them out in a fixed order.
FreshNodes == {x \in NodeIds : saved[x].sid = None /\ x \notin {wrk.node, trm.node}}

\* Mistake: the same id again and again.
NewId_Same == CHOOSE x \in NodeIds : TRUE

NewId == CHOOSE x \in FreshNodes : TRUE

-----------------------------------------------------------------------------
(* Claude Code and the Stop hook.                                          *)

\* Claude Code appends to the transcript file.
Grow(s) ==
  /\ len[s] < Len(Script[s])
  /\ len' = [len EXCEPT ![s] = @ + 1]
  /\ UNCHANGED <<hook, trim, store, poll, restarts>>

\* _m_queue_compact
QueueCompact(s) ==
  /\ Len(queue) < MaxQueue
  /\ queue' = Append(queue, s)
  /\ poll' = IdlePoll
  /\ UNCHANGED <<len, consumed, busy, wrk, trim, store, restarts>>

\* rewrite decides on a sensor check: it has read compact_in_flight, which may
\* have gone up since, and sensor_queued, which only rewrite sets ...
MarkCheck(s) ==
  /\ asking = None /\ ~trimQueued[s]
  /\ trimQueued' = [trimQueued EXCEPT ![s] = TRUE]
  /\ asking' = s
  /\ poll' = IdlePoll
  /\ UNCHANGED <<len, hook, trimJobs, trimFlight, trm, store, restarts>>

\* ... and puts the job.
PutCheck ==
  /\ asking # None /\ Len(trimJobs) < MaxQueue
  /\ trimJobs' = Append(trimJobs, asking)
  /\ asking' = None
  /\ UNCHANGED <<len, hook, trimQueued, trimFlight, trm, store, poll, restarts>>

-----------------------------------------------------------------------------
(* The hook-era worker: _compact_loop and _do_compact.                     *)

HookGo(pc) == wrk' = [wrk EXCEPT !.pc = pc]

TakeJob ==
  /\ wrk.pc = "idle" /\ queue # <<>>
  /\ wrk' = [IdleWorker EXCEPT !.pc = "got", !.sid = Head(queue)]
  /\ queue' = Tail(queue)
  /\ UNCHANGED <<len, consumed, busy, trim, store, poll, restarts>>

\* Mistake: the worker never says that it is busy.
MarkBusy_Skipped ==
  /\ wrk.pc = "got"
  /\ HookGo("read")
  /\ UNCHANGED <<len, queue, consumed, busy, trim, store, poll, restarts>>

\* The job has left the queue before the worker says that it is busy.
MarkBusy ==
  /\ wrk.pc = "got"
  /\ busy' = TRUE
  /\ HookGo("read")
  /\ UNCHANGED <<len, queue, consumed, trim, store, poll, restarts>>

\* The file is parsed as it is now, not as it was when the job was queued,
\* and the nodes already consumed are left out; no other thread writes
\* _consumed_fp, so the copy made of it under its lock is exact.
ReadTranscript ==
  LET now == SubSeq(Script[wrk.sid], 1, len[wrk.sid])
      new == Parse(now) \ consumed[wrk.sid]
  IN  /\ wrk.pc = "read"
      /\ wrk' = [wrk EXCEPT !.buffer = new,
                            !.pc = IF new = {} THEN "finally" ELSE "sense"]
      /\ UNCHANGED <<len, queue, consumed, busy, trim, store, poll, restarts>>

\* The sensor's verdict, as in Trim, but a short buffer is sensed too.
SenseTrips ==
  /\ wrk.pc = "sense"
  /\ Cardinality(wrk.buffer) >= MinL1Buffer
  /\ HookGo("brief")
  /\ UNCHANGED <<len, queue, consumed, busy, trim, store, poll, restarts>>

\* Mistake: the buffer_overflow rule is left out.
SenseMaintains_AnySize ==
  /\ wrk.pc = "sense"
  /\ HookGo("finally")
  /\ UNCHANGED <<len, queue, consumed, busy, trim, store, poll, restarts>>

SenseMaintains ==
  /\ wrk.pc = "sense"
  /\ \/ Cardinality(wrk.buffer) < MaxL1Buffer
     \/ Cardinality(wrk.buffer) < MinL1Buffer
  /\ HookGo("finally")
  /\ UNCHANGED <<len, queue, consumed, busy, trim, store, poll, restarts>>

SenseRaises ==
  /\ wrk.pc = "sense"
  /\ HookGo("finally")
  /\ UNCHANGED <<len, queue, consumed, busy, trim, store, poll, restarts>>

ReadBrief ==
  /\ wrk.pc = "brief" /\ StoreFree
  /\ wrk' = [wrk EXCEPT !.pc = "compact", !.base = brief[wrk.sid]]
  /\ UNCHANGED <<len, queue, consumed, busy, trim, store, poll, restarts>>

CompactSucceeds ==
  /\ wrk.pc = "compact"
  /\ FreshNodes # {}
  /\ wrk' = [wrk EXCEPT !.pc = "save", !.node = NewId]
  /\ UNCHANGED <<len, queue, consumed, busy, trim, store, poll, restarts>>

CompactFails ==
  /\ wrk.pc = "compact"
  /\ HookGo("finally")
  /\ UNCHANGED <<len, queue, consumed, busy, trim, store, poll, restarts>>

\* save_node; the worker stores no raw turns.
SaveNode ==
  /\ wrk.pc = "save" /\ StoreFree
  /\ saved' = [saved EXCEPT
       ![wrk.node] = [sid |-> wrk.sid, by |-> "hook", epoch |-> restarts,
                      holds |-> wrk.buffer, minutes |-> {}]]
  /\ HookGo("minutes")
  /\ UNCHANGED <<len, queue, consumed, busy, trim, brief, poll, restarts>>

Minutes(w) == w.base \cup {w.node}

\* The brief the LLM wrote replaces the row, whatever it holds by now.
WriteMinutes(w) ==
  /\ brief' = [brief EXCEPT ![w.sid] = Minutes(w)]
  /\ saved' = [saved EXCEPT ![w.node].minutes = Minutes(w)]

\* Mistake: the brief is replaced by the minutes of the new node alone.
SaveBrief_Replaces ==
  /\ wrk.pc = "minutes"
  /\ \/ /\ brief' = [brief EXCEPT ![wrk.sid] = {wrk.node}]
        /\ saved' = [saved EXCEPT ![wrk.node].minutes = {wrk.node}]
     \/ UNCHANGED store
  /\ HookGo("mark")
  /\ UNCHANGED <<len, queue, consumed, busy, trim, poll, restarts>>

\* An empty brief is not written.
SaveBrief ==
  /\ wrk.pc = "minutes"
  /\ WriteMinutes(wrk) \/ UNCHANGED store
  /\ HookGo("mark")
  /\ UNCHANGED <<len, queue, consumed, busy, trim, poll, restarts>>

\* Mistake: only the last logical node is marked.
MarkConsumed_LastOnly ==
  /\ wrk.pc = "mark"
  /\ \E e \in wrk.buffer :
       /\ \A f \in wrk.buffer : \A p \in f : \E q \in e : p <= q
       /\ consumed' = [consumed EXCEPT ![wrk.sid] = @ \cup {e}]
  /\ HookGo("finally")
  /\ UNCHANGED <<len, queue, busy, trim, store, poll, restarts>>

\* Mistake: what the file holds by now is marked, not what was read.
MarkConsumed_Reread ==
  /\ wrk.pc = "mark"
  /\ consumed' = [consumed EXCEPT
       ![wrk.sid] = @ \cup Parse(SubSeq(Script[wrk.sid], 1, len[wrk.sid]))]
  /\ HookGo("finally")
  /\ UNCHANGED <<len, queue, busy, trim, store, poll, restarts>>

\* Only now will the next pass skip these nodes: a crash before leaves them to
\* be summarised again.
MarkConsumed ==
  /\ wrk.pc = "mark"
  /\ consumed' = [consumed EXCEPT ![wrk.sid] = @ \cup wrk.buffer]
  /\ HookGo("finally")
  /\ UNCHANGED <<len, queue, busy, trim, store, poll, restarts>>

Finally ==
  /\ wrk.pc = "finally"
  /\ busy' = FALSE
  /\ wrk' = IdleWorker
  /\ UNCHANGED <<len, queue, consumed, trim, store, poll, restarts>>

HookStep ==
  \/ TakeJob \/ MarkBusy \/ ReadTranscript
  \/ SenseTrips \/ SenseMaintains \/ SenseRaises
  \/ ReadBrief \/ CompactSucceeds \/ CompactFails
  \/ SaveNode \/ SaveBrief \/ MarkConsumed \/ Finally

-----------------------------------------------------------------------------
(* The trim worker, as the brief and queue_depth see it: run_jobs and      *)
(* _do_sensor_check.                                                       *)

TrimGo(pc) == trm' = [trm EXCEPT !.pc = pc]

TrimTake ==
  /\ trm.pc = "idle" /\ trimJobs # <<>>
  /\ trm' = [IdleTrim EXCEPT !.pc = "pickup", !.sid = Head(trimJobs)]
  /\ trimJobs' = Tail(trimJobs)
  /\ UNCHANGED <<len, hook, asking, trimQueued, trimFlight, store, poll,
                 restarts>>

\* mark_sensor_pickup; a short buffer ends the check here.
TrimPickup ==
  /\ trm.pc = "pickup"
  /\ trimQueued' = [trimQueued EXCEPT ![trm.sid] = FALSE]
  /\ trm' = IdleTrim \/ TrimGo("start")
  /\ UNCHANGED <<len, hook, asking, trimJobs, trimFlight, store, poll,
                 restarts>>

TrimStart ==
  /\ trm.pc = "start"
  /\ trimFlight' = [trimFlight EXCEPT ![trm.sid] = TRUE]
  /\ TrimGo("sense")
  /\ UNCHANGED <<len, hook, asking, trimJobs, trimQueued, store, poll,
                 restarts>>

TrimSense ==
  /\ trm.pc = "sense"
  /\ TrimGo("brief") \/ TrimGo("finally")
  /\ UNCHANGED <<len, hook, asking, trimJobs, trimQueued, trimFlight, store,
                 poll, restarts>>

TrimReadBrief ==
  /\ trm.pc = "brief" /\ StoreFree
  /\ trm' = [trm EXCEPT !.pc = "compact", !.base = brief[trm.sid]]
  /\ UNCHANGED <<len, hook, asking, trimJobs, trimQueued, trimFlight, store,
                 poll, restarts>>

TrimCompact ==
  /\ trm.pc = "compact"
  /\ \/ /\ FreshNodes # {}
        /\ trm' = [trm EXCEPT !.pc = "save", !.node = NewId]
     \/ TrimGo("finally")
  /\ UNCHANGED <<len, hook, asking, trimJobs, trimQueued, trimFlight, store,
                 poll, restarts>>

TrimSave ==
  /\ trm.pc = "save" /\ StoreFree
  /\ saved' = [saved EXCEPT
       ![trm.node] = [Unsaved EXCEPT !.sid = trm.sid, !.by = "trim",
                                     !.epoch = restarts]]
  /\ TrimGo("minutes")
  /\ UNCHANGED <<len, hook, asking, trimJobs, trimQueued, trimFlight, brief,
                 poll, restarts>>

\* Then mark_compact_done, unless the synthesis of a bundle raises.
TrimSaveBrief ==
  /\ trm.pc = "minutes"
  /\ WriteMinutes(trm) \/ UNCHANGED store
  /\ TrimGo("done") \/ TrimGo("finally")
  /\ UNCHANGED <<len, hook, asking, trimJobs, trimQueued, trimFlight, poll,
                 restarts>>

LowerFlight == trimFlight' = [trimFlight EXCEPT ![trm.sid] = FALSE]

\* The first write of mark_compact_done lowers the flag; what the compaction
\* is for, the mask and the summary pair, is written after it.
TrimDone ==
  /\ trm.pc = "done"
  /\ LowerFlight
  /\ TrimGo("lowered")
  /\ UNCHANGED <<len, hook, asking, trimJobs, trimQueued, store, poll,
                 restarts>>

\* The finally clause.
TrimFinally ==
  /\ trm.pc \in {"lowered", "finally"}
  /\ LowerFlight
  /\ trm' = IdleTrim
  /\ UNCHANGED <<len, hook, asking, trimJobs, trimQueued, store, poll,
                 restarts>>

TrimStep ==
  \/ TrimTake \/ TrimPickup \/ TrimStart \/ TrimSense \/ TrimReadBrief
  \/ TrimCompact \/ TrimSave \/ TrimSaveBrief \/ TrimDone \/ TrimFinally

-----------------------------------------------------------------------------
(* _m_queue_depth: readings one after the other, without a lock.  One that  *)
(* is not zero settles the answer, so the call is followed no further; nor  *)
(* is it once something new was asked, which makes any answer right.        *)

GiveUp == poll' = IdlePoll

\* trim.jobs.qsize()
PollTrimQueue ==
  /\ poll.pc = "idle" /\ trimJobs = <<>>
  /\ poll' = [IdlePoll EXCEPT !.pc = "flight", !.left = Sessions]
  /\ UNCHANGED <<len, hook, trim, store, restarts>>

\* The trim worker has yet to raise the flag for a check of session s that was
\* asked for, or it has lowered the flag and is not through.
FlagDownAtWork(s) ==
  trimQueued[s] \/ (trm.sid = s /\ trm.pc \in {"start", "lowered"})

\* s.compact_in_flight, for the sessions of the registry in some order ...
PollFlight ==
  /\ poll.pc = "flight"
  /\ \E s \in poll.left :
       IF trimFlight[s] THEN GiveUp
       ELSE poll' = [poll EXCEPT !.pc = "queued", !.left = @ \ {s}, !.sid = s,
                                 !.early = FlagDownAtWork(s)]
  /\ UNCHANGED <<len, hook, trim, store, restarts>>

ReadOn ==
  poll' = [poll EXCEPT
    !.pc = IF poll.left = {} THEN "queue" ELSE "flight",
    !.trimGap = @ \/ (poll.early /\ ~trimQueued[poll.sid])]

\* Mistake: sensor_queued is not looked at.
PollQueued_Ignored ==
  /\ poll.pc = "queued"
  /\ ReadOn
  /\ UNCHANGED <<len, hook, trim, store, restarts>>

\* ... or s.sensor_queued, read after it.
PollQueued ==
  /\ poll.pc = "queued"
  /\ IF trimQueued[poll.sid] THEN GiveUp ELSE ReadOn
  /\ UNCHANGED <<len, hook, trim, store, restarts>>

\* self.compact_queue.qsize()
PollQueue ==
  /\ poll.pc = "queue"
  /\ IF queue # <<>> THEN GiveUp ELSE poll' = [poll EXCEPT !.pc = "busy"]
  /\ UNCHANGED <<len, hook, trim, store, restarts>>

\* _active_job_count()
PollBusy ==
  /\ poll.pc = "busy"
  /\ IF busy THEN GiveUp
     ELSE poll' = [poll EXCEPT !.pc = "done", !.hookGap = wrk.pc = "got"]
  /\ UNCHANGED <<len, hook, trim, store, restarts>>

\* The answer is sent and the caller may ask again.
PollAnswer ==
  /\ poll.pc = "done"
  /\ poll' = IdlePoll
  /\ UNCHANGED <<len, hook, trim, store, restarts>>

PollStep ==
  \/ PollTrimQueue \/ PollFlight \/ PollQueued \/ PollQueue \/ PollBusy
  \/ PollAnswer

-----------------------------------------------------------------------------
\* A new process: the store and the transcript files are what is left.
Restart ==
  /\ restarts < MaxRestarts
  /\ restarts' = restarts + 1
  /\ queue' = <<>> /\ busy' = FALSE /\ wrk' = IdleWorker
  /\ consumed' = [s \in Sessions |-> {}]
  /\ asking' = None /\ trimJobs' = <<>> /\ trm' = IdleTrim
  /\ trimQueued' = [s \in Sessions |-> FALSE]
  /\ trimFlight' = [s \in Sessions |-> FALSE]
  /\ poll' = IdlePoll
  /\ UNCHANGED <<len, store>>

Next ==
  \/ \E s \in Sessions : Grow(s) \/ QueueCompact(s) \/ MarkCheck(s)
  \/ PutCheck
  \/ HookStep
  \/ TrimStep
  \/ PollStep
  \/ Restart

Spec == Init /\ [][Next]_vars

\* Every LLM call the workers make has a timeout, so neither stops for good.
Fairness == WF_vars(HookStep) /\ WF_vars(TrimStep)

FairSpec == Spec /\ Fairness

-----------------------------------------------------------------------------
HookNodes(s) == {x \in NodeIds : saved[x].sid = s /\ saved[x].by = "hook"}

Summarised(s) == UNION {saved[x].holds : x \in HookNodes(s)}

\* A turn the worker will not look at again is summarised by a saved node of
\* its session, whatever failed and whatever was appended to the file in the
\* meantime.
ConsumedIsSaved == \A s \in Sessions : consumed[s] \subseteq Summarised(s)

\* daemon.py:42 "Keeps buffer monotonic across compactions".  Two nodes of one
\* process never summarise the same turn, but for a tool bundle that ended the
\* file when the first was made and has grown since.
TurnsSummarisedOnce ==
  \A s \in Sessions : \A x, y \in HookNodes(s) :
    x # y /\ saved[x].epoch = saved[y].epoch =>
      \A e \in saved[x].holds, f \in saved[y].holds :
        e \cap f = {} \/ (e # f /\ (e \subseteq f \/ f \subseteq e))

\* The minutes of a node that were in the brief leave it only when the other
\* worker wrote a brief it had begun before them.
LostMinutesWereRaced ==
  \A x \in NodeIds :
    LET s == saved[x].sid IN
    x \in saved[x].minutes /\ x \notin brief[s] =>
      \E y \in NodeIds : /\ saved[y].sid = s /\ saved[y].by # saved[x].by
                         /\ y \in saved[y].minutes
                         /\ x \notin saved[y].minutes

HookWork == queue # <<>> \/ wrk.pc # "idle"
TrimWork == asking # None \/ trimJobs # <<>> \/ trm.pc # "idle"

\* daemon.py:213 "Tests use this to await full idle".  If nothing was asked of
\* the daemon since the call began, an answer of "idle" while a worker is at
\* work means one of two things.  The hook-era worker had taken its job and not
\* yet raised its flag.  Or the trim worker had its flag down for that check
\* when compact_in_flight was read, and had picked the check up by the time
\* sensor_queued was.
IdleAnswerMissesGapsOnly ==
  poll.pc = "done" =>
    /\ HookWork => poll.hookGap
    /\ TrimWork => poll.trimGap

\* The hook-era worker is a memory as TurnMemory says: a turn is stored once
\* a node summarises it, masked once it is consumed.
Memory == INSTANCE TurnMemory WITH
  Fps <- 1..MaxLen,
  stored <- [s \in Sessions |-> UNION Summarised(s)],
  masked <- [s \in Sessions |-> UNION consumed[s]],
  dropped <- [s \in Sessions |-> {}]

ImplementsMemory == Memory!Spec

\* A session that goes on asking does not keep a full buffer of unconsumed
\* turns unless the LLM goes on failing.
Unconsumed(s) == Parse(SubSeq(Script[s], 1, len[s])) \ consumed[s]

LLMFails == CompactFails \/ (SenseRaises /\ ~SenseMaintains)

BacklogIsAbsorbed ==
  \A s \in Sessions :
    /\ <>[](Cardinality(Unconsumed(s)) >= MaxL1Buffer)
    /\ []<>(wrk.pc = "read" /\ wrk.sid = s)
    => []<><<LLMFails>>_vars
=============================================================================
