-------------------------- MODULE HookWorkerProofs --------------------------
(***************************************************************************)
(* Proofs about HookWorker for any sessions, transcripts, bounds and       *)
(* number of restarts.                                                     *)
(***************************************************************************)
EXTENDS HookWorker, TranscriptProofs

USE ScriptAssumption, BufferAssumption, BoundAssumption, SessionAssumption,
    NoneAssumption

TypeInv ==
  /\ TypeOK
  /\ \A s \in Sessions : len[s] <= Len(Script[s])
  /\ trm.pc \in {"save", "minutes"} => trm.node # None

LEMMA ScriptType ==
  ASSUME NEW s \in Sessions
  PROVE  /\ Script[s] \in Seq(Message) /\ Len(Script[s]) \in Nat
         /\ Len(Script[s]) <= MaxLen
<1>. QED  BY LenProperties

\* What the worker reads is made of positions of the session's transcript.
LEMMA ReadType ==
  ASSUME TypeInv, NEW s \in Sessions
  PROVE  /\ len[s] \in 0..Len(Script[s])
         /\ Parse(SubSeq(Script[s], 1, len[s])) \subseteq Entries
<1>1. len[s] \in 0..Len(Script[s]) /\ len[s] <= MaxLen /\ len[s] \in Nat
  BY ScriptType DEF TypeInv, TypeOK
<1>2. /\ SubSeq(Script[s], 1, len[s]) \in Seq(Message)
      /\ Len(SubSeq(Script[s], 1, len[s])) = len[s]
  BY <1>1, ScriptType, SubSeqProperties
<1>. HIDE DEF TypeInv
<1>3. Parse(SubSeq(Script[s], 1, len[s])) \subseteq SUBSET (1..len[s])
  BY <1>2, ParseType
<1>. QED  BY <1>1, <1>3 DEF Entries

LEMMA IdleTypes ==
  /\ IdleWorker \in [pc : HookPcs, sid : Sessions, buffer : SUBSET Entries,
                     base : SUBSET NodeIds, node : NodeIdsOrNone]
  /\ IdleTrim \in [pc : TrimPcs, sid : Sessions, base : SUBSET NodeIds,
                   node : NodeIdsOrNone]
  /\ IdlePoll \in Polls
  /\ Unsaved \in SavedNodes
<1>1. AnySession \in Sessions
  BY DEF AnySession
<1>. QED  BY <1>1 DEF IdleWorker, IdleTrim, IdlePoll, Unsaved, HookPcs, TrimPcs,
     PollPcs, Polls, NodeIdsOrNone, SavedNodes

LEMMA NewIdType ==
  ASSUME FreshNodes # {}
  PROVE  /\ NewId \in NodeIds /\ NewId # None /\ saved[NewId].sid = None
         /\ NewId # wrk.node /\ NewId # trm.node
<1>1. NewId \in FreshNodes
  BY DEF NewId
<1>. QED  BY <1>1 DEF FreshNodes

LEMMA InitTyped == Init => TypeInv
<1>. SUFFICES ASSUME Init  PROVE TypeInv
  OBVIOUS
<1>1. << >> \in Seq(Sessions) /\ Len(<< >>) = 0
  BY EmptySeq
<1>2. wrk.pc = "idle" /\ trm.pc = "idle" /\ ~busy
  BY DEF Init, IdleWorker, IdleTrim
<1>3. TypeOK
  <2>1. /\ len \in [Sessions -> 0..MaxLen] /\ restarts \in 0..MaxRestarts
        /\ consumed \in [Sessions -> SUBSET Entries]
        /\ {trimQueued, trimFlight} \subseteq [Sessions -> BOOLEAN]
        /\ brief \in [Sessions -> SUBSET NodeIds]
    BY DEF Init
  <2>2. /\ queue \in Seq(Sessions) /\ Len(queue) <= MaxQueue
        /\ trimJobs \in Seq(Sessions) /\ asking \in Sessions \cup {None}
    BY <1>1 DEF Init
  <2>3. saved \in [NodeIds -> SavedNodes]
    BY IdleTypes DEF Init
  <2>4. busy \in BOOLEAN /\ (busy <=> wrk.pc \notin {"idle", "got"})
    BY <1>2 DEF Init
  <2>5. wrk = IdleWorker /\ trm = IdleTrim /\ poll = IdlePoll
    BY DEF Init
  <2>. QED  BY <1>2, <2>1, <2>2, <2>3, <2>4, <2>5, IdleTypes DEF TypeOK
<1>4. \A s \in Sessions : len[s] <= Len(Script[s])
  BY ScriptType DEF Init
<1>. QED  BY <1>2, <1>3, <1>4 DEF TypeInv

LEMMA PollTyped == TypeInv /\ PollStep => poll' \in Polls
<1>. SUFFICES ASSUME poll \in Polls, PollStep  PROVE poll' \in Polls
  BY DEF TypeInv, TypeOK
<1>1. CASE poll' = IdlePoll
  BY <1>1, IdleTypes
<1>2. CASE PollTrimQueue
  BY <1>2, IdleTypes DEF PollTrimQueue, Polls, PollPcs
<1>3. CASE PollFlight /\ ~GiveUp
  <2>1. PICK s \in Sessions :
          poll' = [poll EXCEPT !.pc = "queued", !.left = @ \ {s}, !.sid = s,
                               !.early = FlagDownAtWork(s)]
    BY <1>3 DEF PollFlight, Polls
  <2>2. FlagDownAtWork(s) \in BOOLEAN
    BY DEF FlagDownAtWork
  <2>. QED  BY <2>1, <2>2 DEF Polls, PollPcs
<1>4. CASE PollQueued /\ ~GiveUp
  BY <1>4 DEF PollQueued, ReadOn, Polls, PollPcs
<1>5. CASE (PollQueue \/ PollBusy) /\ ~GiveUp
  BY <1>5 DEF PollQueue, PollBusy, Polls, PollPcs
<1>. QED  BY <1>1, <1>2, <1>3, <1>4, <1>5 DEF PollStep, PollAnswer, GiveUp

\* Steps of Claude Code, of the hook and of the RPC.
LEMMA OutsideTyped ==
  ASSUME TypeInv,
         \/ \E s \in Sessions : Grow(s) \/ QueueCompact(s) \/ MarkCheck(s)
         \/ PutCheck
         \/ PollStep
         \/ Restart
  PROVE  TypeInv'
<1>. USE DEF hook, trim, store, TypeInv
<1>1. ASSUME NEW s \in Sessions, Grow(s)  PROVE TypeInv'
  <2>0. len \in [Sessions -> 0..MaxLen] /\ \A r \in Sessions : len[r] <= Len(Script[r])
    BY DEF TypeOK
  <2>1. len' = [len EXCEPT ![s] = @ + 1] /\ len[s] < Len(Script[s])
    BY <1>1 DEF Grow
  <2>. HIDE DEF TypeInv
  <2>2. len' \in [Sessions -> 0..MaxLen] /\ \A t \in Sessions : len'[t] <= Len(Script[t])
    BY <2>0, <2>1, ScriptType
  <2>3. UNCHANGED <<hook, trim, store, poll, restarts>>
    BY <1>1 DEF Grow
  <2>. QED  BY <2>2, <2>3 DEF TypeInv, TypeOK
<1>2. ASSUME NEW s \in Sessions, QueueCompact(s)  PROVE TypeInv'
  <2>1. queue' \in Seq(Sessions) /\ Len(queue') <= MaxQueue
    BY <1>2, AppendProperties, LenProperties DEF QueueCompact, TypeOK
  <2>. QED  BY <1>2, <2>1, IdleTypes DEF QueueCompact, TypeOK
<1>3. ASSUME NEW s \in Sessions, MarkCheck(s)  PROVE TypeInv'
  <2>1. trimQueued' \in [Sessions -> BOOLEAN] /\ asking' \in Sessions \cup {None}
    BY <1>3 DEF MarkCheck, TypeOK
  <2>. QED  BY <1>3, <2>1, IdleTypes DEF MarkCheck, TypeOK
<1>4. CASE PutCheck
  <2>1. trimJobs' \in Seq(Sessions)
    BY <1>4, AppendProperties DEF PutCheck, TypeOK
  <2>. QED  BY <1>4, <2>1 DEF PutCheck, TypeOK
<1>5. CASE PollStep
  <2>1. poll' \in Polls
    BY <1>5, PollTyped
  <2>2. UNCHANGED <<len, hook, trim, store, restarts>>
    BY <1>5 DEF PollStep, PollTrimQueue, PollFlight, PollQueued, PollQueue, PollBusy,
       PollAnswer
  <2>. QED  BY <2>1, <2>2 DEF TypeOK
<1>6. CASE Restart
  <2>1. << >> \in Seq(Sessions) /\ Len(<< >>) = 0
    BY EmptySeq
  <2>2. /\ wrk'.pc = "idle" /\ trm'.pc = "idle"
        /\ busy' \in BOOLEAN /\ (busy' <=> wrk'.pc \notin {"idle", "got"})
    BY <1>6 DEF Restart, IdleWorker, IdleTrim
  <2>3. restarts' \in 0..MaxRestarts
    BY <1>6 DEF Restart, TypeOK
  <2>4. /\ consumed' \in [Sessions -> SUBSET Entries]
        /\ {trimQueued', trimFlight'} \subseteq [Sessions -> BOOLEAN]
    BY <1>6 DEF Restart
  <2>5. /\ queue' = <<>> /\ trimJobs' = <<>> /\ asking' = None
        /\ wrk' = IdleWorker /\ trm' = IdleTrim /\ poll' = IdlePoll /\ UNCHANGED <<len, brief, saved>>
    BY <1>6 DEF Restart
  <2>6. queue' \in Seq(Sessions) /\ Len(queue') <= MaxQueue /\ trimJobs' \in Seq(Sessions)
        /\ asking' \in Sessions \cup {None}
    BY <2>1, <2>5
  <2>. HIDE DEF Restart
  <2>. QED  BY <2>1, <2>2, <2>3, <2>4, <2>5, <2>6, IdleTypes DEF TypeOK
<1>. QED  BY <1>1, <1>2, <1>3, <1>4, <1>5, <1>6

LEMMA WrittenType ==
  ASSUME TypeInv, NEW w, Minutes(w) \subseteq NodeIds, WriteMinutes(w)
  PROVE  brief' \in [Sessions -> SUBSET NodeIds] /\ saved' \in [NodeIds -> SavedNodes]
<1>1. brief' \in [Sessions -> SUBSET NodeIds]
  BY DEF WriteMinutes, TypeInv, TypeOK
<1>2. saved \in [NodeIds -> SavedNodes]
  BY DEF TypeInv, TypeOK
<1>3. ASSUME NEW r \in SavedNodes, NEW M \in SUBSET NodeIds
      PROVE  [r EXCEPT !.minutes = M] \in SavedNodes
  BY DEF SavedNodes
<1>4. saved' = [saved EXCEPT ![w.node] = [saved[w.node] EXCEPT !.minutes = Minutes(w)]]
  BY <1>2 DEF WriteMinutes
<1>5. saved' \in [NodeIds -> SavedNodes]
  BY <1>2, <1>3, <1>4
<1>. QED  BY <1>1, <1>5

LEMMA HookTyped == TypeInv /\ HookStep => TypeInv'
<1>. SUFFICES ASSUME TypeInv, HookStep  PROVE TypeInv'
  OBVIOUS
<1>. USE DEF hook, trim, store
<1>1. /\ wrk \in [pc : HookPcs, sid : Sessions, buffer : SUBSET Entries,
                  base : SUBSET NodeIds, node : NodeIdsOrNone]
      /\ wrk.sid \in Sessions
  BY DEF TypeInv, TypeOK
<1>2. UNCHANGED <<len, trim, poll, restarts>>
  BY DEF HookStep, TakeJob, MarkBusy, ReadTranscript, SenseTrips, SenseMaintains,
     SenseRaises, ReadBrief, CompactSucceeds, CompactFails, SaveNode, SaveBrief,
     MarkConsumed, Finally
<1>3. CASE TakeJob
  <2>1. Head(queue) \in Sessions /\ queue' \in Seq(Sessions) /\ Len(queue') <= MaxQueue
    BY <1>3, HeadTailProperties, LenProperties DEF TakeJob, TypeInv, TypeOK
  <2>2. /\ wrk' \in [pc : HookPcs, sid : Sessions, buffer : SUBSET Entries,
                     base : SUBSET NodeIds, node : NodeIdsOrNone]
        /\ wrk'.pc = "got" /\ wrk.pc = "idle"
    BY <1>3, <2>1, IdleTypes DEF TakeJob, HookPcs
  <2>. QED  BY <1>2, <1>3, <2>1, <2>2 DEF TakeJob, TypeInv, TypeOK
<1>4. CASE ReadTranscript
  <2>1. Parse(SubSeq(Script[wrk.sid], 1, len[wrk.sid])) \subseteq Entries
    BY <1>1, ReadType
  <2>. DEFINE new == Parse(SubSeq(Script[wrk.sid], 1, len[wrk.sid])) \ consumed[wrk.sid]
  <2>2. new \subseteq Entries
    BY <2>1
  <2>3. wrk' = [wrk EXCEPT !.buffer = new,
                           !.pc = IF new = {} THEN "finally" ELSE "sense"]
    BY <1>4 DEF ReadTranscript
  <2>. HIDE DEF new
  <2>4. /\ wrk' \in [pc : HookPcs, sid : Sessions, buffer : SUBSET Entries,
                     base : SUBSET NodeIds, node : NodeIdsOrNone]
        /\ wrk'.pc \in {"finally", "sense"}
    BY <1>1, <2>2, <2>3 DEF HookPcs
  <2>5. wrk.pc = "read" /\ UNCHANGED <<queue, consumed, busy, store>>
    BY <1>4 DEF ReadTranscript
  <2>. QED  BY <1>2, <2>4, <2>5 DEF TypeInv, TypeOK
<1>5. CASE CompactSucceeds
  <2>1. NewId \in NodeIds /\ NewId # None
    BY <1>5, NewIdType DEF CompactSucceeds
  <2>. HIDE DEF TypeInv
  <2>2. /\ wrk' \in [pc : HookPcs, sid : Sessions, buffer : SUBSET Entries,
                     base : SUBSET NodeIds, node : NodeIdsOrNone]
        /\ wrk'.pc = "save" /\ wrk'.node # None
    BY <1>1, <1>5, <2>1 DEF CompactSucceeds, HookPcs, NodeIdsOrNone
  <2>. QED  BY <1>2, <1>5, <2>2 DEF CompactSucceeds, TypeInv, TypeOK
<1>6. CASE SaveNode
  <2>1. wrk.node \in NodeIds
    BY <1>6 DEF SaveNode, TypeInv, TypeOK, NodeIdsOrNone
  <2>2. [sid |-> wrk.sid, by |-> "hook", epoch |-> restarts,
         holds |-> wrk.buffer, minutes |-> {}] \in SavedNodes
    BY <1>1 DEF TypeInv, TypeOK, SavedNodes
  <2>3. saved' \in [NodeIds -> SavedNodes]
    BY <1>6, <2>2 DEF SaveNode, TypeInv, TypeOK
  <2>. QED  BY <1>1, <1>2, <1>6, <2>3 DEF SaveNode, HookGo, HookPcs, TypeInv, TypeOK
<1>7. CASE SaveBrief
  <2>1. Minutes(wrk) \subseteq NodeIds
    BY <1>1, <1>7 DEF SaveBrief, Minutes, TypeInv, TypeOK, NodeIdsOrNone
  <2>2. brief' \in [Sessions -> SUBSET NodeIds] /\ saved' \in [NodeIds -> SavedNodes]
    BY <1>7, <2>1, WrittenType DEF SaveBrief, TypeInv, TypeOK
  <2>. QED  BY <1>1, <1>2, <1>7, <2>2 DEF SaveBrief, HookGo, HookPcs, TypeInv, TypeOK
<1>8. CASE MarkConsumed
  <2>1. consumed' \in [Sessions -> SUBSET Entries]
    BY <1>1, <1>8 DEF MarkConsumed, TypeInv, TypeOK
  <2>. QED  BY <1>1, <1>2, <1>8, <2>1 DEF MarkConsumed, HookGo, HookPcs, TypeInv, TypeOK
<1>9. CASE ReadBrief
  BY <1>1, <1>2, <1>9 DEF ReadBrief, HookPcs, TypeInv, TypeOK
<1>10. CASE Finally
  BY <1>2, <1>10, IdleTypes DEF Finally, IdleWorker, TypeInv, TypeOK
<1>11. CASE MarkBusy \/ SenseTrips \/ SenseMaintains \/ SenseRaises \/ CompactFails
  <2>1. /\ \E p \in {"read", "brief", "finally"} : wrk' = [wrk EXCEPT !.pc = p]
        /\ busy' = TRUE
        /\ UNCHANGED <<queue, consumed, store>>
    BY <1>11 DEF MarkBusy, SenseTrips, SenseMaintains, SenseRaises, CompactFails,
       HookGo, TypeInv, TypeOK
  <2>. QED  BY <1>1, <1>2, <2>1 DEF HookPcs, TypeInv, TypeOK
<1>. QED  BY <1>3, <1>4, <1>5, <1>6, <1>7, <1>8, <1>9, <1>10, <1>11 DEF HookStep

LEMMA TrimTyped == TypeInv /\ TrimStep => TypeInv'
<1>. SUFFICES ASSUME TypeInv, TrimStep  PROVE TypeInv'
  OBVIOUS
<1>. USE DEF hook, trim, store
<1>1. /\ trm \in [pc : TrimPcs, sid : Sessions, base : SUBSET NodeIds,
                  node : NodeIdsOrNone]
      /\ trm.sid \in Sessions
      /\ trimQueued \in [Sessions -> BOOLEAN] /\ trimFlight \in [Sessions -> BOOLEAN]
  BY DEF TypeInv, TypeOK
<1>2. UNCHANGED <<len, hook, asking, poll, restarts>>
  BY DEF TrimStep, TrimTake, TrimPickup, TrimStart, TrimSense, TrimReadBrief,
     TrimCompact, TrimSave, TrimSaveBrief, TrimDone, TrimFinally
<1>3. CASE TrimTake
  <2>1. Head(trimJobs) \in Sessions /\ trimJobs' \in Seq(Sessions)
    BY <1>3, HeadTailProperties DEF TrimTake, TypeInv, TypeOK
  <2>2. /\ trm' \in [pc : TrimPcs, sid : Sessions, base : SUBSET NodeIds,
                     node : NodeIdsOrNone]
        /\ trm'.pc = "pickup"
    BY <1>3, <2>1, IdleTypes DEF TrimTake, TrimPcs
  <2>3. UNCHANGED <<trimQueued, trimFlight, store>>
    BY <1>3 DEF TrimTake
  <2>. QED  BY <1>2, <2>1, <2>2, <2>3 DEF TypeInv, TypeOK
<1>4. CASE TrimPickup \/ TrimStart \/ TrimDone \/ TrimFinally
  <2>1. /\ trimQueued' \in [Sessions -> BOOLEAN] /\ trimFlight' \in [Sessions -> BOOLEAN]
    BY <1>1, <1>4 DEF TrimPickup, TrimStart, TrimDone, TrimFinally, LowerFlight
  <2>2. /\ trm' \in [pc : TrimPcs, sid : Sessions, base : SUBSET NodeIds,
                     node : NodeIdsOrNone]
        /\ trm'.pc \in {"idle", "start", "sense", "lowered"}
    BY <1>1, <1>4, IdleTypes DEF TrimPickup, TrimStart, TrimDone, TrimFinally, TrimGo,
       TrimPcs, IdleTrim
  <2>3. UNCHANGED <<trimJobs, store>>
    BY <1>4 DEF TrimPickup, TrimStart, TrimDone, TrimFinally
  <2>. QED  BY <1>2, <2>1, <2>2, <2>3 DEF TypeInv, TypeOK
<1>5. CASE TrimSense \/ TrimReadBrief
  <2>1. /\ trm' \in [pc : TrimPcs, sid : Sessions, base : SUBSET NodeIds,
                     node : NodeIdsOrNone]
        /\ trm'.pc \in {"brief", "finally", "compact"}
    <3>1. CASE TrimSense
      BY <1>1, <3>1 DEF TrimSense, TrimGo, TrimPcs
    <3>2. CASE TrimReadBrief
      BY <1>1, <3>2 DEF TrimReadBrief, TrimPcs, TypeInv, TypeOK
    <3>. QED  BY <1>5, <3>1, <3>2
  <2>2. UNCHANGED <<trimJobs, trimQueued, trimFlight, store>>
    BY <1>5 DEF TrimSense, TrimReadBrief
  <2>. QED  BY <1>2, <2>1, <2>2 DEF TypeInv, TypeOK
<1>6. CASE TrimCompact
  <2>1. /\ trm' \in [pc : TrimPcs, sid : Sessions, base : SUBSET NodeIds,
                     node : NodeIdsOrNone]
        /\ trm'.pc \in {"save", "finally"}
        /\ trm'.pc = "save" => trm'.node # None
    BY <1>1, <1>6, NewIdType DEF TrimCompact, TrimGo, TrimPcs, NodeIdsOrNone
  <2>2. UNCHANGED <<trimJobs, trimQueued, trimFlight, store>>
    BY <1>6 DEF TrimCompact
  <2>. QED  BY <1>2, <2>1, <2>2 DEF TypeInv, TypeOK
<1>7. CASE TrimSave
  <2>1. [Unsaved EXCEPT !.sid = trm.sid, !.by = "trim", !.epoch = restarts] \in SavedNodes
    BY <1>1, IdleTypes DEF TypeInv, TypeOK, SavedNodes
  <2>2. saved' \in [NodeIds -> SavedNodes]
    BY <1>7, <2>1 DEF TrimSave, TypeInv, TypeOK
  <2>3. /\ trm' \in [pc : TrimPcs, sid : Sessions, base : SUBSET NodeIds,
                     node : NodeIdsOrNone]
        /\ trm'.pc = "minutes" /\ trm'.node = trm.node /\ trm.pc = "save"
    BY <1>1, <1>7 DEF TrimSave, TrimGo, TrimPcs
  <2>4. UNCHANGED <<trimJobs, trimQueued, trimFlight, brief>>
    BY <1>7 DEF TrimSave
  <2>. QED  BY <1>2, <2>2, <2>3, <2>4 DEF TypeInv, TypeOK
<1>8. CASE TrimSaveBrief
  <2>1. Minutes(trm) \subseteq NodeIds
    BY <1>1, <1>8 DEF TrimSaveBrief, Minutes, TypeInv, NodeIdsOrNone
  <2>2. brief' \in [Sessions -> SUBSET NodeIds] /\ saved' \in [NodeIds -> SavedNodes]
    BY <1>8, <2>1, WrittenType DEF TrimSaveBrief, TypeInv, TypeOK
  <2>3. /\ trm' \in [pc : TrimPcs, sid : Sessions, base : SUBSET NodeIds,
                     node : NodeIdsOrNone]
        /\ trm'.pc \in {"done", "finally"}
    BY <1>1, <1>8 DEF TrimSaveBrief, TrimGo, TrimPcs
  <2>4. UNCHANGED <<trimJobs, trimQueued, trimFlight>>
    BY <1>8 DEF TrimSaveBrief
  <2>. QED  BY <1>2, <2>2, <2>3, <2>4 DEF TypeInv, TypeOK
<1>. QED  BY <1>3, <1>4, <1>5, <1>6, <1>7, <1>8 DEF TrimStep

LEMMA NextTyped == TypeInv /\ [Next]_vars => TypeInv'
<1>. SUFFICES ASSUME TypeInv, [Next]_vars  PROVE TypeInv'
  OBVIOUS
<1>1. CASE UNCHANGED vars
  BY <1>1 DEF vars, hook, trim, store, TypeInv, TypeOK
<1>. QED  BY <1>1, OutsideTyped, HookTyped, TrimTyped DEF Next

LEMMA TypeInvariance == Spec => []TypeInv
<1>. QED  BY InitTyped, NextTyped, PTL DEF Spec

\* The types of the state are kept by every step of both workers, and the
\* daemon calls itself busy exactly while _do_compact runs.
THEOREM HookTypeCorrect == Spec => []TypeOK
<1>1. TypeInv => TypeOK
  BY DEF TypeInv
<1>. QED  BY <1>1, TypeInvariance, PTL

-----------------------------------------------------------------------------
(* The node each worker has in hand, and what it has saved of it.           *)

NodeInv ==
  /\ \A x \in NodeIds :
       saved[x] = Unsaved \/ (saved[x].sid \in Sessions /\ saved[x].by \in {"hook", "trim"})
  /\ wrk.pc = "save" => saved[wrk.node] = Unsaved
  /\ trm.pc = "save" => saved[trm.node] = Unsaved
  /\ wrk.node = trm.node => wrk.node = None
  /\ wrk.pc \in {"minutes", "mark"} =>
       /\ saved[wrk.node].sid = wrk.sid /\ saved[wrk.node].by = "hook"
       /\ saved[wrk.node].epoch = restarts /\ saved[wrk.node].holds = wrk.buffer
  /\ trm.pc = "minutes" => saved[trm.node].sid = trm.sid /\ saved[trm.node].by = "trim"
  /\ wrk.pc = "minutes" => saved[wrk.node].minutes = {}
  /\ trm.pc = "minutes" => saved[trm.node].minutes = {}

\* The workers are records, and hold ids where they need one.
LEMMA WorkerTypes ==
  ASSUME TypeInv
  PROVE  /\ wrk \in [pc : HookPcs, sid : Sessions, buffer : SUBSET Entries,
                     base : SUBSET NodeIds, node : NodeIdsOrNone]
         /\ trm \in [pc : TrimPcs, sid : Sessions, base : SUBSET NodeIds,
                     node : NodeIdsOrNone]
         /\ wrk.sid \in Sessions /\ trm.sid \in Sessions
         /\ wrk.pc \in {"save", "minutes", "mark"} => wrk.node \in NodeIds
         /\ trm.pc \in {"save", "minutes"} => trm.node \in NodeIds
<1>. QED  BY DEF TypeInv, TypeOK, NodeIdsOrNone

\* The rows WriteMinutes leaves: all but one are as they were, and that one
\* differs in its minutes.
LEMMA WrittenRows ==
  ASSUME TypeInv, NEW w, w.node \in NodeIds, WriteMinutes(w)
  PROVE  /\ \A x \in NodeIds \ {w.node} : saved'[x] = saved[x]
         /\ saved'[w.node] = [saved[w.node] EXCEPT !.minutes = Minutes(w)]
         /\ \A x \in NodeIds : /\ saved'[x].sid = saved[x].sid
                               /\ saved'[x].by = saved[x].by
                               /\ saved'[x].epoch = saved[x].epoch
                               /\ saved'[x].holds = saved[x].holds
<1>1. saved \in [NodeIds -> SavedNodes]
  BY DEF TypeInv, TypeOK
<1>2. saved' = [saved EXCEPT ![w.node] = [saved[w.node] EXCEPT !.minutes = Minutes(w)]]
  BY <1>1 DEF WriteMinutes
<1>3. \A x \in NodeIds \ {w.node} : saved'[x] = saved[x]
  BY <1>1, <1>2
<1>4. saved'[w.node] = [saved[w.node] EXCEPT !.minutes = Minutes(w)]
  BY <1>1, <1>2
<1>5. ASSUME NEW r \in SavedNodes, NEW M, NEW q, q = [r EXCEPT !.minutes = M]
      PROVE  q.sid = r.sid /\ q.by = r.by /\ q.epoch = r.epoch /\ q.holds = r.holds
  BY <1>5 DEF SavedNodes
<1>6. ASSUME NEW x \in NodeIds
      PROVE  /\ saved'[x].sid = saved[x].sid /\ saved'[x].by = saved[x].by
             /\ saved'[x].epoch = saved[x].epoch /\ saved'[x].holds = saved[x].holds
  <2>1. saved[x] \in SavedNodes
    BY <1>1
  <2>2. CASE x = w.node
    <3>. DEFINE M == Minutes(w)  q == saved'[x]
    <3>1. q = [saved[x] EXCEPT !.minutes = M]
      BY <1>4, <2>2
    <3>. HIDE DEF M, q
    <3>2. q.sid = saved[x].sid /\ q.by = saved[x].by /\ q.epoch = saved[x].epoch
          /\ q.holds = saved[x].holds
      BY <1>5, <2>1, <3>1
    <3>. QED  BY <3>2 DEF q
  <2>3. CASE x # w.node
    BY <1>3, <2>3
  <2>. QED  BY <2>2, <2>3
<1>. QED  BY <1>3, <1>4, <1>6

\* Steps that save nothing.
LEMMA QuietHookStep ==
  ASSUME TypeInv, HookStep, ~SaveNode, ~SaveBrief
  PROVE  /\ UNCHANGED <<saved, brief, trm, restarts>>
         /\ wrk'.pc \notin {"minutes", "mark"}
         /\ \/ wrk'.node = wrk.node
            \/ wrk'.node = None
            \/ wrk'.node = NewId /\ FreshNodes # {}
         /\ wrk'.pc = "save" => wrk'.node = NewId /\ FreshNodes # {}
<1>. USE DEF store, trim
<1>1. CASE TakeJob \/ Finally
  <2>1. wrk'.node = None /\ wrk'.pc \in {"idle", "got"}
    <3>1. CASE TakeJob
      BY <3>1 DEF TakeJob, IdleWorker
    <3>2. CASE Finally
      BY <3>2 DEF Finally, IdleWorker
    <3>. QED  BY <1>1, <3>1, <3>2
  <2>2. UNCHANGED <<saved, brief, trm, restarts>>
    BY <1>1 DEF TakeJob, Finally
  <2>. QED  BY <2>1, <2>2
<1>2. CASE ReadTranscript
  BY <1>2, WorkerTypes DEF ReadTranscript
<1>3. CASE ReadBrief \/ CompactSucceeds
  BY <1>3, WorkerTypes DEF ReadBrief, CompactSucceeds
<1>4. CASE MarkBusy \/ SenseTrips \/ SenseMaintains \/ SenseRaises \/ CompactFails
           \/ MarkConsumed
  BY <1>4, WorkerTypes DEF MarkBusy, SenseTrips, SenseMaintains, SenseRaises,
     CompactFails, MarkConsumed, HookGo
<1>. QED  BY <1>1, <1>2, <1>3, <1>4 DEF HookStep

LEMMA QuietTrimStep ==
  ASSUME TypeInv, TrimStep, ~TrimSave, ~TrimSaveBrief
  PROVE  /\ UNCHANGED <<saved, brief, wrk, restarts>>
         /\ trm'.pc # "minutes"
         /\ \/ trm'.node = trm.node
            \/ trm'.node = None
            \/ trm'.node = NewId /\ FreshNodes # {}
         /\ trm'.pc = "save" => trm'.node = NewId /\ FreshNodes # {}
<1>. USE DEF store, hook
<1>1. CASE TrimTake \/ TrimPickup \/ TrimFinally
  <2>1. /\ trm'.node \in {None, trm.node}
        /\ trm'.pc \in {"idle", "pickup", "start"}
    <3>1. CASE TrimTake
      BY <3>1 DEF TrimTake, IdleTrim
    <3>2. CASE TrimPickup
      BY <3>2, WorkerTypes DEF TrimPickup, IdleTrim, TrimGo
    <3>3. CASE TrimFinally
      BY <3>3 DEF TrimFinally, IdleTrim
    <3>. QED  BY <1>1, <3>1, <3>2, <3>3
  <2>2. UNCHANGED <<saved, brief, wrk, restarts>>
    BY <1>1 DEF TrimTake, TrimPickup, TrimFinally
  <2>. QED  BY <2>1, <2>2
<1>2. CASE TrimStart \/ TrimSense \/ TrimDone
  BY <1>2, WorkerTypes DEF TrimStart, TrimSense, TrimDone, TrimGo
<1>3. CASE TrimReadBrief \/ TrimCompact
  BY <1>3, WorkerTypes DEF TrimReadBrief, TrimCompact, TrimGo
<1>. QED  BY <1>1, <1>2, <1>3 DEF TrimStep

\* Steps of neither worker.
LEMMA OtherStep ==
  ASSUME [Next]_vars, ~HookStep, ~TrimStep, ~Restart
  PROVE  /\ UNCHANGED <<wrk, trm, store, consumed, restarts>>
<1>. QED  BY DEF Next, vars, hook, trim, store, Grow, QueueCompact, MarkCheck, PutCheck,
       PollStep, PollTrimQueue, PollFlight, PollQueued, PollQueue, PollBusy, PollAnswer

LEMMA FreshIsUnsaved ==
  ASSUME TypeInv, NodeInv, FreshNodes # {}
  PROVE  saved[NewId] = Unsaved
<1>. QED  BY NewIdType DEF NodeInv

\* What the two saves leave in the table.
LEMMA SavedRows ==
  ASSUME TypeInv
  PROVE  /\ SaveNode =>
              /\ \A x \in NodeIds \ {wrk.node} : saved'[x] = saved[x]
              /\ saved'[wrk.node].sid = wrk.sid /\ saved'[wrk.node].by = "hook"
              /\ saved'[wrk.node].epoch = restarts
              /\ saved'[wrk.node].holds = wrk.buffer /\ saved'[wrk.node].minutes = {}
              /\ wrk.pc = "save" /\ wrk' = [wrk EXCEPT !.pc = "minutes"]
              /\ UNCHANGED <<trm, brief, consumed, restarts>>
         /\ TrimSave =>
              /\ \A x \in NodeIds \ {trm.node} : saved'[x] = saved[x]
              /\ saved'[trm.node].sid = trm.sid /\ saved'[trm.node].by = "trim"
              /\ saved'[trm.node].minutes = {}
              /\ trm.pc = "save" /\ trm' = [trm EXCEPT !.pc = "minutes"]
              /\ UNCHANGED <<wrk, brief, consumed, restarts>>
<1>1. saved \in [NodeIds -> SavedNodes]
  BY DEF TypeInv, TypeOK
<1>2. ASSUME NEW r, r = [Unsaved EXCEPT !.sid = trm.sid, !.by = "trim", !.epoch = restarts]
      PROVE  r.sid = trm.sid /\ r.by = "trim" /\ r.minutes = {}
  BY <1>2 DEF Unsaved
<1>3. ASSUME SaveNode
      PROVE  /\ \A x \in NodeIds \ {wrk.node} : saved'[x] = saved[x]
             /\ saved'[wrk.node].sid = wrk.sid /\ saved'[wrk.node].by = "hook"
             /\ saved'[wrk.node].epoch = restarts
             /\ saved'[wrk.node].holds = wrk.buffer /\ saved'[wrk.node].minutes = {}
             /\ wrk.pc = "save" /\ wrk' = [wrk EXCEPT !.pc = "minutes"]
             /\ UNCHANGED <<trm, brief, consumed, restarts>>
  BY <1>1, <1>3, WorkerTypes DEF SaveNode, HookGo, trim
<1>4. ASSUME TrimSave
      PROVE  /\ \A x \in NodeIds \ {trm.node} : saved'[x] = saved[x]
             /\ saved'[trm.node].sid = trm.sid /\ saved'[trm.node].by = "trim"
             /\ saved'[trm.node].minutes = {}
             /\ trm.pc = "save" /\ trm' = [trm EXCEPT !.pc = "minutes"]
             /\ UNCHANGED <<wrk, brief, consumed, restarts>>
  BY <1>1, <1>2, <1>4, WorkerTypes DEF TrimSave, TrimGo, hook
<1>. QED  BY <1>3, <1>4

LEMMA NodeStep ==
  ASSUME TypeInv, NodeInv, [Next]_vars
  PROVE  NodeInv'
<1>1. saved \in [NodeIds -> SavedNodes]
  BY DEF TypeInv, TypeOK
<1>2. CASE HookStep /\ ~SaveNode /\ ~SaveBrief
  <2>1. /\ UNCHANGED <<saved, trm, restarts>> /\ wrk'.pc \notin {"minutes", "mark"}
        /\ \/ wrk'.node = wrk.node \/ wrk'.node = None
           \/ wrk'.node = NewId /\ FreshNodes # {}
        /\ wrk'.pc = "save" => wrk'.node = NewId /\ FreshNodes # {}
    BY <1>2, QuietHookStep
  <2>. QED  BY <2>1, FreshIsUnsaved, NewIdType DEF NodeInv
<1>3. CASE TrimStep /\ ~TrimSave /\ ~TrimSaveBrief
  <2>1. /\ UNCHANGED <<saved, wrk, restarts>> /\ trm'.pc # "minutes"
        /\ \/ trm'.node = trm.node \/ trm'.node = None
           \/ trm'.node = NewId /\ FreshNodes # {}
        /\ trm'.pc = "save" => trm'.node = NewId /\ FreshNodes # {}
    BY <1>3, QuietTrimStep
  <2>. QED  BY <2>1, FreshIsUnsaved, NewIdType DEF NodeInv
<1>4. CASE SaveNode
  <2>1. /\ \A x \in NodeIds \ {wrk.node} : saved'[x] = saved[x]
        /\ saved'[wrk.node].sid = wrk.sid /\ saved'[wrk.node].by = "hook"
        /\ saved'[wrk.node].epoch = restarts
        /\ saved'[wrk.node].holds = wrk.buffer /\ saved'[wrk.node].minutes = {}
        /\ wrk.pc = "save" /\ wrk' = [wrk EXCEPT !.pc = "minutes"]
        /\ UNCHANGED <<trm, restarts>>
    BY <1>4, SavedRows
  <2>2. /\ wrk'.pc = "minutes" /\ wrk'.node = wrk.node /\ wrk'.sid = wrk.sid
        /\ wrk'.buffer = wrk.buffer
    BY <2>1, WorkerTypes
  <2>3. wrk.node \in NodeIds /\ wrk.node # None /\ wrk.node # trm.node
    BY <2>1, WorkerTypes DEF NodeInv
  <2>. QED  BY <2>1, <2>2, <2>3, WorkerTypes DEF NodeInv
<1>5. CASE TrimSave
  <2>1. /\ \A x \in NodeIds \ {trm.node} : saved'[x] = saved[x]
        /\ saved'[trm.node].sid = trm.sid /\ saved'[trm.node].by = "trim"
        /\ saved'[trm.node].minutes = {}
        /\ trm.pc = "save" /\ trm' = [trm EXCEPT !.pc = "minutes"]
        /\ UNCHANGED <<wrk, restarts>>
    BY <1>5, SavedRows
  <2>2. trm'.pc = "minutes" /\ trm'.node = trm.node /\ trm'.sid = trm.sid
    BY <2>1, WorkerTypes
  <2>3. trm.node \in NodeIds /\ trm.node # None /\ wrk.node # trm.node
    BY <2>1, WorkerTypes DEF NodeInv
  <2>. QED  BY <2>1, <2>2, <2>3, WorkerTypes DEF NodeInv
<1>6. CASE SaveBrief
  <2>1. /\ wrk.pc = "minutes" /\ wrk'.pc = "mark" /\ wrk'.node = wrk.node
        /\ wrk'.sid = wrk.sid /\ wrk'.buffer = wrk.buffer
        /\ UNCHANGED <<trm, restarts>>
        /\ WriteMinutes(wrk) \/ UNCHANGED saved
    BY <1>6, WorkerTypes DEF SaveBrief, HookGo, store, trim
  <2>2. wrk.node \in NodeIds /\ wrk.node # trm.node
    BY <2>1, WorkerTypes DEF NodeInv
  <2>3. CASE UNCHANGED saved
    BY <2>1, <2>3 DEF NodeInv
  <2>4. CASE WriteMinutes(wrk)
    <3>1. /\ \A x \in NodeIds \ {wrk.node} : saved'[x] = saved[x]
          /\ \A x \in NodeIds : /\ saved'[x].sid = saved[x].sid
                                /\ saved'[x].by = saved[x].by
                                /\ saved'[x].epoch = saved[x].epoch
                                /\ saved'[x].holds = saved[x].holds
      BY <2>2, <2>4, WrittenRows
    <3>. QED  BY <2>1, <2>2, <3>1, WorkerTypes DEF NodeInv
  <2>. QED  BY <2>1, <2>3, <2>4
<1>7. CASE TrimSaveBrief
  <2>1. /\ trm.pc = "minutes" /\ trm'.pc \in {"done", "finally"} /\ trm'.node = trm.node
        /\ UNCHANGED <<wrk, restarts>>
        /\ WriteMinutes(trm) \/ UNCHANGED saved
    BY <1>7, WorkerTypes DEF TrimSaveBrief, TrimGo, store, hook
  <2>2. trm.node \in NodeIds /\ wrk.node # trm.node
    BY <2>1, WorkerTypes DEF NodeInv
  <2>3. CASE UNCHANGED saved
    BY <2>1, <2>3 DEF NodeInv
  <2>4. CASE WriteMinutes(trm)
    <3>1. /\ \A x \in NodeIds \ {trm.node} : saved'[x] = saved[x]
          /\ \A x \in NodeIds : /\ saved'[x].sid = saved[x].sid
                                /\ saved'[x].by = saved[x].by
      BY <2>2, <2>4, WrittenRows
    <3>. QED  BY <2>1, <2>2, <3>1, WorkerTypes DEF NodeInv
  <2>. QED  BY <2>1, <2>3, <2>4
<1>8. CASE Restart
  BY <1>8 DEF Restart, store, IdleWorker, IdleTrim, NodeInv
<1>9. CASE ~HookStep /\ ~TrimStep /\ ~Restart
  BY <1>9, OtherStep DEF store, NodeInv
<1>. QED  BY <1>2, <1>3, <1>4, <1>5, <1>6, <1>7, <1>8, <1>9

LEMMA NodeInvariance == Spec => []NodeInv
<1>1. Init => NodeInv
  BY DEF Init, IdleWorker, IdleTrim, NodeInv
<1>. QED  BY <1>1, NodeStep, TypeInvariance, PTL DEF Spec

-----------------------------------------------------------------------------
(* What is consumed is saved.                                               *)

\* Only SaveNode adds to what hook-era nodes hold, and nothing takes from it.
LEMMA HookNodesStep ==
  ASSUME TypeInv, NodeInv, [Next]_vars, NEW s \in Sessions
  PROVE  /\ \A x \in HookNodes(s) : /\ saved'[x].holds = saved[x].holds
                                   /\ saved'[x].epoch = saved[x].epoch
         /\ ~SaveNode => HookNodes(s)' = HookNodes(s)
         /\ SaveNode => /\ HookNodes(s)' = HookNodes(s) \cup
                              (IF s = wrk.sid THEN {wrk.node} ELSE {})
                        /\ wrk.node \notin HookNodes(s)
                        /\ saved'[wrk.node].holds = wrk.buffer
                        /\ saved'[wrk.node].epoch = restarts
<1>. USE DEF HookNodes
<1>1. Unsaved.sid = None /\ s # None /\ Unsaved.by # "hook"
  BY DEF Unsaved
<1>2. CASE SaveNode
  <2>1. /\ \A x \in NodeIds \ {wrk.node} : saved'[x] = saved[x]
        /\ saved'[wrk.node].sid = wrk.sid /\ saved'[wrk.node].by = "hook"
        /\ saved'[wrk.node].epoch = restarts /\ saved'[wrk.node].holds = wrk.buffer
        /\ wrk.pc = "save"
    BY <1>2, SavedRows
  <2>2. wrk.node \in NodeIds /\ saved[wrk.node] = Unsaved
    BY <2>1, WorkerTypes DEF NodeInv
  <2>. QED  BY <1>1, <1>2, <2>1, <2>2
<1>3. CASE TrimSave
  <2>1. /\ \A x \in NodeIds \ {trm.node} : saved'[x] = saved[x]
        /\ saved'[trm.node].by = "trim" /\ trm.pc = "save"
        /\ UNCHANGED wrk
    BY <1>3, SavedRows
  <2>2. trm.node \in NodeIds /\ saved[trm.node] = Unsaved
    BY <2>1, WorkerTypes DEF NodeInv
  <2>3. ~SaveNode
    BY <2>1, SavedRows, WorkerTypes
  <2>. QED  BY <1>1, <2>1, <2>2, <2>3
<1>4. CASE (SaveBrief \/ TrimSaveBrief) /\ ~UNCHANGED saved
  <2>1. PICK w \in {wrk, trm} : w.node \in NodeIds /\ WriteMinutes(w)
    BY <1>4, WorkerTypes DEF SaveBrief, TrimSaveBrief, store
  <2>2. \A x \in NodeIds : /\ saved'[x].sid = saved[x].sid /\ saved'[x].by = saved[x].by
                          /\ saved'[x].epoch = saved[x].epoch
                          /\ saved'[x].holds = saved[x].holds
    BY <2>1, WrittenRows
  <2>3. ~SaveNode
    <3>1. CASE SaveBrief
      BY <3>1 DEF SaveBrief, SaveNode
    <3>2. CASE TrimSaveBrief
      <4>1. trm.pc = "minutes"
        BY <3>2 DEF TrimSaveBrief
      <4>. QED  BY <4>1 DEF SaveNode, StoreFree
    <3>. QED  BY <1>4, <3>1, <3>2
  <2>. QED  BY <2>2, <2>3
<1>5. CASE ~SaveNode /\ ~TrimSave /\ ~((SaveBrief \/ TrimSaveBrief) /\ ~UNCHANGED saved)
  <2>1. UNCHANGED saved
    <3>1. CASE HookStep /\ ~SaveBrief
      BY <1>5, <3>1, QuietHookStep
    <3>2. CASE TrimStep /\ ~TrimSaveBrief
      BY <1>5, <3>2, QuietTrimStep
    <3>3. CASE ~HookStep /\ ~TrimStep /\ ~Restart
      BY <3>3, OtherStep DEF store
    <3>4. CASE Restart
      BY <3>4 DEF Restart, store
    <3>. QED  BY <1>5, <3>1, <3>2, <3>3, <3>4
  <2>. QED  BY <1>5, <2>1
<1>. QED  BY <1>2, <1>3, <1>4, <1>5

\* Only MarkConsumed adds to what is consumed; a restart forgets it.
LEMMA ConsumedStep ==
  ASSUME TypeInv, [Next]_vars
  PROVE  /\ MarkConsumed \/ Restart \/ UNCHANGED consumed
         /\ MarkConsumed => /\ wrk.pc = "mark"
                            /\ consumed' = [consumed EXCEPT ![wrk.sid] = @ \cup wrk.buffer]
                            /\ UNCHANGED <<saved, restarts>>
                            /\ wrk' = [wrk EXCEPT !.pc = "finally"]
         /\ Restart => /\ consumed' = [t \in Sessions |-> {}]
                       /\ UNCHANGED saved /\ wrk' = IdleWorker
                       /\ restarts' = restarts + 1
<1>1. ASSUME HookStep, ~MarkConsumed  PROVE UNCHANGED consumed
  BY <1>1 DEF HookStep, TakeJob, MarkBusy, ReadTranscript, SenseTrips, SenseMaintains,
     SenseRaises, ReadBrief, CompactSucceeds, CompactFails, SaveNode, SaveBrief, Finally
<1>2. ASSUME TrimStep  PROVE UNCHANGED consumed
  BY <1>2 DEF TrimStep, TrimTake, TrimPickup, TrimStart, TrimSense, TrimReadBrief,
     TrimCompact, TrimSave, TrimSaveBrief, TrimDone, TrimFinally, hook
<1>3. ASSUME ~HookStep, ~TrimStep, ~Restart  PROVE UNCHANGED consumed
  BY <1>3, OtherStep
<1>4. MarkConsumed => /\ wrk.pc = "mark"
                      /\ consumed' = [consumed EXCEPT ![wrk.sid] = @ \cup wrk.buffer]
                      /\ UNCHANGED <<saved, restarts>>
                      /\ wrk' = [wrk EXCEPT !.pc = "finally"]
  BY DEF MarkConsumed, HookGo, store
<1>5. Restart => /\ consumed' = [t \in Sessions |-> {}]
                 /\ UNCHANGED saved /\ wrk' = IdleWorker /\ restarts' = restarts + 1
  BY DEF Restart, store
<1>. QED  BY <1>1, <1>2, <1>3, <1>4, <1>5

LEMMA SummarisedGrows ==
  ASSUME TypeInv, NodeInv, [Next]_vars, NEW s \in Sessions
  PROVE  /\ ~SaveNode => Summarised(s)' = Summarised(s)
         /\ SaveNode => Summarised(s)' = Summarised(s) \cup
                                         (IF s = wrk.sid THEN wrk.buffer ELSE {})
<1>1. CASE ~SaveNode
  <2>1. HookNodes(s)' = HookNodes(s) /\ \A x \in HookNodes(s) : saved'[x].holds = saved[x].holds
    BY <1>1, HookNodesStep
  <2>2. {saved[x].holds : x \in HookNodes(s)}' = {saved[x].holds : x \in HookNodes(s)}
    BY <2>1
  <2>. QED  BY <1>1, <2>2 DEF Summarised
<1>2. CASE SaveNode
  <2>1. /\ HookNodes(s)' = HookNodes(s) \cup (IF s = wrk.sid THEN {wrk.node} ELSE {})
        /\ \A x \in HookNodes(s) : saved'[x].holds = saved[x].holds
        /\ saved'[wrk.node].holds = wrk.buffer
    BY <1>2, HookNodesStep
  <2>2. Summarised(s)' = UNION {saved'[x].holds : x \in HookNodes(s)'}
    BY DEF Summarised
  <2>3. Summarised(s) = UNION {saved[x].holds : x \in HookNodes(s)}
    BY DEF Summarised
  <2>4. CASE s = wrk.sid
    BY <1>2, <2>1, <2>2, <2>3, <2>4
  <2>5. CASE s # wrk.sid
    BY <1>2, <2>1, <2>2, <2>3, <2>5
  <2>. QED  BY <2>4, <2>5
<1>. QED  BY <1>1, <1>2

\* While it is being marked, the buffer is what its node holds.
LEMMA BufferSummarised ==
  ASSUME TypeInv, NodeInv, wrk.pc = "mark"
  PROVE  wrk.buffer \subseteq Summarised(wrk.sid)
<1>1. wrk.node \in HookNodes(wrk.sid) /\ saved[wrk.node].holds = wrk.buffer
  BY WorkerTypes DEF NodeInv, HookNodes
<1>. QED  BY <1>1 DEF Summarised

LEMMA ConsumedInvariance ==
  ASSUME TypeInv, NodeInv, ConsumedIsSaved, [Next]_vars
  PROVE  ConsumedIsSaved'
<1>. SUFFICES ASSUME NEW s \in Sessions  PROVE consumed'[s] \subseteq Summarised(s)'
  BY DEF ConsumedIsSaved
<1>1. Summarised(s) \subseteq Summarised(s)'
  BY SummarisedGrows
<1>2. consumed[s] \subseteq Summarised(s) /\ consumed \in [Sessions -> SUBSET Entries]
  BY DEF ConsumedIsSaved, TypeInv, TypeOK
<1>3. CASE MarkConsumed
  <2>1. wrk.pc = "mark" /\ consumed' = [consumed EXCEPT ![wrk.sid] = @ \cup wrk.buffer]
    BY <1>3, ConsumedStep
  <2>2. wrk.buffer \subseteq Summarised(wrk.sid)
    BY <2>1, BufferSummarised
  <2>. QED  BY <1>1, <1>2, <2>1, <2>2
<1>4. CASE Restart
  BY <1>4, ConsumedStep
<1>5. CASE UNCHANGED consumed
  BY <1>1, <1>2, <1>5
<1>. QED  BY <1>3, <1>4, <1>5, ConsumedStep

\* A turn the hook-era worker will not look at again is summarised by a saved
\* node of its session, after any failure, restart or growth of the file.
THEOREM HookConsumedSaved == Spec => []ConsumedIsSaved
<1>1. Init => ConsumedIsSaved
  BY DEF Init, ConsumedIsSaved
<1>. QED  BY <1>1, ConsumedInvariance, TypeInvariance, NodeInvariance, PTL DEF Spec

\* The initial states map to an initial memory.
LEMMA MemoryInit == Init => Memory!Init
<1>. SUFFICES ASSUME Init  PROVE Memory!Init
  OBVIOUS
<1>1. \A s \in Sessions : HookNodes(s) = {}
  BY DEF Init, HookNodes, Unsaved
<1>2. \A s \in Sessions : UNION Summarised(s) = {}
  BY <1>1 DEF Summarised
<1>. QED  BY <1>2 DEF Init, Memory!Init

\* A step preserves text, masks text that is preserved, forgets masks, or is
\* none of the memory's business.
LEMMA MemoryStep ==
  ASSUME TypeInv, NodeInv, [Next]_vars
  PROVE  [Memory!Next]_(Memory!mvars)
<1>. DEFINE st == [s \in Sessions |-> UNION Summarised(s)]
            mk == [s \in Sessions |-> UNION consumed[s]]
            F == UNION wrk.buffer
<1>1. wrk.sid \in Sessions /\ F \in SUBSET (1..MaxLen)
  BY WorkerTypes DEF Entries
<1>2. consumed \in [Sessions -> SUBSET Entries]
  BY DEF TypeInv, TypeOK
<1>3. CASE SaveNode
  <2>1. UNCHANGED consumed
    BY <1>3, SavedRows
  <2>2. \A s \in Sessions : Summarised(s)' = Summarised(s) \cup
                                           (IF s = wrk.sid THEN wrk.buffer ELSE {})
    BY <1>3, SummarisedGrows
  <2>3. ASSUME NEW s \in Sessions
        PROVE  (UNION Summarised(s))' = IF s = wrk.sid THEN st[s] \cup F ELSE st[s]
    <3>1. st[s] = UNION Summarised(s)
      OBVIOUS
    <3>. HIDE DEF st
    <3>. QED  BY <2>2, <3>1
  <2>. HIDE DEF F
  <2>4. st' = [st EXCEPT ![wrk.sid] = @ \cup F]
    <3>1. st' = [s \in Sessions |-> IF s = wrk.sid THEN st[s] \cup F ELSE st[s]]
      BY <2>3
    <3>2. DOMAIN st = Sessions
      OBVIOUS
    <3>. HIDE DEF st
    <3>. QED  BY <1>1, <3>1, <3>2
  <2>5. Memory!Preserve(wrk.sid, F)
    BY <2>1, <2>4 DEF Memory!Preserve
  <2>. QED  BY <1>1, <2>5 DEF Memory!Next
<1>4. CASE MarkConsumed
  <2>1. /\ wrk.pc = "mark" /\ consumed' = [consumed EXCEPT ![wrk.sid] = @ \cup wrk.buffer]
        /\ ~SaveNode
    BY <1>4, ConsumedStep DEF SaveNode
  <2>2. \A s \in Sessions : Summarised(s)' = Summarised(s)
    BY <2>1, SummarisedGrows
  <2>3. st' = st
    BY <2>2
  <2>4. mk' = [mk EXCEPT ![wrk.sid] = @ \cup F]
    BY <1>1, <1>2, <2>1
  <2>5. F \subseteq UNION Summarised(wrk.sid)
    BY <2>1, BufferSummarised
  <2>6. Memory!Mask(wrk.sid, F)
    BY <1>1, <2>3, <2>4, <2>5 DEF Memory!Mask
  <2>. HIDE DEF F
  <2>7. \E s \in Sessions, G \in SUBSET (1..MaxLen) : Memory!Mask(s, G)
    BY <1>1, <2>6 DEF Memory!Mask
  <2>. QED  BY <2>7 DEF Memory!Next
<1>5. CASE Restart
  <2>1. consumed' = [t \in Sessions |-> {}]
    BY <1>5, ConsumedStep
  <2>2. ~SaveNode
    <3>1. restarts' = restarts + 1 /\ restarts \in Nat
      BY <1>5, ConsumedStep DEF TypeInv, TypeOK
    <3>2. SaveNode => restarts' = restarts
      BY SavedRows
    <3>. QED  BY <3>1, <3>2
  <2>3. \A s \in Sessions : Summarised(s)' = Summarised(s)
    BY <2>2, SummarisedGrows
  <2>4. st' = st /\ mk' = [s \in Sessions |-> {}]
    BY <2>1, <2>3
  <2>5. Memory!Forget
    BY <2>4 DEF Memory!Forget
  <2>. QED  BY <2>5 DEF Memory!Next
<1>6. CASE UNCHANGED consumed /\ ~SaveNode
  <2>1. \A s \in Sessions : Summarised(s)' = Summarised(s)
    BY <1>6, SummarisedGrows
  <2>2. st' = st /\ mk' = mk
    BY <1>6, <2>1
  <2>. QED  BY <2>2 DEF Memory!mvars
<1>. QED  BY <1>3, <1>4, <1>5, <1>6, ConsumedStep

\* The hook-era worker refines the memory the proxy promises: what is masked
\* is stored, and what is stored stays so.
THEOREM HookRefinesMemory == Spec => ImplementsMemory
<1>1. Init => Memory!Init
  BY MemoryInit
<1>2. TypeInv /\ NodeInv /\ [Next]_vars => [Memory!Next]_(Memory!mvars)
  BY MemoryStep
<1>. QED  BY <1>1, <1>2, TypeInvariance, NodeInvariance, PTL
     DEF Spec, ImplementsMemory, Memory!Spec

-----------------------------------------------------------------------------
(* A turn is summarised once.                                               *)

\* Every logical node the session's file was ever parsed to.
Logical(s) == UNION {Parse(SubSeq(Script[s], 1, k)) : k \in 0..Len(Script[s])}

\* What the saved node holds that is not marked yet.
Pending(s) == IF wrk.pc \in {"minutes", "mark"} /\ wrk.sid = s THEN wrk.buffer ELSE {}

OnceInv ==
  /\ wrk.buffer \subseteq Logical(wrk.sid)
  /\ wrk.pc \in {"sense", "brief", "compact", "save"} =>
       wrk.buffer \cap consumed[wrk.sid] = {}
  /\ \A s \in Sessions :
       /\ \A x \in HookNodes(s) :
            /\ saved[x].holds \subseteq Logical(s)
            /\ saved[x].epoch \in Nat /\ saved[x].epoch <= restarts
            /\ saved[x].epoch = restarts =>
                 saved[x].holds \subseteq consumed[s] \cup Pending(s)
       /\ \A x, y \in HookNodes(s) :
            x # y /\ saved[x].epoch = saved[y].epoch =>
              saved[x].holds \cap saved[y].holds = {}

\* How the hook-era worker's buffer moves.
LEMMA BufferStep ==
  ASSUME TypeInv, [Next]_vars, ~SaveNode, ~MarkConsumed, ~Restart
  PROVE  /\ UNCHANGED <<consumed, restarts>>
         /\ wrk'.pc # "save" \/ wrk.pc \in {"compact", "save"}
         /\ \/ /\ wrk'.sid = wrk.sid /\ wrk'.buffer = wrk.buffer
               /\ wrk'.pc \in {"sense", "brief", "compact", "save"} =>
                    wrk.pc \in {"sense", "brief", "compact", "save"}
               /\ wrk.pc \in {"minutes", "mark"} <=> wrk'.pc \in {"minutes", "mark"}
            \/ /\ wrk.pc \notin {"minutes", "mark"}
               /\ wrk'.pc \in {"idle", "got"} /\ wrk'.buffer = {}
            \/ /\ wrk.pc \notin {"minutes", "mark"}
               /\ wrk'.pc \in {"sense", "finally"} /\ wrk'.sid = wrk.sid
               /\ wrk'.buffer = Parse(SubSeq(Script[wrk.sid], 1, len[wrk.sid]))
                                  \ consumed[wrk.sid]
<1>1. UNCHANGED consumed
  BY ConsumedStep
<1>2. CASE TakeJob
  BY <1>1, <1>2 DEF TakeJob, IdleWorker
<1>3. CASE Finally
  BY <1>1, <1>3 DEF Finally, IdleWorker
<1>4. CASE ReadTranscript
  <2>. DEFINE new == Parse(SubSeq(Script[wrk.sid], 1, len[wrk.sid])) \ consumed[wrk.sid]
  <2>1. /\ wrk.pc = "read" /\ UNCHANGED restarts
        /\ wrk' = [wrk EXCEPT !.buffer = new,
                              !.pc = IF new = {} THEN "finally" ELSE "sense"]
    BY <1>4 DEF ReadTranscript
  <2>. HIDE DEF new
  <2>2. wrk'.pc \in {"sense", "finally"} /\ wrk'.sid = wrk.sid /\ wrk'.buffer = new
    BY <2>1, WorkerTypes
  <2>. QED  BY <1>1, <2>1, <2>2 DEF new
<1>5. CASE ReadBrief \/ CompactSucceeds
  BY <1>1, <1>5, WorkerTypes DEF ReadBrief, CompactSucceeds
<1>6. CASE MarkBusy \/ SenseTrips \/ SenseMaintains \/ SenseRaises \/ CompactFails
           \/ SaveBrief
  BY <1>1, <1>6, WorkerTypes DEF MarkBusy, SenseTrips, SenseMaintains, SenseRaises,
     CompactFails, SaveBrief, HookGo
<1>7. CASE TrimStep
  <2>1. UNCHANGED <<wrk, restarts>>
    BY <1>7 DEF TrimStep, TrimTake, TrimPickup, TrimStart, TrimSense, TrimReadBrief,
       TrimCompact, TrimSave, TrimSaveBrief, TrimDone, TrimFinally, hook
  <2>. QED  BY <1>1, <2>1
<1>8. CASE ~HookStep /\ ~TrimStep
  BY <1>1, <1>8, OtherStep
<1>. QED  BY <1>2, <1>3, <1>4, <1>5, <1>6, <1>7, <1>8 DEF HookStep

LEMMA OnceStep ==
  ASSUME TypeInv, NodeInv, OnceInv, [Next]_vars
  PROVE  OnceInv'
<1>1. restarts \in Nat /\ consumed \in [Sessions -> SUBSET Entries]
  BY DEF TypeInv, TypeOK
<1>3. CASE SaveNode
  <2>1. /\ wrk.pc = "save" /\ wrk'.pc = "minutes" /\ wrk'.sid = wrk.sid
        /\ wrk'.buffer = wrk.buffer
        /\ UNCHANGED <<consumed, restarts>>
    BY <1>3, SavedRows, WorkerTypes
  <2>2. /\ wrk'.buffer \subseteq Logical(wrk'.sid)
        /\ wrk'.pc \in {"sense", "brief", "compact", "save"} =>
             wrk'.buffer \cap consumed'[wrk'.sid] = {}
    BY <2>1, WorkerTypes DEF OnceInv
  <2>3. ASSUME NEW s \in Sessions
        PROVE  /\ \A x \in HookNodes(s)' :
                    /\ saved'[x].holds \subseteq Logical(s)
                    /\ saved'[x].epoch \in Nat /\ saved'[x].epoch <= restarts'
                    /\ saved'[x].epoch = restarts' =>
                         saved'[x].holds \subseteq consumed'[s] \cup Pending(s)'
               /\ \A x, y \in HookNodes(s)' :
                    x # y /\ saved'[x].epoch = saved'[y].epoch =>
                      saved'[x].holds \cap saved'[y].holds = {}
    <3>1. /\ HookNodes(s)' = HookNodes(s) \cup (IF s = wrk.sid THEN {wrk.node} ELSE {})
          /\ wrk.node \notin HookNodes(s)
          /\ saved'[wrk.node].holds = wrk.buffer /\ saved'[wrk.node].epoch = restarts
          /\ \A x \in HookNodes(s) : /\ saved'[x].holds = saved[x].holds
                                    /\ saved'[x].epoch = saved[x].epoch
      BY <1>3, HookNodesStep
    <3>2. Pending(s) = {} /\ Pending(s)' = IF s = wrk.sid THEN wrk.buffer ELSE {}
      BY <2>1 DEF Pending
    <3>3. s = wrk.sid => /\ wrk.buffer \subseteq Logical(s)
                         /\ wrk.buffer \cap consumed[s] = {}
      BY <2>1 DEF OnceInv
    <3>4. /\ \A x \in HookNodes(s) :
               /\ saved[x].holds \subseteq Logical(s)
               /\ saved[x].epoch \in Nat /\ saved[x].epoch <= restarts
               /\ saved[x].epoch = restarts => saved[x].holds \subseteq consumed[s]
          /\ \A x, y \in HookNodes(s) :
               x # y /\ saved[x].epoch = saved[y].epoch =>
                 saved[x].holds \cap saved[y].holds = {}
      BY <3>2 DEF OnceInv
    <3>5. ASSUME NEW x \in HookNodes(s)'
          PROVE  /\ saved'[x].holds \subseteq Logical(s)
                 /\ saved'[x].epoch \in Nat /\ saved'[x].epoch <= restarts'
                 /\ saved'[x].epoch = restarts' =>
                      saved'[x].holds \subseteq consumed'[s] \cup Pending(s)'
      <4>1. CASE x \in HookNodes(s)
        BY <2>1, <3>1, <3>4, <4>1
      <4>2. CASE x = wrk.node /\ s = wrk.sid
        BY <1>1, <2>1, <3>1, <3>2, <3>3, <4>2
      <4>. QED  BY <3>1, <4>1, <4>2
    <3>6. ASSUME NEW x \in HookNodes(s), s = wrk.sid, saved[x].epoch = restarts
          PROVE  saved[x].holds \cap wrk.buffer = {}
      BY <3>3, <3>4, <3>6
    <3>7. ASSUME NEW x \in HookNodes(s)', NEW y \in HookNodes(s)', x # y,
                 saved'[x].epoch = saved'[y].epoch
          PROVE  saved'[x].holds \cap saved'[y].holds = {}
      <4>1. CASE x \in HookNodes(s) /\ y \in HookNodes(s)
        BY <3>1, <3>4, <3>7, <4>1
      <4>2. CASE x \in HookNodes(s) /\ y = wrk.node /\ s = wrk.sid
        BY <3>1, <3>6, <3>7, <4>2
      <4>3. CASE y \in HookNodes(s) /\ x = wrk.node /\ s = wrk.sid
        BY <3>1, <3>6, <3>7, <4>3
      <4>. QED  BY <3>1, <3>7, <4>1, <4>2, <4>3
    <3>. QED  BY <3>5, <3>7
  <2>. QED  BY <2>2, <2>3 DEF OnceInv
<1>4. ASSUME ~SaveNode,
             /\ wrk'.buffer \subseteq Logical(wrk'.sid)
             /\ wrk'.pc \in {"sense", "brief", "compact", "save"} =>
                  wrk'.buffer \cap consumed'[wrk'.sid] = {},
             restarts' \in Nat, restarts' >= restarts,
             restarts' = restarts => \A s \in Sessions :
               consumed[s] \cup Pending(s) \subseteq consumed'[s] \cup Pending(s)'
      PROVE  OnceInv'
  <2>1. wrk'.sid \in Sessions
    BY NextTyped, WorkerTypes DEF TypeInv, TypeOK
  <2>2. ASSUME NEW s \in Sessions
        PROVE  /\ HookNodes(s)' = HookNodes(s)
               /\ \A x \in HookNodes(s) : /\ saved'[x].holds = saved[x].holds
                                         /\ saved'[x].epoch = saved[x].epoch
    BY <1>4, HookNodesStep
  <2>3. ASSUME NEW s \in Sessions, NEW x \in HookNodes(s)
        PROVE  /\ saved'[x].holds \subseteq Logical(s)
               /\ saved'[x].epoch \in Nat /\ saved'[x].epoch <= restarts'
               /\ saved'[x].epoch = restarts' =>
                    saved'[x].holds \subseteq consumed'[s] \cup Pending(s)'
    <3>1. /\ saved[x].holds \subseteq Logical(s)
          /\ saved[x].epoch \in Nat /\ saved[x].epoch <= restarts
          /\ saved[x].epoch = restarts => saved[x].holds \subseteq consumed[s] \cup Pending(s)
      BY DEF OnceInv
    <3>. QED  BY <1>1, <1>4, <2>2, <3>1
  <2>4. ASSUME NEW s \in Sessions, NEW x \in HookNodes(s), NEW y \in HookNodes(s),
               x # y, saved'[x].epoch = saved'[y].epoch
        PROVE  saved'[x].holds \cap saved'[y].holds = {}
    BY <2>2, <2>4 DEF OnceInv
  <2>5. wrk'.buffer \subseteq Logical(wrk'.sid)
    BY <1>4, <2>1
  <2>. QED  BY <1>4, <2>2, <2>3, <2>4, <2>5 DEF OnceInv
<1>5. CASE MarkConsumed
  <2>1. /\ wrk.pc = "mark" /\ consumed' = [consumed EXCEPT ![wrk.sid] = @ \cup wrk.buffer]
        /\ restarts' = restarts /\ wrk' = [wrk EXCEPT !.pc = "finally"]
    BY <1>5, ConsumedStep
  <2>2. wrk'.pc = "finally" /\ wrk'.sid = wrk.sid /\ wrk'.buffer = wrk.buffer
    BY <2>1, WorkerTypes
  <2>3. ~SaveNode
    BY <2>1 DEF SaveNode
  <2>4. \A s \in Sessions : consumed[s] \cup Pending(s) \subseteq consumed'[s] \cup Pending(s)'
    BY <1>1, <2>1, <2>2, WorkerTypes DEF Pending
  <2>5. wrk.buffer \subseteq Logical(wrk.sid)
    BY DEF OnceInv
  <2>. QED  BY <1>1, <1>4, <2>1, <2>2, <2>3, <2>4, <2>5
<1>6. CASE Restart
  <2>1. restarts' = restarts + 1 /\ wrk' = IdleWorker
    BY <1>6, ConsumedStep
  <2>2. wrk'.pc = "idle" /\ wrk'.buffer = {}
    BY <2>1 DEF IdleWorker
  <2>3. ~SaveNode
    BY <1>1, <2>1, SavedRows
  <2>. QED  BY <1>1, <1>4, <2>1, <2>2, <2>3
<1>7. CASE ~SaveNode /\ ~MarkConsumed /\ ~Restart
  <2>1. UNCHANGED <<consumed, restarts>>
    BY <1>7, BufferStep
  <2>2. \A s \in Sessions : Pending(s) \subseteq Pending(s)'
    BY <1>7, BufferStep DEF Pending
  <2>3. /\ wrk'.buffer \subseteq Logical(wrk'.sid)
        /\ wrk'.pc \in {"sense", "brief", "compact", "save"} =>
             wrk'.buffer \cap consumed'[wrk'.sid] = {}
    <3>1. Parse(SubSeq(Script[wrk.sid], 1, len[wrk.sid])) \subseteq Logical(wrk.sid)
      BY ReadType, WorkerTypes DEF Logical
    <3>. QED  BY <1>7, <2>1, <3>1, BufferStep DEF OnceInv
  <2>. QED  BY <1>1, <1>4, <1>7, <2>1, <2>2, <2>3
<1>. QED  BY <1>3, <1>5, <1>6, <1>7

LEMMA OnceInvariance == Spec => []OnceInv
<1>1. Init => OnceInv
  <2>. SUFFICES ASSUME Init  PROVE OnceInv
    OBVIOUS
  <2>1. wrk.pc = "idle" /\ wrk.buffer = {}
    BY DEF Init, IdleWorker
  <2>2. \A s \in Sessions : HookNodes(s) = {}
    BY DEF Init, HookNodes, Unsaved
  <2>. QED  BY <2>1, <2>2 DEF OnceInv
<1>. QED  BY <1>1, OnceStep, TypeInvariance, NodeInvariance, PTL DEF Spec

\* No two hook-era nodes of one process summarise the same turn, but for a
\* tool bundle that was summarised while it was still growing.
THEOREM HookSummarisesOnce == Spec => []TurnsSummarisedOnce
<1>1. TypeInv /\ OnceInv => TurnsSummarisedOnce
  <2>. SUFFICES ASSUME OnceInv, NEW s \in Sessions,
                       NEW x \in HookNodes(s), NEW y \in HookNodes(s), x # y,
                       saved[x].epoch = saved[y].epoch,
                       NEW e \in saved[x].holds, NEW f \in saved[y].holds
                PROVE  e \cap f = {} \/ (e # f /\ (e \subseteq f \/ f \subseteq e))
    BY DEF TurnsSummarisedOnce
  <2>1. e # f /\ e \in Logical(s) /\ f \in Logical(s)
    BY DEF OnceInv
  <2>2. PICK k \in 0..Len(Script[s]) : e \in Parse(SubSeq(Script[s], 1, k))
    BY <2>1 DEF Logical
  <2>3. PICK l \in 0..Len(Script[s]) : f \in Parse(SubSeq(Script[s], 1, l))
    BY <2>1 DEF Logical
  <2>. QED  BY <2>1, <2>2, <2>3, ParseGrows, ScriptType
<1>. QED  BY <1>1, TypeInvariance, OnceInvariance, PTL

-----------------------------------------------------------------------------
(* What an answer of "idle" misses.                                         *)

\* A check of the trim worker keeps a flag of its session up, but between
\* TrimPickup and TrimStart and between TrimDone and TrimFinally; one that waits
\* is the only one that waits.
FlagInv ==
  /\ \A i \in DOMAIN trimJobs : trimQueued[trimJobs[i]]
  /\ \A i, j \in DOMAIN trimJobs : i # j => trimJobs[i] # trimJobs[j]
  /\ asking # None => /\ trimQueued[asking]
                      /\ \A i \in DOMAIN trimJobs : trimJobs[i] # asking
  /\ trm.pc = "pickup" => /\ trimQueued[trm.sid] /\ asking # trm.sid
                          /\ \A i \in DOMAIN trimJobs : trimJobs[i] # trm.sid
  /\ trm.pc \notin {"idle", "pickup", "start", "lowered"} => trimFlight[trm.sid]

\* Both flags of session s have been read, and were down.
Seen(s) ==
  \/ poll.pc \in {"queue", "busy", "done"}
  \/ /\ poll.pc \in {"flight", "queued"} /\ s \notin poll.left
     /\ poll.pc = "queued" => s # poll.sid

AtWorkFor(s) == trm.sid = s /\ trm.pc # "idle"

\* What each reading that came out zero says for as long as nothing new is
\* asked for: no check can come up for a session once sensor_queued was down.
PollInv ==
  /\ \A s \in Sessions :
       Seen(s) => ~trimQueued[s] /\ (AtWorkFor(s) => poll.trimGap)
  /\ poll.pc = "queued" /\ (trimQueued[poll.sid] \/ AtWorkFor(poll.sid)) => poll.early
  /\ poll.pc \in {"busy", "done"} => queue = <<>>
  /\ poll.pc = "done" /\ wrk.pc # "idle" => poll.hookGap

\* The trim worker's queue and flags are not touched from outside, but by a
\* new check or a restart.
LEMMA TrimFrame ==
  ASSUME [Next]_vars, ~TrimStep, ~Restart, ~PutCheck, ~(\E s \in Sessions : MarkCheck(s))
  PROVE  UNCHANGED <<asking, trimJobs, trimQueued, trimFlight, trm>>
<1>. QED  BY DEF Next, vars, hook, trim, Grow, QueueCompact, HookStep, TakeJob, MarkBusy,
       ReadTranscript, SenseTrips, SenseMaintains, SenseRaises, ReadBrief, CompactSucceeds,
       CompactFails, SaveNode, SaveBrief, MarkConsumed, Finally, PollStep, PollTrimQueue,
       PollFlight, PollQueued, PollQueue, PollBusy, PollAnswer

LEMMA FlagStep ==
  ASSUME TypeInv, FlagInv, [Next]_vars
  PROVE  FlagInv'
<1>1. /\ trimJobs \in Seq(Sessions) /\ trm.sid \in Sessions
      /\ trimQueued \in [Sessions -> BOOLEAN] /\ trimFlight \in [Sessions -> BOOLEAN]
      /\ asking \in Sessions \cup {None}
      /\ Len(trimJobs) \in Nat /\ DOMAIN trimJobs = 1..Len(trimJobs)
      /\ \A i \in DOMAIN trimJobs : trimJobs[i] \in Sessions
  BY WorkerTypes, LenProperties, ElementOfSeq DEF TypeInv, TypeOK
<1>2. ASSUME NEW s \in Sessions, MarkCheck(s)  PROVE FlagInv'
  <2>1. /\ asking = None /\ ~trimQueued[s] /\ trimQueued' = [trimQueued EXCEPT ![s] = TRUE]
        /\ asking' = s /\ UNCHANGED <<trimJobs, trimFlight, trm>>
    BY <1>2 DEF MarkCheck
  <2>2. \A i \in DOMAIN trimJobs : trimJobs[i] # s
    BY <2>1 DEF FlagInv
  <2>3. trm.pc = "pickup" => trm.sid # s
    BY <2>1 DEF FlagInv
  <2>4. \A x \in Sessions : trimQueued[x] => trimQueued'[x]
    BY <1>1, <2>1
  <2>5. trimQueued'[s]
    BY <1>1, <2>1
  <2>. QED  BY <1>1, <2>1, <2>2, <2>3, <2>4, <2>5 DEF FlagInv
<1>3. CASE PutCheck
  <2>1. /\ asking # None /\ trimJobs' = Append(trimJobs, asking) /\ asking' = None
        /\ UNCHANGED <<trimQueued, trimFlight, trm>>
    BY <1>3 DEF PutCheck
  <2>2. /\ DOMAIN trimJobs' = 1..(Len(trimJobs) + 1)
        /\ \A i \in 1..Len(trimJobs) : trimJobs'[i] = trimJobs[i]
        /\ trimJobs'[Len(trimJobs) + 1] = asking
    BY <1>1, <2>1, AppendProperties, LenProperties
  <2>3. \A i \in DOMAIN trimJobs' : i \in DOMAIN trimJobs \/ i = Len(trimJobs) + 1
    BY <1>1, <2>2
  <2>4. trm.sid # None
    BY <1>1
  <2>. QED  BY <1>1, <2>1, <2>2, <2>3, <2>4 DEF FlagInv
<1>4. CASE TrimTake
  <2>1. /\ trimJobs # <<>> /\ trimJobs' = Tail(trimJobs)
        /\ trm'.pc = "pickup" /\ trm'.sid = Head(trimJobs)
        /\ UNCHANGED <<asking, trimQueued, trimFlight>>
    BY <1>4 DEF TrimTake, IdleTrim
  <2>2. /\ Len(trimJobs) >= 1 /\ trimJobs[1] = Head(trimJobs)
        /\ DOMAIN trimJobs' = 1..(Len(trimJobs) - 1)
        /\ \A i \in 1..(Len(trimJobs) - 1) : trimJobs'[i] = trimJobs[i + 1]
    BY <1>1, <2>1, HeadTailProperties, LenProperties, EmptySeq
  <2>3. \A i \in DOMAIN trimJobs' : /\ i + 1 \in DOMAIN trimJobs /\ i + 1 # 1
                                   /\ trimJobs'[i] = trimJobs[i + 1] /\ i \in Int
    BY <1>1, <2>2
  <2>4. 1 \in DOMAIN trimJobs
    BY <1>1, <2>2
  <2>5. trimQueued'[trm'.sid] /\ \A i \in DOMAIN trimJobs' : trimQueued'[trimJobs'[i]]
    BY <2>1, <2>2, <2>3, <2>4 DEF FlagInv
  <2>6. \A i \in DOMAIN trimJobs' : trimJobs'[i] # trm'.sid
    BY <2>1, <2>2, <2>3, <2>4 DEF FlagInv
  <2>7. ASSUME NEW i \in DOMAIN trimJobs', NEW j \in DOMAIN trimJobs', i # j
        PROVE  trimJobs'[i] # trimJobs'[j]
    <3>1. i + 1 # j + 1
      BY <2>3, <2>7
    <3>. QED  BY <2>3, <2>7, <3>1 DEF FlagInv
  <2>8. asking' # None => /\ trimQueued'[asking']
                          /\ \A i \in DOMAIN trimJobs' : trimJobs'[i] # asking'
    BY <2>1, <2>3 DEF FlagInv
  <2>9. asking' # trm'.sid
    <3>1. trm'.sid = trimJobs[1] /\ asking' = asking /\ trimJobs[1] \in Sessions
      BY <1>1, <2>1, <2>2, <2>4
    <3>2. asking # trimJobs[1]
      BY <2>4, <3>1 DEF FlagInv
    <3>. QED  BY <3>1, <3>2
  <2>. QED  BY <2>1, <2>5, <2>6, <2>7, <2>8, <2>9 DEF FlagInv
<1>5. CASE TrimPickup
  <2>1. /\ trm.pc = "pickup" /\ trimQueued' = [trimQueued EXCEPT ![trm.sid] = FALSE]
        /\ trm'.pc \in {"idle", "start"} /\ UNCHANGED <<asking, trimJobs, trimFlight>>
    BY <1>5, WorkerTypes DEF TrimPickup, TrimGo, IdleTrim
  <2>. QED  BY <1>1, <2>1 DEF FlagInv
<1>6. CASE TrimStart
  <2>1. /\ trimFlight' = [trimFlight EXCEPT ![trm.sid] = TRUE]
        /\ trm'.pc = "sense" /\ trm'.sid = trm.sid
        /\ UNCHANGED <<asking, trimJobs, trimQueued>>
    BY <1>6, WorkerTypes DEF TrimStart, TrimGo
  <2>. QED  BY <1>1, <2>1 DEF FlagInv
<1>7. CASE TrimDone \/ TrimFinally
  <2>1. trm'.pc \in {"lowered", "idle"} /\ UNCHANGED <<asking, trimJobs, trimQueued>>
    BY <1>7, WorkerTypes DEF TrimDone, TrimFinally, TrimGo, IdleTrim
  <2>. QED  BY <2>1 DEF FlagInv
<1>8. CASE TrimSense \/ TrimReadBrief \/ TrimCompact \/ TrimSave \/ TrimSaveBrief
  <2>1. /\ trm.pc \notin {"idle", "pickup", "start", "lowered"} /\ trm'.pc # "pickup"
        /\ trm'.sid = trm.sid /\ UNCHANGED <<asking, trimJobs, trimQueued, trimFlight>>
    BY <1>8, WorkerTypes DEF TrimSense, TrimReadBrief, TrimCompact, TrimSave,
       TrimSaveBrief, TrimGo
  <2>. QED  BY <2>1 DEF FlagInv
<1>9. CASE Restart
  <2>1. trimJobs' = <<>> /\ trm'.pc = "idle" /\ asking' = None
    BY <1>9 DEF Restart, IdleTrim
  <2>2. DOMAIN trimJobs' = {}
    BY <2>1
  <2>. QED  BY <2>1, <2>2 DEF FlagInv
<1>10. CASE UNCHANGED <<asking, trimJobs, trimQueued, trimFlight, trm>>
  BY <1>10 DEF FlagInv
<1>. QED  BY <1>2, <1>3, <1>4, <1>5, <1>6, <1>7, <1>8, <1>9, <1>10,
     TrimFrame DEF TrimStep

\* No step of the trim worker raises sensor_queued, and it turns only to a
\* session of which sensor_queued is up.
LEMMA TrimTurnsToQueued ==
  ASSUME TypeInv, FlagInv, TrimStep
  PROVE  /\ \A s \in Sessions : trimQueued'[s] => trimQueued[s]
         /\ \A s \in Sessions : AtWorkFor(s)' => AtWorkFor(s) \/ trimQueued[s]
<1>1. /\ trimJobs \in Seq(Sessions) /\ trm.sid \in Sessions
      /\ trimQueued \in [Sessions -> BOOLEAN]
  BY WorkerTypes DEF TypeInv, TypeOK
<1>2. CASE TrimTake
  <2>1. /\ trimJobs # <<>> /\ trm'.sid = Head(trimJobs) /\ UNCHANGED trimQueued
    BY <1>2 DEF TrimTake, IdleTrim
  <2>2. trimQueued[Head(trimJobs)]
    <3>1. 1 \in DOMAIN trimJobs /\ trimJobs[1] = Head(trimJobs)
      BY <1>1, <2>1, HeadTailProperties, LenProperties, EmptySeq
    <3>. QED  BY <3>1 DEF FlagInv
  <2>. QED  BY <2>1, <2>2 DEF AtWorkFor
<1>3. CASE TrimPickup
  <2>1. /\ trm.pc = "pickup" /\ trimQueued' = [trimQueued EXCEPT ![trm.sid] = FALSE]
        /\ trm'.pc = "idle" \/ trm'.sid = trm.sid
    BY <1>3, WorkerTypes DEF TrimPickup, TrimGo, IdleTrim
  <2>. QED  BY <1>1, <2>1 DEF AtWorkFor
<1>4. CASE TrimFinally
  <2>1. trm'.pc = "idle" /\ UNCHANGED trimQueued
    BY <1>4 DEF TrimFinally, IdleTrim
  <2>. QED  BY <2>1 DEF AtWorkFor
<1>5. CASE \/ TrimStart \/ TrimSense \/ TrimReadBrief \/ TrimCompact \/ TrimSave
           \/ TrimSaveBrief \/ TrimDone
  <2>1. trm.pc # "idle" /\ trm'.sid = trm.sid /\ UNCHANGED trimQueued
    BY <1>5, WorkerTypes DEF TrimStart, TrimSense, TrimReadBrief, TrimCompact, TrimSave,
       TrimSaveBrief, TrimDone, TrimGo
  <2>. QED  BY <2>1 DEF AtWorkFor
<1>. QED  BY <1>2, <1>3, <1>4, <1>5 DEF TrimStep

LEMMA PollInvStep ==
  ASSUME TypeInv, FlagInv, PollInv, [Next]_vars
  PROVE  PollInv'
<1>1. /\ poll \in Polls /\ poll.sid \in Sessions /\ poll.left \subseteq Sessions
      /\ trm.sid \in Sessions /\ trm.pc \in TrimPcs /\ (busy <=> wrk.pc \notin {"idle", "got"})
  BY WorkerTypes DEF TypeInv, TypeOK, Polls
<1>2. CASE poll'.pc = "idle"
  BY <1>2 DEF PollInv, Seen
<1>3. CASE UNCHANGED <<poll, trimQueued, trm, queue, wrk>>
  BY <1>3 DEF PollInv, Seen, AtWorkFor
<1>4. CASE TrimStep
  <2>1. UNCHANGED <<poll, queue, wrk>>
    BY <1>4 DEF TrimStep, TrimTake, TrimPickup, TrimStart, TrimSense, TrimReadBrief,
       TrimCompact, TrimSave, TrimSaveBrief, TrimDone, TrimFinally, hook
  <2>2. \A s \in Sessions : Seen(s)' => Seen(s)
    BY <2>1 DEF Seen
  <2>3. /\ \A s \in Sessions : trimQueued'[s] => trimQueued[s]
        /\ \A s \in Sessions : AtWorkFor(s)' => AtWorkFor(s) \/ trimQueued[s]
    BY <1>4, TrimTurnsToQueued
  <2>4. \A s \in Sessions : Seen(s)' => ~trimQueued'[s] /\ (AtWorkFor(s)' => poll'.trimGap)
    BY <2>1, <2>2, <2>3 DEF PollInv
  <2>5. AtWorkFor(poll.sid)' => AtWorkFor(poll.sid) \/ trimQueued[poll.sid]
    BY <1>1, <2>1, <2>3 DEF AtWorkFor
  <2>6. poll'.pc = "queued" /\ (trimQueued'[poll'.sid] \/ AtWorkFor(poll.sid)')
          => poll'.early
    BY <1>1, <2>1, <2>3, <2>5 DEF PollInv
  <2>7. /\ poll'.pc \in {"busy", "done"} => queue' = <<>>
        /\ poll'.pc = "done" /\ wrk'.pc # "idle" => poll'.hookGap
    BY <2>1 DEF PollInv
  <2>. QED  BY <2>4, <2>6, <2>7 DEF PollInv
<1>5. CASE HookStep
  <2>1. UNCHANGED <<poll, trimQueued, trm>>
    BY <1>5 DEF HookStep, TakeJob, MarkBusy, ReadTranscript, SenseTrips, SenseMaintains,
       SenseRaises, ReadBrief, CompactSucceeds, CompactFails, SaveNode, SaveBrief,
       MarkConsumed, Finally, trim
  <2>2. queue = <<>> => queue' = <<>> /\ wrk.pc # "idle"
    BY <1>5 DEF HookStep, TakeJob, MarkBusy, ReadTranscript, SenseTrips, SenseMaintains,
       SenseRaises, ReadBrief, CompactSucceeds, CompactFails, SaveNode, SaveBrief,
       MarkConsumed, Finally
  <2>. QED  BY <2>1, <2>2 DEF PollInv, Seen, AtWorkFor
<1>6. CASE PollStep
  <2>1. UNCHANGED <<trimQueued, trm, queue, wrk>>
    BY <1>6 DEF PollStep, PollTrimQueue, PollFlight, PollQueued, PollQueue, PollBusy,
       PollAnswer, hook, trim
  <2>2. \A s \in Sessions : AtWorkFor(s)' <=> AtWorkFor(s)
    BY <2>1 DEF AtWorkFor
  <2>3. CASE poll' = IdlePoll
    BY <1>2, <2>3 DEF IdlePoll
  <2>4. CASE PollTrimQueue
    BY <2>1, <2>4 DEF PollTrimQueue, IdlePoll, PollInv, Seen
  <2>5. CASE PollFlight /\ ~GiveUp
    <3>1. PICK s \in poll.left : /\ ~trimFlight[s] /\ poll.pc = "flight"
                               /\ poll' = [poll EXCEPT !.pc = "queued", !.left = @ \ {s},
                                               !.sid = s, !.early = FlagDownAtWork(s)]
      BY <2>5 DEF PollFlight
    <3>2. /\ poll'.pc = "queued" /\ poll'.left = poll.left \ {s} /\ poll'.sid = s
          /\ poll'.early = FlagDownAtWork(s) /\ poll'.trimGap = poll.trimGap
      BY <1>1, <3>1 DEF Polls
    <3>3. \A r \in Sessions : Seen(r)' => Seen(r)
      BY <3>1, <3>2 DEF Seen
    <3>4. trimQueued[s] \/ AtWorkFor(s) => FlagDownAtWork(s)
      BY <1>1, <3>1 DEF AtWorkFor, FlagDownAtWork, FlagInv
    <3>5. \A r \in Sessions : Seen(r)' => ~trimQueued'[r] /\ (AtWorkFor(r)' => poll'.trimGap)
      BY <2>1, <2>2, <3>2, <3>3 DEF PollInv
    <3>. QED  BY <2>1, <3>2, <3>4, <3>5 DEF PollInv, AtWorkFor
  <2>6. CASE PollQueued /\ ~GiveUp
    <3>1. /\ ~trimQueued[poll.sid] /\ poll.pc = "queued" /\ ReadOn
      BY <2>6 DEF PollQueued
    <3>2. /\ poll'.pc = IF poll.left = {} THEN "queue" ELSE "flight"
          /\ poll'.left = poll.left
          /\ poll'.trimGap = (poll.trimGap \/ poll.early)
      BY <1>1, <3>1 DEF ReadOn, Polls
    <3>3. \A r \in Sessions : Seen(r)' => Seen(r) \/ r = poll.sid
      BY <3>1, <3>2 DEF Seen
    <3>4. \A r \in Sessions : Seen(r)' => ~trimQueued'[r] /\ (AtWorkFor(r)' => poll'.trimGap)
      BY <2>1, <2>2, <3>1, <3>2, <3>3 DEF PollInv
    <3>. QED  BY <3>2, <3>4 DEF PollInv
  <2>7. CASE PollQueue /\ ~GiveUp
    <3>1. /\ poll.pc = "queue" /\ poll'.pc = "busy" /\ poll'.trimGap = poll.trimGap
          /\ queue = <<>>
      BY <1>1, <2>7 DEF PollQueue, Polls
    <3>2. \A s \in Sessions : Seen(s)
      BY <3>1 DEF Seen
    <3>. QED  BY <2>1, <2>2, <3>1, <3>2 DEF PollInv
  <2>8. CASE PollBusy /\ ~GiveUp
    <3>1. /\ poll.pc = "busy" /\ poll'.pc = "done" /\ poll'.trimGap = poll.trimGap
          /\ poll'.hookGap = (wrk.pc = "got") /\ ~busy
      BY <1>1, <2>8 DEF PollBusy, Polls
    <3>2. \A s \in Sessions : Seen(s)
      BY <3>1 DEF Seen
    <3>. QED  BY <1>1, <2>1, <2>2, <3>1, <3>2 DEF PollInv
  <2>. QED  BY <1>6, <2>3, <2>4, <2>5, <2>6, <2>7, <2>8 DEF PollStep, PollAnswer, GiveUp
<1>7. ASSUME NEW s \in Sessions, Grow(s)  PROVE PollInv'
  BY <1>3, <1>7 DEF Grow, hook, trim
<1>8. ASSUME NEW s \in Sessions, QueueCompact(s) \/ MarkCheck(s)  PROVE PollInv'
  BY <1>2, <1>8 DEF QueueCompact, MarkCheck, IdlePoll
<1>9. CASE PutCheck
  BY <1>3, <1>9 DEF PutCheck, hook
<1>10. CASE Restart
  BY <1>2, <1>10 DEF Restart, IdlePoll
<1>11. CASE UNCHANGED vars
  BY <1>3, <1>11 DEF vars, hook, trim
<1>. QED  BY <1>4, <1>5, <1>6, <1>7, <1>8, <1>9, <1>10, <1>11 DEF Next

LEMMA PollInvariance == Spec => [](FlagInv /\ PollInv)
<1>1. Init => FlagInv /\ PollInv
  <2>. SUFFICES ASSUME Init  PROVE FlagInv /\ PollInv
    OBVIOUS
  <2>1. /\ trm.pc = "idle" /\ wrk.pc = "idle" /\ poll.pc = "idle" /\ trimJobs = <<>>
        /\ asking = None
    BY DEF Init, IdleTrim, IdleWorker, IdlePoll
  <2>2. DOMAIN trimJobs = {}
    BY <2>1
  <2>. QED  BY <2>1, <2>2 DEF FlagInv, PollInv, Seen
<1>. QED  BY <1>1, FlagStep, PollInvStep, TypeInvariance, PTL DEF Spec

\* If nothing new is asked of the daemon while queue_depth reads its counters
\* and flags, one after the other, an answer of "idle" overlooks the hook-era
\* worker only between its taking a job and its raising the flag, and the trim
\* worker only if compact_in_flight was read while it was down for a check that
\* sensor_queued, read next, no longer stood for.
THEOREM IdleAnswer == Spec => []IdleAnswerMissesGapsOnly
<1>1. TypeInv /\ FlagInv /\ PollInv => IdleAnswerMissesGapsOnly
  <2>. SUFFICES ASSUME TypeInv, FlagInv, PollInv, poll.pc = "done"
                PROVE  (HookWork => poll.hookGap) /\ (TrimWork => poll.trimGap)
    BY DEF IdleAnswerMissesGapsOnly
  <2>1. /\ trimJobs \in Seq(Sessions) /\ trm.sid \in Sessions
        /\ asking \in Sessions \cup {None}
    BY WorkerTypes DEF TypeInv, TypeOK
  <2>2. \A s \in Sessions : ~trimQueued[s] /\ (AtWorkFor(s) => poll.trimGap)
    BY DEF PollInv, Seen
  <2>3. asking = None
    BY <2>1, <2>2 DEF FlagInv
  <2>4. trimJobs = <<>>
    <3>. SUFFICES ASSUME trimJobs # <<>>  PROVE FALSE
      OBVIOUS
    <3>1. 1 \in DOMAIN trimJobs /\ trimJobs[1] \in Sessions
      BY <2>1, HeadTailProperties, LenProperties, EmptySeq
    <3>. QED  BY <2>2, <3>1 DEF FlagInv
  <2>5. TrimWork => poll.trimGap
    BY <2>1, <2>2, <2>3, <2>4 DEF TrimWork, AtWorkFor
  <2>. QED  BY <2>5 DEF HookWork, PollInv
<1>. QED  BY <1>1, PollInvariance, TypeInvariance, PTL
-----------------------------------------------------------------------------
(* Whose minutes can be lost.                                               *)

Raced(x) ==
  \E y \in NodeIds : /\ saved[y].sid = saved[x].sid /\ saved[y].by # saved[x].by
                     /\ y \in saved[y].minutes
                     /\ x \notin saved[y].minutes

Written(x) == x \in saved[x].minutes

\* A worker goes by the brief it read: what its own nodes wrote is in it, for
\* it writes one brief at a time, unless the other worker had lost it before.
MinutesInv ==
  /\ \A x \in NodeIds : Written(x) => x \in brief[saved[x].sid] \/ Raced(x)
  /\ wrk.pc \in {"compact", "save", "minutes"} =>
       \A x \in NodeIds : saved[x].sid = wrk.sid /\ saved[x].by = "hook" /\ Written(x)
                            => x \in wrk.base \/ Raced(x)
  /\ trm.pc \in {"compact", "save", "minutes"} =>
       \A x \in NodeIds : saved[x].sid = trm.sid /\ saved[x].by = "trim" /\ Written(x)
                            => x \in trm.base \/ Raced(x)

HookWrites == SaveBrief /\ WriteMinutes(wrk)
TrimWrites == TrimSaveBrief /\ WriteMinutes(trm)

\* A row that says what its brief held is final.
LEMMA MinutesStep ==
  ASSUME TypeInv, NodeInv, [Next]_vars
  PROVE  /\ \A x \in NodeIds : saved[x].minutes # {} => saved'[x] = saved[x]
         /\ \/ /\ UNCHANGED brief
               /\ \A x \in NodeIds : saved'[x].minutes # {} => saved'[x] = saved[x]
            \/ HookWrites
            \/ TrimWrites
<1>1. Unsaved.minutes = {}
  BY DEF Unsaved
<1>2. CASE SaveNode
  <2>1. /\ \A x \in NodeIds \ {wrk.node} : saved'[x] = saved[x]
        /\ saved'[wrk.node].minutes = {} /\ wrk.pc = "save" /\ UNCHANGED brief
    BY <1>2, SavedRows
  <2>. QED  BY <1>1, <2>1 DEF NodeInv
<1>3. CASE TrimSave
  <2>1. /\ \A x \in NodeIds \ {trm.node} : saved'[x] = saved[x]
        /\ saved'[trm.node].minutes = {} /\ trm.pc = "save" /\ UNCHANGED brief
    BY <1>3, SavedRows
  <2>. QED  BY <1>1, <2>1 DEF NodeInv
<1>4. CASE SaveBrief /\ WriteMinutes(wrk)
  <2>1. wrk.pc = "minutes" /\ wrk.node \in NodeIds /\ saved[wrk.node].minutes = {}
    BY <1>4, WorkerTypes DEF SaveBrief, NodeInv
  <2>. QED  BY <1>4, <2>1, WrittenRows DEF HookWrites
<1>5. CASE TrimSaveBrief /\ WriteMinutes(trm)
  <2>1. trm.pc = "minutes" /\ trm.node \in NodeIds /\ saved[trm.node].minutes = {}
    BY <1>5, WorkerTypes DEF TrimSaveBrief, NodeInv
  <2>. QED  BY <1>5, <2>1, WrittenRows DEF TrimWrites
<1>6. CASE SaveBrief /\ ~WriteMinutes(wrk)
  BY <1>6 DEF SaveBrief, store
<1>7. CASE TrimSaveBrief /\ ~WriteMinutes(trm)
  BY <1>7 DEF TrimSaveBrief, store
<1>8. CASE HookStep /\ ~SaveNode /\ ~SaveBrief
  BY <1>8, QuietHookStep
<1>9. CASE TrimStep /\ ~TrimSave /\ ~TrimSaveBrief
  BY <1>9, QuietTrimStep
<1>10. CASE Restart
  BY <1>10 DEF Restart, store
<1>11. CASE ~HookStep /\ ~TrimStep /\ ~Restart
  BY <1>11, OtherStep DEF store
<1>. QED  BY <1>2, <1>3, <1>4, <1>5, <1>6, <1>7, <1>8, <1>9, <1>10, <1>11

\* A race once lost stays lost.
LEMMA RacedStays ==
  ASSUME TypeInv, NodeInv, [Next]_vars, NEW x \in NodeIds, Written(x), Raced(x)
  PROVE  Raced(x)'
<1>1. PICK y \in NodeIds : /\ saved[y].sid = saved[x].sid /\ saved[y].by # saved[x].by
                           /\ y \in saved[y].minutes /\ x \notin saved[y].minutes
  BY DEF Raced
<1>2. saved'[x] = saved[x] /\ saved'[y] = saved[y]
  BY <1>1, MinutesStep DEF Written
<1>. QED  BY <1>1, <1>2 DEF Raced

\* A worker takes its base from the brief and keeps it.
LEMMA BaseStep ==
  ASSUME TypeInv, [Next]_vars
  PROVE  /\ wrk'.pc \in {"compact", "save", "minutes"} =>
              \/ wrk'.base = brief[wrk'.sid] /\ UNCHANGED store
              \/ /\ wrk.pc \in {"compact", "save", "minutes"}
                 /\ wrk'.base = wrk.base /\ wrk'.sid = wrk.sid
         /\ trm'.pc \in {"compact", "save", "minutes"} =>
              \/ trm'.base = brief[trm'.sid] /\ UNCHANGED store
              \/ /\ trm.pc \in {"compact", "save", "minutes"}
                 /\ trm'.base = trm.base /\ trm'.sid = trm.sid
<1>1. CASE HookStep
  <2>1. UNCHANGED trm
    BY <1>1 DEF HookStep, TakeJob, MarkBusy, ReadTranscript, SenseTrips, SenseMaintains,
       SenseRaises, ReadBrief, CompactSucceeds, CompactFails, SaveNode, SaveBrief,
       MarkConsumed, Finally, trim
  <2>2. CASE ReadBrief
    <3>1. wrk'.base = brief[wrk'.sid] /\ UNCHANGED store
      BY <2>2, WorkerTypes DEF ReadBrief
    <3>. QED  BY <2>1, <3>1
  <2>3. CASE CompactSucceeds \/ SaveNode
    <3>1. /\ wrk.pc \in {"compact", "save", "minutes"}
          /\ wrk'.base = wrk.base /\ wrk'.sid = wrk.sid
      BY <2>3, WorkerTypes DEF CompactSucceeds, SaveNode, HookGo
    <3>. QED  BY <2>1, <3>1
  <2>4. CASE ~ReadBrief /\ ~CompactSucceeds /\ ~SaveNode
    <3>1. CASE TakeJob \/ Finally
      <4>1. wrk'.pc \in {"idle", "got"}
        <5>1. CASE TakeJob
          BY <5>1 DEF TakeJob, IdleWorker
        <5>2. CASE Finally
          BY <5>2 DEF Finally, IdleWorker
        <5>. QED  BY <3>1, <5>1, <5>2
      <4>. QED  BY <2>1, <4>1
    <3>2. CASE MarkBusy \/ SenseTrips \/ SenseMaintains \/ SenseRaises
      <4>1. wrk'.pc \in {"read", "brief", "finally"}
        BY <3>2, WorkerTypes DEF MarkBusy, SenseTrips, SenseMaintains, SenseRaises, HookGo
      <4>. QED  BY <2>1, <4>1
    <3>3. CASE ReadTranscript
      <4>1. wrk'.pc \in {"sense", "finally"}
        BY <3>3, WorkerTypes DEF ReadTranscript
      <4>. QED  BY <2>1, <4>1
    <3>4. CASE CompactFails \/ SaveBrief \/ MarkConsumed
      <4>1. wrk'.pc \in {"mark", "finally"}
        BY <3>4, WorkerTypes DEF CompactFails, SaveBrief, MarkConsumed, HookGo
      <4>. QED  BY <2>1, <4>1
    <3>. QED  BY <1>1, <2>4, <3>1, <3>2, <3>3, <3>4 DEF HookStep
  <2>. QED  BY <2>2, <2>3, <2>4
<1>2. CASE TrimStep
  <2>1. UNCHANGED wrk
    BY <1>2 DEF TrimStep, TrimTake, TrimPickup, TrimStart, TrimSense, TrimReadBrief,
       TrimCompact, TrimSave, TrimSaveBrief, TrimDone, TrimFinally, hook
  <2>2. CASE TrimReadBrief
    <3>1. trm'.base = brief[trm'.sid] /\ UNCHANGED store
      BY <2>2, WorkerTypes DEF TrimReadBrief
    <3>. QED  BY <2>1, <3>1
  <2>3. CASE TrimCompact \/ TrimSave
    <3>1. CASE TrimSave
      <4>1. trm.pc = "save" /\ trm'.base = trm.base /\ trm'.sid = trm.sid
        BY <3>1, WorkerTypes DEF TrimSave, TrimGo
      <4>. QED  BY <2>1, <4>1
    <3>2. CASE TrimCompact
      <4>1. trm.pc = "compact" /\ trm'.base = trm.base /\ trm'.sid = trm.sid
        BY <3>2, WorkerTypes DEF TrimCompact, TrimGo
      <4>. QED  BY <2>1, <4>1
    <3>. QED  BY <2>3, <3>1, <3>2
  <2>4. CASE ~TrimReadBrief /\ ~TrimCompact /\ ~TrimSave
    <3>1. CASE TrimTake \/ TrimPickup \/ TrimFinally
      <4>1. trm'.pc \in {"idle", "pickup", "start"}
        <5>1. CASE TrimTake
          BY <5>1 DEF TrimTake, IdleTrim
        <5>2. CASE TrimPickup
          BY <5>2, WorkerTypes DEF TrimPickup, IdleTrim, TrimGo
        <5>3. CASE TrimFinally
          BY <5>3 DEF TrimFinally, IdleTrim
        <5>. QED  BY <3>1, <5>1, <5>2, <5>3
      <4>. QED  BY <2>1, <4>1
    <3>2. CASE TrimStart \/ TrimSense \/ TrimSaveBrief \/ TrimDone
      <4>1. trm'.pc \in {"sense", "brief", "done", "lowered", "finally"}
        BY <3>2, WorkerTypes DEF TrimStart, TrimSense, TrimSaveBrief, TrimDone, TrimGo
      <4>. QED  BY <2>1, <4>1
    <3>. QED  BY <1>2, <2>4, <3>1, <3>2 DEF TrimStep
  <2>. QED  BY <2>2, <2>3, <2>4
<1>3. CASE Restart
  BY <1>3 DEF Restart, IdleWorker, IdleTrim
<1>4. CASE ~HookStep /\ ~TrimStep /\ ~Restart
  BY <1>4, OtherStep
<1>. QED  BY <1>1, <1>2, <1>3, <1>4
\* A brief is written by a worker whose own nodes are in it or were raced.
LEMMA WrittenBrief ==
  ASSUME TypeInv, NodeInv, [Next]_vars, NEW w, NEW by,
         \A x \in NodeIds : Written(x) => x \in brief[saved[x].sid] \/ Raced(x),
         w.node \in NodeIds, w.sid \in Sessions, WriteMinutes(w),
         saved[w.node].sid = w.sid, saved[w.node].by = by,
         \A x \in NodeIds : saved[x].sid = w.sid /\ saved[x].by = by /\ Written(x)
                              => x \in w.base \/ Raced(x)
  PROVE  /\ \A x \in NodeIds : Written(x)' => x \in brief'[saved'[x].sid] \/ Raced(x)'
         /\ \A x \in NodeIds \ {w.node} : Written(x)' =>
              /\ Written(x) /\ saved'[x] = saved[x] /\ (Raced(x) => Raced(x)')
<1>1. /\ \A x \in NodeIds \ {w.node} : saved'[x] = saved[x]
      /\ saved'[w.node].sid = w.sid /\ saved'[w.node].by = by
      /\ brief' = [brief EXCEPT ![w.sid] = Minutes(w)]
  BY WrittenRows DEF WriteMinutes
<1>2. saved \in [NodeIds -> SavedNodes] /\ brief \in [Sessions -> SUBSET NodeIds]
  BY DEF TypeInv, TypeOK
<1>3. saved'[w.node].minutes = Minutes(w)
  <2>. DEFINE M == Minutes(w)  q == saved'[w.node]
  <2>1. q = [saved[w.node] EXCEPT !.minutes = M] /\ saved[w.node] \in SavedNodes
    BY <1>2, WrittenRows
  <2>. HIDE DEF M, q
  <2>2. q.minutes = M
    BY <2>1 DEF SavedNodes
  <2>. QED  BY <2>2 DEF M, q
<1>4. ASSUME NEW x \in NodeIds \ {w.node}, Written(x)'
      PROVE  Written(x) /\ saved'[x] = saved[x] /\ (Raced(x) => Raced(x)')
  <2>1. saved'[x] = saved[x] /\ Written(x)
    BY <1>1, <1>4 DEF Written
  <2>. QED  BY <2>1, RacedStays
<1>5. brief'[w.sid] = Minutes(w) /\ \A s \in Sessions \ {w.sid} : brief'[s] = brief[s]
  BY <1>1, <1>2
<1>6. ASSUME NEW x \in NodeIds, Written(x)'
      PROVE  x \in brief'[saved'[x].sid] \/ Raced(x)'
  <2>1. CASE x = w.node
    BY <1>1, <1>5, <2>1 DEF Minutes
  <2>2. CASE x # w.node
    <3>1. Written(x) /\ saved'[x] = saved[x] /\ (Raced(x) => Raced(x)')
      BY <1>4, <1>6, <2>2
    <3>2. saved[x].sid \in Sessions
      BY <3>1 DEF NodeInv, Written, Unsaved
    <3>3. CASE saved[x].sid # w.sid
      BY <1>5, <3>1, <3>2, <3>3
    <3>4. CASE saved[x].sid = w.sid /\ saved[x].by = by
      <4>1. x \in w.base \/ Raced(x)
        BY <3>1, <3>4
      <4>. QED  BY <1>5, <3>1, <3>4, <4>1 DEF Minutes
    <3>5. CASE saved[x].sid = w.sid /\ saved[x].by # by /\ x \notin Minutes(w)
      <4>1. /\ saved'[w.node].sid = saved'[x].sid /\ saved'[w.node].by # saved'[x].by
            /\ w.node \in saved'[w.node].minutes /\ x \notin saved'[w.node].minutes
        BY <1>1, <1>3, <3>1, <3>5 DEF Minutes
      <4>. QED  BY <4>1 DEF Raced
    <3>6. CASE saved[x].sid = w.sid /\ x \in Minutes(w)
      BY <1>5, <3>1, <3>6
    <3>. QED  BY <3>3, <3>4, <3>5, <3>6
  <2>. QED  BY <2>1, <2>2
<1>. QED  BY <1>4, <1>6

LEMMA MinutesInvStep ==
  ASSUME TypeInv, NodeInv, MinutesInv, [Next]_vars
  PROVE  MinutesInv'
<1>. DEFINE Working == {"compact", "save", "minutes"}
<1>1. CASE /\ UNCHANGED brief
           /\ \A x \in NodeIds : saved'[x].minutes # {} => saved'[x] = saved[x]
  <2>1. ASSUME NEW x \in NodeIds, Written(x)'
        PROVE  saved'[x] = saved[x] /\ Written(x) /\ (Raced(x) => Raced(x)')
    <3>1. saved'[x] = saved[x]
      BY <1>1, <2>1 DEF Written
    <3>2. Written(x)
      BY <2>1, <3>1 DEF Written
    <3>. QED  BY <3>1, <3>2, RacedStays
  <2>2. \A x \in NodeIds : Written(x)' => x \in brief'[saved'[x].sid] \/ Raced(x)'
    BY <1>1, <2>1 DEF MinutesInv
  <2>3. wrk'.pc \in Working =>
          \A x \in NodeIds : saved'[x].sid = wrk'.sid /\ saved'[x].by = "hook" /\ Written(x)'
                               => x \in wrk'.base \/ Raced(x)'
    BY <2>1, BaseStep DEF MinutesInv, store
  <2>4. trm'.pc \in Working =>
          \A x \in NodeIds : saved'[x].sid = trm'.sid /\ saved'[x].by = "trim" /\ Written(x)'
                               => x \in trm'.base \/ Raced(x)'
    BY <2>1, BaseStep DEF MinutesInv, store
  <2>. QED  BY <2>2, <2>3, <2>4 DEF MinutesInv
<1>2. CASE HookWrites
  <2>1. wrk.pc = "minutes" /\ WriteMinutes(wrk) /\ UNCHANGED trm
    BY <1>2 DEF HookWrites, SaveBrief, trim
  <2>2. wrk'.pc = "mark"
    BY <1>2, WorkerTypes DEF HookWrites, SaveBrief, HookGo
  <2>3. /\ wrk.node \in NodeIds /\ wrk.sid \in Sessions
        /\ saved[wrk.node].sid = wrk.sid /\ saved[wrk.node].by = "hook"
    BY <2>1, WorkerTypes DEF NodeInv
  <2>4. /\ \A x \in NodeIds : Written(x)' => x \in brief'[saved'[x].sid] \/ Raced(x)'
        /\ \A x \in NodeIds \ {wrk.node} : Written(x)' =>
              /\ Written(x) /\ saved'[x] = saved[x] /\ (Raced(x) => Raced(x)')
    BY <2>1, <2>3, WrittenBrief DEF MinutesInv
  <2>5. saved'[wrk.node].by = "hook"
    BY <2>1, <2>3, WrittenRows
  <2>6. \A x \in NodeIds : saved'[x].by = "trim" /\ Written(x)' =>
              /\ Written(x) /\ saved'[x] = saved[x] /\ (Raced(x) => Raced(x)')
    BY <2>4, <2>5
  <2>. QED  BY <2>1, <2>2, <2>4, <2>6 DEF MinutesInv
<1>3. CASE TrimWrites
  <2>1. trm.pc = "minutes" /\ WriteMinutes(trm) /\ UNCHANGED wrk
    BY <1>3 DEF TrimWrites, TrimSaveBrief, hook
  <2>2. trm'.pc \in {"done", "finally"}
    BY <1>3, WorkerTypes DEF TrimWrites, TrimSaveBrief, TrimGo
  <2>3. /\ trm.node \in NodeIds /\ trm.sid \in Sessions
        /\ saved[trm.node].sid = trm.sid /\ saved[trm.node].by = "trim"
    BY <2>1, WorkerTypes DEF NodeInv
  <2>4. /\ \A x \in NodeIds : Written(x)' => x \in brief'[saved'[x].sid] \/ Raced(x)'
        /\ \A x \in NodeIds \ {trm.node} : Written(x)' =>
              /\ Written(x) /\ saved'[x] = saved[x] /\ (Raced(x) => Raced(x)')
    BY <2>1, <2>3, WrittenBrief DEF MinutesInv
  <2>5. saved'[trm.node].by = "trim"
    BY <2>1, <2>3, WrittenRows
  <2>6. \A x \in NodeIds : saved'[x].by = "hook" /\ Written(x)' =>
              /\ Written(x) /\ saved'[x] = saved[x] /\ (Raced(x) => Raced(x)')
    BY <2>4, <2>5
  <2>. QED  BY <2>1, <2>2, <2>4, <2>6 DEF MinutesInv
<1>. QED  BY <1>1, <1>2, <1>3, MinutesStep

LEMMA MinutesInvariance == Spec => []MinutesInv
<1>1. Init => MinutesInv
  BY DEF Init, Unsaved, IdleWorker, IdleTrim, MinutesInv, Written
<1>. QED  BY <1>1, MinutesInvStep, TypeInvariance, NodeInvariance, PTL DEF Spec

\* The minutes of a node leave the brief only by a brief that the other worker
\* had begun before it read them: alone, neither worker loses any.
THEOREM LostMinutes == Spec => []LostMinutesWereRaced
<1>1. MinutesInv => LostMinutesWereRaced
  BY DEF MinutesInv, LostMinutesWereRaced, Written, Raced
<1>. QED  BY <1>1, MinutesInvariance, PTL
=============================================================================
