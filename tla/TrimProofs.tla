----------------------------- MODULE TrimProofs -----------------------------
(***************************************************************************)
(* Proofs about Trim for any number of sessions, nodes and restarts and any *)
(* set of transcripts.                                                     *)
(***************************************************************************)
EXTENDS Trim, TranscriptProofs

USE BufferAssumption, RestartAssumption, ScriptAssumption, SessionAssumption,
    NoNodeAssumption

\* Buffers hold entries made from their own session's transcript.
Positions ==
  /\ req.n <= Len(script[req.sid])
  /\ \A i \in DOMAIN req.unabsorbed : req.unabsorbed[i] \in 1..req.n
  /\ \A i \in DOMAIN jobs : jobs[i].buffer \subseteq EntriesOf(script[jobs[i].sid])
  /\ wrk.buffer \subseteq EntriesOf(script[wrk.sid])

TypeInv == TypeOK /\ Positions

LEMMA ScriptType ==
  ASSUME TypeOK, NEW s \in Sessions
  PROVE  /\ script[s] \in Seq(Message)
         /\ Len(script[s]) \in 0..MaxLen
         /\ DOMAIN script[s] = 1..Len(script[s])
         /\ \A p \in DOMAIN script[s] : script[s][p] \in Message
         /\ \A e \in EntriesOf(script[s]) : e \subseteq 1..MaxLen
<1>1. script[s] \in Seq(Message) /\ Len(script[s]) <= MaxLen
  BY DEF TypeOK
<1>2. Len(script[s]) \in Nat /\ DOMAIN script[s] = 1..Len(script[s])
  BY <1>1, LenProperties
<1>3. \A e \in EntriesOf(script[s]) : e \subseteq DOMAIN script[s]
  BY DEF EntriesOf
<1>. QED  BY <1>1, <1>2, <1>3, ElementOfSeq

\* The L1 view of a request has no more entries than the request messages.
LEMMA MsgsType ==
  ASSUME TypeInv
  PROVE  /\ req.n \in 0..MaxLen
         /\ DOMAIN Msgs = 1..req.n
         /\ L1Len(Msgs) \in 0..req.n
<1>1. req.n \in 0..MaxLen
  BY DEF TypeInv, TypeOK, Requests
<1>2. DOMAIN Msgs = 1..req.n
  BY DEF Msgs
<1>. QED  BY <1>1, <1>2, L1LenType

LEMMA BundledType ==
  ASSUME TypeInv
  PROVE  /\ Bundled \subseteq EntriesOf(script[req.sid])
         /\ Bundled \subseteq Entries
<1>1. req.unabsorbed \in Seq(1..MaxLen) /\ req.n \in 0..MaxLen /\ req.sid \in Sessions
  BY DEF TypeInv, TypeOK, Requests
<1>2. req.unabsorbed \in Seq(DOMAIN Msgs)
  <2>1. /\ Len(req.unabsorbed) \in Nat
        /\ req.unabsorbed \in [1..Len(req.unabsorbed) -> 1..MaxLen]
    BY <1>1, LenProperties
  <2>2. req.unabsorbed \in [1..Len(req.unabsorbed) -> DOMAIN Msgs]
    BY <2>1, MsgsType DEF TypeInv, Positions
  <2>. DEFINE S == DOMAIN Msgs
  <2>3. \E m \in Nat : req.unabsorbed \in [1..m -> S]
    BY <2>1, <2>2
  <2>. HIDE DEF S
  <2>4. req.unabsorbed \in Seq(S)
    BY <2>3, SeqDef
  <2>. QED  BY <2>4 DEF S
<1>3. Bundled \subseteq EntriesOf(Msgs)
  BY <1>2, BundleAtType DEF Bundled
<1>4. 1..req.n \subseteq DOMAIN script[req.sid] /\ 1..req.n \subseteq 1..MaxLen
  BY <1>1, ScriptType DEF TypeInv, Positions
<1>5. DOMAIN Msgs = 1..req.n /\ \A p \in 1..req.n : Msgs[p] = script[req.sid][p]
  BY DEF Msgs
<1>6. EntriesOf(Msgs) \subseteq EntriesOf(script[req.sid])
  BY <1>4, <1>5 DEF EntriesOf
<1>7. EntriesOf(Msgs) \subseteq Entries
  BY <1>4, <1>5 DEF EntriesOf, Entries
<1>. QED  BY <1>3, <1>6, <1>7

LEMMA IdleTypes == IdleRequest \in Requests /\ IdleWorker \in Workers
<1>1. AnySession \in Sessions
  BY DEF AnySession
<1>2. << >> \in Seq(1..MaxLen)
  BY EmptySeq
<1>. QED  BY <1>1, <1>2 DEF IdleRequest, IdleWorker, Requests, Workers, ReqPcs, WrkPcs

LEMMA InitTyped == Init => TypeInv
<1>. SUFFICES ASSUME Init  PROVE TypeInv
  OBVIOUS
<1>1. TypeOK
  BY IdleTypes, EmptySeq DEF Init, FreshProcess, TypeOK
<1>2. Positions
  <2>1. /\ req.sid \in Sessions /\ req.n = 0 /\ req.unabsorbed = << >>
        /\ wrk.buffer = {} /\ jobs = << >>
    BY <1>1 DEF Init, FreshProcess, IdleRequest, IdleWorker, TypeOK, Requests
  <2>2. Len(script[req.sid]) \in Nat
    BY <1>1, <2>1, ScriptType
  <2>. QED  BY <2>1, <2>2 DEF Positions
<1>. QED  BY <1>1, <1>2 DEF TypeInv

\* The steps of the request path, each as what it does to req.
LEMMA RequestTyped ==
  ASSUME TypeInv,
         \/ \E s \in Sessions : \E n \in DOMAIN script[s] : Receive(s, n)
         \/ RequestStep
  PROVE  TypeInv'
<1>. USE DEF registry, pair, flags, store
<1>1. req \in Requests /\ req.sid \in Sessions /\ req.n \in 0..MaxLen
  BY DEF TypeInv, TypeOK, Requests
<1>2. ASSUME NEW s \in Sessions, NEW n \in DOMAIN script[s], Receive(s, n)
      PROVE  TypeInv'
  <2>1. n \in 1..MaxLen /\ n <= Len(script[s])
    BY ScriptType DEF TypeInv
  <2>2. req' \in Requests
    <3>1. req' = [IdleRequest EXCEPT !.pc = "scan", !.sid = s, !.n = n]
      BY <1>2 DEF Receive
    <3>2. n \in 0..MaxLen
      BY <2>1
    <3>. HIDE DEF Receive
    <3>. QED  BY <3>1, <3>2, IdleTypes DEF Requests, ReqPcs
  <2>3. req'.n = n /\ req'.sid = s /\ req'.unabsorbed = << >>
    BY <1>2 DEF Receive, IdleRequest
  <2>4. TypeOK'
    BY <1>2, <2>2 DEF Receive, TypeInv, TypeOK
  <2>5. Positions'
    <3>1. DOMAIN req'.unabsorbed = {}
      BY <2>3
    <3>2. UNCHANGED <<script, jobs, wrk>>
      BY <1>2 DEF Receive
    <3>. QED  BY <2>1, <2>3, <3>1, <3>2 DEF TypeInv, Positions
  <2>. QED  BY <2>4, <2>5 DEF TypeInv
<1>3. CASE ScanUnabsorbed
  <2>1. req.k \in 1..req.n
    BY <1>1, <1>3, MsgsType DEF ScanUnabsorbed, Requests
  <2>2. Append(req.unabsorbed, req.k) \in Seq(1..MaxLen)
    BY <1>1, <2>1, AppendProperties DEF Requests
  <2>3. req' \in Requests
    <3>1. req.k + 1 \in 1..(MaxLen + 1)
      BY <1>1, <2>1
    <3>2. \/ req' = [req EXCEPT !.k = req.k + 1, !.unabsorbed = req.unabsorbed]
          \/ req' = [req EXCEPT !.k = req.k + 1,
                                !.unabsorbed = Append(req.unabsorbed, req.k)]
      BY <1>1, <1>3 DEF ScanUnabsorbed, Requests
    <3>. QED  BY <1>1, <2>2, <3>1, <3>2 DEF Requests
  <2>4. req'.n = req.n /\ req'.sid = req.sid
    BY <1>1, <1>3 DEF ScanUnabsorbed, Requests
  <2>5. \A i \in DOMAIN req'.unabsorbed : req'.unabsorbed[i] \in 1..req.n
    <3>1. CASE req'.unabsorbed = req.unabsorbed
      BY <3>1 DEF TypeInv, Positions
    <3>2. CASE req'.unabsorbed = Append(req.unabsorbed, req.k)
      BY <1>1, <2>1, <3>2, AppendProperties, LenProperties DEF TypeInv, Positions, Requests
    <3>. QED  BY <1>1, <1>3, <3>1, <3>2 DEF ScanUnabsorbed, Requests
  <2>. QED  BY <1>3, <2>3, <2>4, <2>5 DEF ScanUnabsorbed, TypeInv, TypeOK, Positions
<1>4. CASE ScanKept
  <2>1. req.k \in 1..req.n
    BY <1>1, <1>4, MsgsType DEF ScanKept, Requests
  <2>2. Append(req.kept, req.k) \in Seq(1..MaxLen)
    BY <1>1, <2>1, AppendProperties DEF Requests
  <2>3. req' \in Requests
    <3>1. req.k + 1 \in 1..(MaxLen + 1)
      BY <1>1, <2>1
    <3>2. \/ req' = [req EXCEPT !.k = req.k + 1, !.kept = req.kept]
          \/ req' = [req EXCEPT !.k = req.k + 1,
                                !.kept = Append(req.kept, req.k)]
      BY <1>1, <1>4 DEF ScanKept, Requests
    <3>. QED  BY <1>1, <2>2, <3>1, <3>2 DEF Requests
  <2>4. req'.n = req.n /\ req'.sid = req.sid /\ req'.unabsorbed = req.unabsorbed
    BY <1>1, <1>4 DEF ScanKept, Requests
  <2>. QED  BY <1>4, <2>3, <2>4 DEF ScanKept, TypeInv, TypeOK, Positions
<1>5. CASE ReadPair
  <2>1. [p \in 1..req.n |-> p] \in [1..req.n -> 1..MaxLen]
    BY <1>1
  <2>2. [p \in 1..req.n |-> p] \in Seq(1..MaxLen)
    BY <1>1, <2>1, SeqDef
  <2>3. req' \in Requests
    BY <1>1, <1>5, <2>2 DEF ReadPair, Requests, ReqPcs
  <2>4. req'.n = req.n /\ req'.sid = req.sid /\ req'.unabsorbed = req.unabsorbed
    BY <1>1, <1>5 DEF ReadPair, Requests
  <2>. QED  BY <1>5, <2>3, <2>4 DEF ReadPair, TypeInv, TypeOK, Positions
<1>6. CASE PutJob
  <2>. DEFINE job == [sid |-> req.sid, buffer |-> Bundled]
  <2>1. job \in Jobs
    BY <1>1, BundledType DEF Jobs
  <2>2. jobs \in Seq(Jobs)
    BY DEF TypeInv, TypeOK
  <2>3. jobs' \in Seq(Jobs)
    BY <1>6, <2>1, <2>2, AppendProperties DEF PutJob
  <2>4. \A i \in DOMAIN jobs' : jobs'[i] = job \/ (i \in DOMAIN jobs /\ jobs'[i] = jobs[i])
    <3>. HIDE DEF job
    <3>1. jobs' = Append(jobs, job)
      BY <1>6 DEF PutJob, job
    <3>. QED  BY <2>1, <2>2, <3>1, AppendProperties, LenProperties
  <2>5. /\ req' \in Requests /\ req'.n = req.n /\ req'.sid = req.sid
        /\ req'.unabsorbed = req.unabsorbed
    BY <1>1, <1>6 DEF PutJob, Requests, ReqPcs
  <2>6. job.sid = req.sid /\ job.buffer \subseteq EntriesOf(script[req.sid])
             /\ job.buffer \subseteq Entries
    BY BundledType
  <2>. HIDE DEF job
  <2>. QED  BY <1>6, <2>3, <2>4, <2>5, <2>6 DEF PutJob, TypeInv, TypeOK, Positions
<1>7. CASE EndScan \/ ReadInFlight \/ ReadQueued \/ EndKept \/ InjectPair
  <2>1. req' \in Requests
    <3>1. summaryUser[req.sid] \in NodeIds \cup {NoNode}
      BY <1>1 DEF TypeInv, TypeOK
    <3>2. CASE EndScan
      <4>1. 1 \in 1..(MaxLen + 1)
        OBVIOUS
      <4>2. \E pc \in ReqPcs : req' = [req EXCEPT !.pc = pc, !.k = 1]
        BY <3>2 DEF EndScan, ReqPcs
      <4>. QED  BY <1>1, <4>1, <4>2 DEF Requests
    <3>3. CASE InjectPair
      BY <1>1, <3>1, <3>3 DEF InjectPair, Requests, ReqPcs
    <3>4. CASE ReadInFlight \/ ReadQueued \/ EndKept
      BY <1>1, <3>4 DEF ReadInFlight, ReadQueued, EndKept, Requests, ReqPcs
    <3>. QED  BY <1>7, <3>2, <3>3, <3>4
  <2>2. req'.n = req.n /\ req'.sid = req.sid /\ req'.unabsorbed = req.unabsorbed
    BY <1>1, <1>7 DEF EndScan, ReadInFlight, ReadQueued, EndKept, InjectPair, Requests
  <2>. QED  BY <1>7, <2>1, <2>2 DEF EndScan, ReadInFlight, ReadQueued, EndKept, InjectPair,
            TypeInv, TypeOK, Positions
<1>8. CASE MarkSensorQueued
  <2>1. /\ req' \in Requests /\ req'.n = req.n /\ req'.sid = req.sid
        /\ req'.unabsorbed = req.unabsorbed
    BY <1>1, <1>8 DEF MarkSensorQueued, Requests, ReqPcs
  <2>. QED  BY <1>8, <2>1 DEF MarkSensorQueued, TypeInv, TypeOK, Positions
<1>9. CASE Forward
  <2>1. req' \in Requests /\ req'.n = 0 /\ req'.unabsorbed = << >> /\ req'.sid \in Sessions
    BY <1>9, IdleTypes DEF Forward, IdleRequest, Requests
  <2>2. Len(script[req'.sid]) \in Nat
    BY <2>1, ScriptType DEF TypeInv
  <2>. QED  BY <1>9, <2>1, <2>2 DEF Forward, TypeInv, TypeOK, Positions
<1>. QED  BY <1>2, <1>3, <1>4, <1>5, <1>6, <1>7, <1>8, <1>9 DEF RequestStep

\* The steps of the worker.
LEMMA WorkerTyped ==
  ASSUME TypeInv, WorkerStep
  PROVE  TypeInv'
<1>. USE DEF registry, pair, flags, store
<1>1. wrk \in Workers /\ wrk.sid \in Sessions /\ wrk.buffer \subseteq Entries
  BY DEF TypeInv, TypeOK, Workers
<1>2. CASE TakeJob
  <2>1. jobs \in Seq(Jobs) /\ jobs # << >>
    BY <1>2 DEF TypeInv, TypeOK, TakeJob
  <2>2. /\ Head(jobs) \in Jobs /\ Head(jobs) = jobs[1] /\ 1 \in DOMAIN jobs
        /\ jobs' \in Seq(Jobs)
        /\ \A i \in DOMAIN jobs' : i + 1 \in DOMAIN jobs /\ jobs'[i] = jobs[i + 1]
    BY <1>2, <2>1, HeadTailProperties, LenProperties, EmptySeq DEF TakeJob
  <2>3. /\ wrk' \in Workers
        /\ wrk'.sid = Head(jobs).sid /\ wrk'.buffer = Head(jobs).buffer
    BY <1>2, <2>2, IdleTypes DEF TakeJob, IdleWorker, Workers, WrkPcs, Jobs
  <2>4. TypeOK'
    BY <1>2, <2>2, <2>3 DEF TakeJob, TypeInv, TypeOK
  <2>5. UNCHANGED <<script, req>>
    BY <1>2 DEF TakeJob
  <2>6. Positions'
    BY <2>2, <2>3, <2>5 DEF TypeInv, Positions
  <2>. QED  BY <2>4, <2>6 DEF TypeInv
<1>3. CASE MarkSensorPickup
  <2>1. wrk' \in Workers /\ (wrk' = IdleWorker \/ (wrk'.sid = wrk.sid /\ wrk'.buffer = wrk.buffer))
    BY <1>1, <1>3, IdleTypes DEF MarkSensorPickup, Workers, WrkPcs
  <2>. QED  BY <1>3, <2>1 DEF MarkSensorPickup, IdleWorker, TypeInv, TypeOK, Positions
<1>4. CASE Finally
  <2>1. wrk' \in Workers /\ wrk'.buffer = {}
    BY <1>4, IdleTypes DEF Finally, IdleWorker
  <2>. QED  BY <1>4, <2>1 DEF Finally, TypeInv, TypeOK, Positions
<1>5. CASE CompactSucceeds
  <2>1. wrk' \in Workers /\ wrk'.sid = wrk.sid /\ wrk'.buffer = wrk.buffer
    BY <1>1, <1>5 DEF CompactSucceeds, Workers, WrkPcs
  <2>. QED  BY <1>5, <2>1 DEF CompactSucceeds, TypeInv, TypeOK, Positions
<1>6. CASE \/ SenseTrips \/ SenseMaintains \/ SenseRaises \/ CompactFails
           \/ LinkAndSynthesize \/ SynthesisRaises
  <2>1. wrk' \in Workers /\ wrk'.sid = wrk.sid /\ wrk'.buffer = wrk.buffer
    BY <1>1, <1>6 DEF SenseTrips, SenseMaintains, SenseRaises, CompactFails,
       LinkAndSynthesize, SynthesisRaises, Workers, WrkPcs
  <2>2. UNCHANGED <<script, registry, jobs, req, store, restarts>>
    BY <1>6 DEF SenseTrips, SenseMaintains, SenseRaises, CompactFails,
       LinkAndSynthesize, SynthesisRaises
  <2>. QED  BY <2>1, <2>2 DEF TypeInv, TypeOK, Positions
<1>7. CASE \/ MarkCompactStart \/ SaveNode \/ SaveRawTurns \/ DoneInFlight
           \/ DoneAbsorb \/ DoneSummaryUser \/ DoneSummaryAsst
  <2>1. wrk' \in Workers /\ wrk'.sid = wrk.sid /\ wrk'.buffer = wrk.buffer
    BY <1>1, <1>7 DEF MarkCompactStart, SaveNode, SaveRawTurns, DoneInFlight,
       DoneAbsorb, DoneSummaryUser, DoneSummaryAsst, Workers, WrkPcs
  <2>2. UNCHANGED <<script, jobs, req, restarts>>
    BY <1>7 DEF MarkCompactStart, SaveNode, SaveRawTurns, DoneInFlight,
       DoneAbsorb, DoneSummaryUser, DoneSummaryAsst
  <2>3. Positions'
    BY <2>1, <2>2 DEF TypeInv, Positions
  <2>4. FpsOf(script[wrk.sid], UNION wrk.buffer) \subseteq Fps
    <3>1. script[wrk.sid] \in [DOMAIN script[wrk.sid] -> Message]
      BY <1>1, ScriptType, LenProperties DEF TypeInv
    <3>2. \A p \in DOMAIN script[wrk.sid] : script[wrk.sid][p].fp \in Fps
      BY <3>1 DEF Message
    <3>3. \A e \in wrk.buffer : e \subseteq DOMAIN script[wrk.sid]
      BY DEF TypeInv, Positions, EntriesOf
    <3>. QED  BY <3>2, <3>3 DEF FpsOf
  <2>5. CASE DoneAbsorb
    BY <1>1, <2>1, <2>2, <2>3, <2>4, <2>5 DEF DoneAbsorb, TypeInv, TypeOK
  <2>6. CASE MarkCompactStart \/ SaveNode \/ DoneInFlight
    BY <1>1, <2>1, <2>2, <2>3, <2>6
       DEF MarkCompactStart, SaveNode, DoneInFlight, TypeInv, TypeOK
  <2>8. CASE SaveRawTurns
    <3>. DEFINE turns == RawTurns(script[wrk.sid], wrk.buffer)
    <3>1. UNION wrk.buffer \subseteq 1..MaxLen
      BY <1>1 DEF Entries
    <3>2. turns \subseteq (1..MaxLen) \X Parts
      BY <3>1, RawTurnsType
    <3>3. raw' = [raw EXCEPT ![wrk.node] = turns] /\ UNCHANGED <<registry, owner>>
      BY <2>8 DEF SaveRawTurns
    <3>. HIDE DEF turns
    <3>. QED  BY <2>1, <2>2, <2>3, <3>2, <3>3 DEF TypeInv, TypeOK
  <2>7. CASE DoneSummaryUser \/ DoneSummaryAsst
    <3>1. wrk.node \in NodeIds \cup {NoNode}
      BY <1>1 DEF Workers
    <3>. QED  BY <2>1, <2>2, <2>3, <2>7, <3>1
         DEF DoneSummaryUser, DoneSummaryAsst, TypeInv, TypeOK
  <2>. QED  BY <1>7, <2>5, <2>6, <2>7, <2>8
<1>. QED  BY <1>2, <1>3, <1>4, <1>5, <1>6, <1>7 DEF WorkerStep

LEMMA RestartTyped ==
  ASSUME TypeInv, Restart
  PROVE  TypeInv'
<1>1. restarts' \in 0..MaxRestarts
  BY DEF Restart, TypeInv, TypeOK
<1>2. TypeOK'
  BY <1>1, IdleTypes, EmptySeq DEF Restart, FreshProcess, store, TypeInv, TypeOK
<1>3. /\ req'.sid \in Sessions /\ req'.n = 0 /\ req'.unabsorbed = << >>
      /\ wrk'.buffer = {} /\ jobs' = << >> /\ script' = script
  BY <1>2 DEF Restart, FreshProcess, IdleRequest, IdleWorker, TypeOK, Requests
<1>4. Len(script[req'.sid]) \in Nat
  BY <1>3, ScriptType DEF TypeInv
<1>5. Positions'
  BY <1>3, <1>4 DEF Positions
<1>. QED  BY <1>2, <1>5 DEF TypeInv

LEMMA StutterTyped ==
  ASSUME TypeInv, UNCHANGED vars
  PROVE  TypeInv'
BY DEF TypeInv, TypeOK, Positions, vars, registry, pair, flags, store

LEMMA TypeInvariance == Spec => []TypeInv
<1>1. TypeInv /\ [Next]_vars => TypeInv'
  BY RequestTyped, WorkerTyped, RestartTyped, StutterTyped DEF Next
<1>. QED  BY InitTyped, <1>1, PTL DEF Spec

\* Every variable keeps its type, and buffers and requests only ever name
\* positions of their own session's transcript.
THEOREM TypeCorrect == Spec => []TypeOK
BY TypeInvariance, PTL DEF TypeInv

-----------------------------------------------------------------------------
(* The two flags.                                                          *)

\* A session's check is in one place at a time: about to be put, in the queue,
\* or just taken from it.  Without this the flag could be cleared for one
\* check while another is still queued.
OnePlace ==
  /\ req.pc = "mark" => ~sensorQueued[req.sid]
  /\ req.pc = "put" => /\ \A i \in DOMAIN jobs : jobs[i].sid # req.sid
                       /\ ~(wrk.pc = "pickup" /\ wrk.sid = req.sid)
  /\ wrk.pc = "pickup" => \A i \in DOMAIN jobs : jobs[i].sid # wrk.sid

FlagInv == SensorFlagExact /\ OneCheckPerSession /\ InFlightExact /\ OnePlace

LEMMA InitFlags == Init => FlagInv
BY DEF Init, FreshProcess, IdleRequest, IdleWorker, FlagInv, SensorFlagExact,
   OneCheckPerSession, InFlightExact, Compacting, OnePlace

LEMMA RequestFlags ==
  ASSUME TypeInv, FlagInv,
         \/ \E s \in Sessions : \E n \in DOMAIN script[s] : Receive(s, n)
         \/ RequestStep
  PROVE  FlagInv'
<1>. USE DEF registry, pair, flags, store
<1>1. /\ req \in Requests /\ req.sid \in Sessions /\ wrk \in Workers
      /\ sensorQueued \in [Sessions -> BOOLEAN] /\ jobs \in Seq(Jobs)
  BY DEF TypeInv, TypeOK, Requests
<1>2. CASE MarkSensorQueued
  <2>1. /\ sensorQueued' = [sensorQueued EXCEPT ![req.sid] = TRUE]
        /\ req'.pc = "put" /\ req'.sid = req.sid /\ req.pc = "mark"
        /\ UNCHANGED <<inFlight, jobs, wrk>>
    BY <1>1, <1>2 DEF MarkSensorQueued, Requests
  <2>2. /\ \A i \in DOMAIN jobs : jobs[i].sid # req.sid
        /\ ~(wrk.pc = "pickup" /\ wrk.sid = req.sid)
    BY <1>1, <2>1 DEF FlagInv, OnePlace, SensorFlagExact
  <2>3. SensorFlagExact'
    BY <1>1, <2>1 DEF FlagInv, SensorFlagExact
  <2>4. InFlightExact' /\ OneCheckPerSession'
    BY <2>1 DEF FlagInv, InFlightExact, OneCheckPerSession, Compacting
  <2>5. OnePlace'
    BY <2>1, <2>2 DEF FlagInv, OnePlace
  <2>. QED  BY <2>3, <2>4, <2>5 DEF FlagInv
<1>3. CASE PutJob
  <2>. DEFINE job == [sid |-> req.sid, buffer |-> Bundled]
  <2>1. /\ jobs' = Append(jobs, job) /\ req.pc = "put" /\ req'.pc = "pair"
        /\ UNCHANGED <<sensorQueued, inFlight, wrk>>
    BY <1>1, <1>3 DEF PutJob, Requests
  <2>2. job \in Jobs /\ job.sid = req.sid
    BY <1>1, BundledType DEF Jobs
  <2>. HIDE DEF job
  <2>3. /\ Len(jobs) \in Nat
        /\ DOMAIN jobs = 1..Len(jobs) /\ DOMAIN jobs' = 1..(Len(jobs) + 1)
        /\ \A i \in DOMAIN jobs : jobs'[i] = jobs[i]
        /\ jobs'[Len(jobs) + 1] = job
    BY <1>1, <2>1, <2>2, AppendProperties, LenProperties
  <2>4. \A i \in DOMAIN jobs' : i \in DOMAIN jobs \/ i = Len(jobs) + 1
    BY <2>3
  <2>5. \A s \in Sessions : (\E i \in DOMAIN jobs' : jobs'[i].sid = s)
                         <=> (\E i \in DOMAIN jobs : jobs[i].sid = s) \/ s = req.sid
    BY <2>2, <2>3, <2>4
  <2>6. SensorFlagExact'
    BY <1>1, <2>1, <2>5 DEF FlagInv, SensorFlagExact
  <2>7. OneCheckPerSession'
    BY <2>1, <2>2, <2>3, <2>4 DEF FlagInv, OneCheckPerSession, OnePlace
  <2>8. InFlightExact'
    BY <2>1 DEF FlagInv, InFlightExact, Compacting
  <2>9. OnePlace'
    BY <2>1, <2>2, <2>3, <2>4 DEF FlagInv, OnePlace
  <2>. QED  BY <2>6, <2>7, <2>8, <2>9 DEF FlagInv
<1>4. CASE ReadQueued
  <2>1. /\ UNCHANGED <<sensorQueued, inFlight, jobs, wrk>>
        /\ req'.sid = req.sid /\ req.pc = "queued"
        /\ req'.pc = IF sensorQueued[req.sid] THEN "pair" ELSE "mark"
    BY <1>1, <1>4 DEF ReadQueued, Requests
  <2>. QED  BY <2>1 DEF FlagInv, SensorFlagExact, OneCheckPerSession, InFlightExact,
            Compacting, OnePlace
<1>5. CASE \/ \E s \in Sessions : \E n \in DOMAIN script[s] : Receive(s, n)
           \/ ScanUnabsorbed \/ EndScan \/ ReadInFlight \/ ReadPair
           \/ ScanKept \/ EndKept \/ InjectPair \/ Forward
  <2>1. UNCHANGED <<sensorQueued, inFlight, jobs, wrk>>
    BY <1>5 DEF Receive, ScanUnabsorbed, EndScan, ReadInFlight, ReadPair, ScanKept,
       EndKept, InjectPair, Forward
  <2>2. req.pc \notin {"mark", "put"} /\ req'.pc \notin {"mark", "put"}
    <3>1. ASSUME NEW s \in Sessions, NEW n \in DOMAIN script[s], Receive(s, n)
          PROVE  req.pc = "idle" /\ req'.pc = "scan"
      BY <3>1 DEF Receive, IdleRequest
    <3>2. CASE ScanUnabsorbed \/ EndScan \/ ReadInFlight
      BY <1>1, <3>2 DEF ScanUnabsorbed, EndScan, ReadInFlight, Requests
    <3>3. CASE ReadPair \/ ScanKept \/ EndKept
      BY <1>1, <3>3 DEF ReadPair, ScanKept, EndKept, Requests
    <3>4. CASE InjectPair
      BY <1>1, <3>4 DEF InjectPair, Requests
    <3>5. CASE Forward
      BY <3>5 DEF Forward, IdleRequest
    <3>. QED  BY <1>5, <3>1, <3>2, <3>3, <3>4, <3>5
  <2>. QED  BY <2>1, <2>2 DEF FlagInv, SensorFlagExact, OneCheckPerSession,
            InFlightExact, Compacting, OnePlace
<1>. QED  BY <1>2, <1>3, <1>4, <1>5 DEF RequestStep

LEMMA WorkerFlags ==
  ASSUME TypeInv, FlagInv, WorkerStep
  PROVE  FlagInv'
<1>. USE DEF registry, pair, flags, store
<1>1. /\ wrk \in Workers /\ wrk.sid \in Sessions /\ jobs \in Seq(Jobs)
      /\ sensorQueued \in [Sessions -> BOOLEAN] /\ inFlight \in [Sessions -> BOOLEAN]
  BY DEF TypeInv, TypeOK, Workers
<1>2. CASE TakeJob
  <2>1. jobs # << >>
    BY <1>2 DEF TakeJob
  <2>2. /\ 1 \in DOMAIN jobs /\ Head(jobs) = jobs[1]
        /\ \A i \in DOMAIN jobs' : /\ i # 0 /\ i + 1 # 1 /\ i + 1 \in DOMAIN jobs
                                   /\ jobs'[i] = jobs[i + 1]
        /\ \A i \in DOMAIN jobs : i # 1 => i - 1 \in DOMAIN jobs' /\ jobs'[i - 1] = jobs[i]
        /\ \A i, j \in DOMAIN jobs' : i + 1 = j + 1 => i = j
    BY <1>1, <1>2, <2>1, HeadTailProperties, LenProperties, EmptySeq DEF TakeJob
  <2>3. /\ wrk'.pc = "pickup" /\ wrk'.sid = jobs[1].sid /\ wrk.pc = "idle"
        /\ UNCHANGED <<sensorQueued, inFlight, req>>
    BY <1>2, <2>2 DEF TakeJob, IdleWorker
  <2>4. \A s \in Sessions : (\E i \in DOMAIN jobs : jobs[i].sid = s)
                         <=> (\E i \in DOMAIN jobs' : jobs'[i].sid = s) \/ s = jobs[1].sid
    BY <2>2
  <2>5. SensorFlagExact'
    BY <2>3, <2>4 DEF FlagInv, SensorFlagExact
  <2>6. OneCheckPerSession'
    BY <2>2 DEF FlagInv, OneCheckPerSession
  <2>7. InFlightExact'
    BY <2>3 DEF FlagInv, InFlightExact, Compacting
  <2>8. \A i \in DOMAIN jobs' : jobs'[i].sid # wrk'.sid
    BY <2>2, <2>3 DEF FlagInv, OneCheckPerSession
  <2>9. OnePlace'
    BY <2>2, <2>3, <2>8 DEF FlagInv, OnePlace
  <2>. QED  BY <2>5, <2>6, <2>7, <2>9 DEF FlagInv
<1>3. CASE MarkSensorPickup
  <2>1. /\ sensorQueued' = [sensorQueued EXCEPT ![wrk.sid] = FALSE]
        /\ wrk.pc = "pickup" /\ wrk'.pc \in {"idle", "start"}
        /\ UNCHANGED <<inFlight, jobs, req>>
    BY <1>1, <1>3 DEF MarkSensorPickup, IdleWorker, Workers
  <2>2. SensorFlagExact'
    BY <1>1, <2>1 DEF FlagInv, SensorFlagExact, OnePlace
  <2>3. InFlightExact' /\ OneCheckPerSession'
    BY <2>1 DEF FlagInv, InFlightExact, OneCheckPerSession, Compacting
  <2>4. OnePlace'
    BY <1>1, <2>1 DEF FlagInv, OnePlace
  <2>. QED  BY <2>2, <2>3, <2>4 DEF FlagInv
<1>4. CASE MarkCompactStart \/ DoneInFlight \/ Finally
  <2>1. /\ UNCHANGED <<sensorQueued, jobs, req>>
        /\ wrk.pc \in {"start", "done1", "finally"} /\ wrk'.pc \in {"sense", "done2", "idle"}
    BY <1>1, <1>4 DEF MarkCompactStart, DoneInFlight, Finally, IdleWorker, Workers
  <2>2. SensorFlagExact' /\ OneCheckPerSession' /\ OnePlace'
    BY <2>1 DEF FlagInv, SensorFlagExact, OneCheckPerSession, OnePlace
  <2>3. \/ /\ wrk.pc = "start" /\ wrk'.pc = "sense" /\ wrk'.sid = wrk.sid
           /\ inFlight' = [inFlight EXCEPT ![wrk.sid] = TRUE]
        \/ /\ wrk.pc \in {"done1", "finally"} /\ wrk'.pc \in {"done2", "idle"}
           /\ inFlight' = [inFlight EXCEPT ![wrk.sid] = FALSE]
    BY <1>1, <1>4 DEF MarkCompactStart, DoneInFlight, Finally, IdleWorker, Workers
  <2>4. InFlightExact'
    BY <1>1, <2>3 DEF FlagInv, InFlightExact, Compacting
  <2>. QED  BY <2>2, <2>4 DEF FlagInv
<1>5. CASE \/ SenseTrips \/ SenseMaintains \/ SenseRaises \/ CompactSucceeds
           \/ CompactFails \/ SaveNode \/ SaveRawTurns \/ LinkAndSynthesize
           \/ SynthesisRaises
  <2>1. UNCHANGED <<sensorQueued, inFlight, jobs, req>>
    BY <1>5 DEF SenseTrips, SenseMaintains, SenseRaises, CompactSucceeds, CompactFails,
       SaveNode, SaveRawTurns, LinkAndSynthesize, SynthesisRaises
  <2>2. /\ wrk.pc \in {"sense", "compact", "save", "raw", "link"}
        /\ wrk'.pc \in {"compact", "save", "raw", "link", "done1", "finally"}
        /\ wrk'.sid = wrk.sid
    BY <1>1, <1>5 DEF SenseTrips, SenseMaintains, SenseRaises, CompactSucceeds,
       CompactFails, SaveNode, SaveRawTurns, LinkAndSynthesize, SynthesisRaises, Workers
  <2>. QED  BY <2>1, <2>2 DEF FlagInv, SensorFlagExact, OneCheckPerSession,
            InFlightExact, Compacting, OnePlace
<1>6. CASE DoneAbsorb \/ DoneSummaryUser \/ DoneSummaryAsst
  <2>1. /\ UNCHANGED <<sensorQueued, inFlight, jobs, req>>
        /\ wrk.pc \in {"done2", "done3", "done4"}
        /\ wrk'.pc \in {"done3", "done4", "finally"} /\ wrk'.sid = wrk.sid
    BY <1>1, <1>6 DEF DoneAbsorb, DoneSummaryUser, DoneSummaryAsst, Workers
  <2>. QED  BY <2>1 DEF FlagInv, SensorFlagExact, OneCheckPerSession,
            InFlightExact, Compacting, OnePlace
<1>. QED  BY <1>2, <1>3, <1>4, <1>5, <1>6 DEF WorkerStep

LEMMA RestartFlags == ASSUME Restart  PROVE FlagInv'
BY DEF Restart, FreshProcess, IdleRequest, IdleWorker, FlagInv, SensorFlagExact,
   OneCheckPerSession, InFlightExact, Compacting, OnePlace

LEMMA FlagInvariance == Spec => []FlagInv
<1>1. FlagInv /\ UNCHANGED vars => FlagInv'
  BY DEF vars, registry, pair, flags, store, FlagInv, SensorFlagExact,
     OneCheckPerSession, InFlightExact, Compacting, OnePlace
<1>2. TypeInv /\ FlagInv /\ [Next]_vars => FlagInv'
  BY <1>1, RequestFlags, WorkerFlags, RestartFlags DEF Next
<1>. QED  BY InitFlags, TypeInvariance, <1>2, PTL DEF Spec

\* sensor_queued says exactly whether a check is on its way to the worker.
THEOREM SensorFlag == Spec => []SensorFlagExact
BY FlagInvariance, PTL DEF FlagInv

\* The job queue never holds two checks of one session.
THEOREM OneCheck == Spec => []OneCheckPerSession
BY FlagInvariance, PTL DEF FlagInv

\* compact_in_flight says whether the worker is compacting the session.
THEOREM InFlight == Spec => []InFlightExact
BY FlagInvariance, PTL DEF FlagInv

-----------------------------------------------------------------------------
(* Masked turns are stored turns.                                          *)

\* What the worker knows of its node at each step; rows are written once.
NodeInv ==
  /\ \A x \in NodeIds : raw[x] # {} => owner[x] \in Sessions
  /\ wrk.pc = "save" => wrk.node \in NodeIds /\ owner[wrk.node] = NoNode
  /\ wrk.pc = "raw" => /\ wrk.node \in NodeIds /\ owner[wrk.node] = wrk.sid
                       /\ raw[wrk.node] = {}
  /\ wrk.pc \in {"link", "done1", "done2", "done3", "done4"} =>
       /\ wrk.node \in NodeIds /\ owner[wrk.node] = wrk.sid
       /\ raw[wrk.node] = RawTurns(script[wrk.sid], wrk.buffer)

StoreInv == MaskedIsStored /\ NodeInv

\* A message is stored when what any rendering keeps of it is in some node's rows.
LEMMA StoredMember ==
  ASSUME TypeOK, NEW s \in Sessions, NEW p
  PROVE  p \in StoredPositions(s) <=>
           /\ p \in DOMAIN script[s] /\ HasText(script[s][p])
           /\ \A part \in Kept(script[s][p]) :
                \E x \in NodeIds : owner[x] = s /\ <<p, part>> \in raw[x]
<1>1. p \in DOMAIN script[s] /\ HasText(script[s][p]) => Kept(script[s][p]) \subseteq Parts
  BY ScriptType DEF Message, Kept, Parts
<1>. QED  BY <1>1 DEF StoredPositions, Holds

\* The turns of a node whose rows hold a buffer are stored turns, and there are
\* rows if there are turns.
LEMMA BufferIsStored ==
  ASSUME TypeOK, NEW s \in Sessions, NEW buffer \in SUBSET EntriesOf(script[s]),
         NEW x \in NodeIds, owner[x] = s, raw[x] = RawTurns(script[s], buffer)
  PROVE  /\ UNION buffer \subseteq StoredPositions(s)
         /\ buffer # {} => raw[x] # {}
<1>1. \A p \in DOMAIN script[s] : script[s][p] \in Message
  BY ScriptType
<1>2. ASSUME NEW p \in UNION buffer
      PROVE  /\ p \in DOMAIN script[s] /\ HasText(script[s][p])
             /\ Kept(script[s][p]) # {}
             /\ \A part \in Kept(script[s][p]) : <<p, part>> \in raw[x]
  BY <1>1, RawTurnsHold
<1>3. ASSUME NEW p \in UNION buffer  PROVE p \in StoredPositions(s)
  BY <1>2, StoredMember
<1>4. ASSUME buffer # {}  PROVE raw[x] # {}
  <2>1. PICK p : p \in UNION buffer
    BY <1>4 DEF EntriesOf
  <2>2. PICK part : part \in Kept(script[s][p])
    BY <1>2, <2>1
  <2>. QED  BY <1>2, <2>1, <2>2
<1>. QED  BY <1>3, <1>4

LEMMA InitStore == Init => StoreInv
BY DEF Init, FreshProcess, IdleWorker, StoreInv, MaskedIsStored, NodeInv, FpsOf

LEMMA SameStore ==
  ASSUME StoreInv, UNCHANGED <<script, absorbed, owner, raw>>
  PROVE  /\ MaskedIsStored'
         /\ \A s \in Sessions : StoredPositions(s)' = StoredPositions(s)
<1>1. \A s \in Sessions : StoredPositions(s)' = StoredPositions(s)
  BY DEF StoredPositions, Holds
<1>2. \A s \in Sessions :
        absorbed'[s] \subseteq FpsOf(script'[s], StoredPositions(s)')
  BY <1>1 DEF StoreInv, MaskedIsStored
<1>. QED  BY <1>1, <1>2 DEF MaskedIsStored

LEMMA StoreKept ==
  ASSUME StoreInv, UNCHANGED <<script, absorbed, store, wrk>>
  PROVE  StoreInv'
<1>1. MaskedIsStored'
  BY SameStore DEF store
<1>2. NodeInv'
  BY DEF StoreInv, NodeInv, store
<1>. QED  BY <1>1, <1>2 DEF StoreInv

LEMMA RequestKeepsStore ==
  ASSUME \/ \E s \in Sessions : \E n \in DOMAIN script[s] : Receive(s, n)
         \/ RequestStep
  PROVE  UNCHANGED <<script, absorbed, pair, store, wrk>>
BY DEF Receive, RequestStep, ScanUnabsorbed, EndScan, ReadInFlight, ReadQueued,
   MarkSensorQueued, PutJob, ReadPair, ScanKept, EndKept, InjectPair, Forward,
   registry, pair, flags, store

LEMMA WorkerStore ==
  ASSUME TypeInv, StoreInv, WorkerStep
  PROVE  /\ StoreInv'
         /\ \A s \in Sessions : StoredPositions(s) \subseteq StoredPositions(s)'
<1>. USE DEF registry, pair, flags, store
<1>. DEFINE Grown == \A s \in Sessions : StoredPositions(s) \subseteq StoredPositions(s)'
<1>1. /\ wrk \in Workers /\ wrk.sid \in Sessions
      /\ absorbed \in [Sessions -> SUBSET Fps]
      /\ owner \in [NodeIds -> Sessions \cup {NoNode}]
      /\ raw \in [NodeIds -> SUBSET ((1..MaxLen) \X Parts)]
      /\ wrk.buffer \subseteq EntriesOf(script[wrk.sid]) /\ TypeOK
  BY DEF TypeInv, TypeOK, Workers, Positions
<1>2. CASE SaveNode
  <2>1. /\ wrk.pc = "save" /\ wrk'.pc = "raw" /\ wrk'.sid = wrk.sid /\ wrk'.node = wrk.node
        /\ owner' = [owner EXCEPT ![wrk.node] = wrk.sid]
        /\ UNCHANGED <<script, absorbed, raw>>
    BY <1>1, <1>2 DEF SaveNode, Workers
  <2>2. wrk.node \in NodeIds /\ owner[wrk.node] = NoNode /\ raw[wrk.node] = {}
    BY <2>1 DEF StoreInv, NodeInv
  <2>3. Grown
    BY <1>1, <2>1, <2>2 DEF StoredPositions, Holds
  <2>4. MaskedIsStored'
    BY <2>1, <2>3 DEF StoreInv, MaskedIsStored, FpsOf
  <2>5. NodeInv'
    BY <1>1, <2>1, <2>2 DEF StoreInv, NodeInv
  <2>. QED  BY <2>3, <2>4, <2>5 DEF StoreInv
<1>3. CASE SaveRawTurns
  <2>1. /\ wrk.pc = "raw" /\ wrk'.pc = "link" /\ wrk'.sid = wrk.sid /\ wrk'.node = wrk.node
        /\ wrk'.buffer = wrk.buffer
        /\ raw' = [raw EXCEPT ![wrk.node] = RawTurns(script[wrk.sid], wrk.buffer)]
        /\ UNCHANGED <<script, absorbed, owner>>
    BY <1>1, <1>3 DEF SaveRawTurns, Workers
  <2>2. wrk.node \in NodeIds /\ owner[wrk.node] = wrk.sid /\ raw[wrk.node] = {}
    BY <2>1 DEF StoreInv, NodeInv
  <2>3. Grown
    <3>1. \A x \in NodeIds : raw[x] \subseteq raw'[x]
      BY <1>1, <2>1, <2>2
    <3>. QED  BY <2>1, <3>1 DEF StoredPositions, Holds
  <2>4. MaskedIsStored'
    BY <2>1, <2>3 DEF StoreInv, MaskedIsStored, FpsOf
  <2>5. NodeInv'
    BY <1>1, <2>1, <2>2 DEF StoreInv, NodeInv
  <2>. QED  BY <2>3, <2>4, <2>5 DEF StoreInv
<1>4. CASE DoneAbsorb
  <2>1. /\ wrk.pc = "done2" /\ wrk'.pc = "done3" /\ wrk'.sid = wrk.sid /\ wrk'.node = wrk.node
        /\ wrk'.buffer = wrk.buffer
        /\ absorbed' = [absorbed EXCEPT
             ![wrk.sid] = absorbed[wrk.sid] \cup FpsOf(script[wrk.sid], UNION wrk.buffer)]
        /\ UNCHANGED <<script, owner, raw>>
    BY <1>1, <1>4 DEF DoneAbsorb, Workers
  <2>2. /\ wrk.node \in NodeIds /\ owner[wrk.node] = wrk.sid
        /\ raw[wrk.node] = RawTurns(script[wrk.sid], wrk.buffer)
    BY <2>1 DEF StoreInv, NodeInv
  <2>3. UNION wrk.buffer \subseteq StoredPositions(wrk.sid)
    BY <1>1, <2>2, BufferIsStored
  <2>4. Grown
    BY <2>1 DEF StoredPositions, Holds
  <2>5. MaskedIsStored'
    <3>1. ASSUME NEW s \in Sessions
          PROVE  absorbed'[s] \subseteq FpsOf(script[s], StoredPositions(s))
      <4>1. CASE s = wrk.sid
        BY <1>1, <2>1, <2>3, <4>1 DEF StoreInv, MaskedIsStored, FpsOf
      <4>2. CASE s # wrk.sid
        BY <1>1, <2>1, <4>2 DEF StoreInv, MaskedIsStored
      <4>. QED  BY <4>1, <4>2
    <3>2. \A s \in Sessions : StoredPositions(s)' = StoredPositions(s)
      BY <2>1 DEF StoredPositions, Holds
    <3>. QED  BY <2>1, <3>1, <3>2 DEF MaskedIsStored
  <2>6. NodeInv'
    BY <2>1, <2>2 DEF StoreInv, NodeInv
  <2>. QED  BY <2>4, <2>5, <2>6 DEF StoreInv
<1>5. CASE CompactSucceeds
  <2>1. /\ wrk'.pc = "save" /\ wrk'.node \in NodeIds /\ owner[wrk'.node] = NoNode
        /\ UNCHANGED <<script, absorbed, owner, raw>>
    BY <1>1, <1>5 DEF CompactSucceeds, Workers
  <2>2. MaskedIsStored' /\ Grown
    BY <2>1, SameStore
  <2>3. NodeInv'
    BY <2>1 DEF StoreInv, NodeInv
  <2>. QED  BY <2>2, <2>3 DEF StoreInv
<1>6. CASE LinkAndSynthesize \/ DoneInFlight \/ DoneSummaryUser
  <2>1. /\ wrk.pc \in {"link", "done1", "done2", "done3", "done4"}
        /\ wrk'.pc \in {"link", "done1", "done2", "done3", "done4"}
        /\ wrk'.sid = wrk.sid /\ wrk'.node = wrk.node /\ wrk'.buffer = wrk.buffer
        /\ UNCHANGED <<script, absorbed, owner, raw>>
    BY <1>1, <1>6 DEF LinkAndSynthesize, DoneInFlight, DoneSummaryUser, Workers
  <2>2. MaskedIsStored' /\ Grown
    BY <2>1, SameStore
  <2>3. NodeInv'
    BY <2>1 DEF StoreInv, NodeInv
  <2>. QED  BY <2>2, <2>3 DEF StoreInv
<1>7. CASE \/ TakeJob \/ MarkSensorPickup \/ MarkCompactStart \/ SenseTrips
           \/ SenseMaintains \/ SenseRaises \/ CompactFails \/ SynthesisRaises
           \/ DoneSummaryAsst \/ Finally
  <2>1. UNCHANGED <<script, absorbed, owner, raw>>
    BY <1>7 DEF TakeJob, MarkSensorPickup, MarkCompactStart, SenseTrips, SenseMaintains,
       SenseRaises, CompactFails, SynthesisRaises, DoneSummaryAsst, Finally
  <2>2. wrk'.pc \in {"pickup", "idle", "start", "sense", "compact", "finally"}
    <3>1. CASE TakeJob \/ MarkSensorPickup \/ Finally
      <4>1. CASE TakeJob
        BY <4>1 DEF TakeJob, IdleWorker
      <4>2. CASE MarkSensorPickup
        BY <1>1, <4>2 DEF MarkSensorPickup, IdleWorker, Workers
      <4>3. CASE Finally
        BY <4>3 DEF Finally, IdleWorker
      <4>. QED  BY <3>1, <4>1, <4>2, <4>3
    <3>2. CASE \/ MarkCompactStart \/ SenseTrips \/ SenseMaintains \/ SenseRaises
               \/ CompactFails \/ SynthesisRaises \/ DoneSummaryAsst
      BY <1>1, <3>2 DEF MarkCompactStart, SenseTrips, SenseMaintains, SenseRaises,
         CompactFails, SynthesisRaises, DoneSummaryAsst, Workers
    <3>. QED  BY <1>7, <3>1, <3>2
  <2>3. MaskedIsStored' /\ Grown
    BY <2>1, SameStore
  <2>4. NodeInv'
    BY <2>1, <2>2 DEF StoreInv, NodeInv
  <2>. QED  BY <2>3, <2>4 DEF StoreInv
<1>. QED  BY <1>2, <1>3, <1>4, <1>5, <1>6, <1>7 DEF WorkerStep

LEMMA RestartStore ==
  ASSUME StoreInv, Restart
  PROVE  StoreInv'
<1>1. /\ absorbed' = [s \in Sessions |-> {}] /\ wrk'.pc = "idle"
      /\ UNCHANGED <<script, owner, raw>>
  BY DEF Restart, FreshProcess, IdleWorker, store
<1>2. MaskedIsStored'
  BY <1>1 DEF MaskedIsStored
<1>3. NodeInv'
  BY <1>1 DEF StoreInv, NodeInv
<1>. QED  BY <1>2, <1>3 DEF StoreInv

LEMMA StoreInvariance == Spec => []StoreInv
<1>1. TypeInv /\ StoreInv /\ [Next]_vars => StoreInv'
  <2>. SUFFICES ASSUME TypeInv, StoreInv, [Next]_vars  PROVE StoreInv'
    OBVIOUS
  <2>1. CASE UNCHANGED vars
    BY <2>1, StoreKept DEF vars, registry
  <2>2. CASE \/ \E s \in Sessions : \E n \in DOMAIN script[s] : Receive(s, n)
             \/ RequestStep
    BY <2>2, RequestKeepsStore, StoreKept
  <2>. QED  BY <2>1, <2>2, WorkerStore, RestartStore DEF Next
<1>. QED  BY InitStore, TypeInvariance, <1>1, PTL DEF Spec

\* Whatever the interleaving, the failures and the restarts, every masked
\* fingerprint is that of a turn of which the session's nodes hold all that any
\* rendering keeps: its text, or its calls and results up to their cuts.
THEOREM MaskedStored == Spec => []MaskedIsStored
BY StoreInvariance, PTL DEF StoreInv

-----------------------------------------------------------------------------
(* What a rewritten request leaves out.                                    *)

KeptOrMasked(p) ==
  \/ \E i \in DOMAIN req.kept : req.kept[i] = p
  \/ script[req.sid][p].fp \in absorbed[req.sid]

TextOnly(msgs) == \A p \in DOMAIN msgs : HasText(msgs[p])

\* On a transcript without blank messages, the positions the second scan has
\* passed are kept or masked; masks only grow while the request is under way.
KeepInv ==
  /\ req.pc \in {"inFlight", "queued", "mark", "put", "pair"} => req.k = 1
  /\ TextOnly(script[req.sid]) =>
       /\ req.pc = "keep" => \A p \in 1..(req.k - 1) : KeptOrMasked(p)
       /\ req.pc \in {"inject", "sent"} => \A p \in 1..req.n : KeptOrMasked(p)

LEMMA InitKeep == Init => KeepInv
BY DEF Init, FreshProcess, IdleRequest, KeepInv

LEMMA TextMsgs ==
  ASSUME TypeInv, TextOnly(script[req.sid])
  PROVE  L1Len(Msgs) = req.n /\ \A k \in 1..req.n : FpAt(k) = script[req.sid][k].fp
<1>1. /\ req.n \in Nat /\ DOMAIN Msgs = 1..req.n
      /\ \A p \in 1..req.n : Msgs[p] = script[req.sid][p]
  BY MsgsType DEF Msgs
<1>2. req.sid \in Sessions /\ req.n <= Len(script[req.sid])
  BY DEF TypeInv, TypeOK, Requests, Positions
<1>3. \A p \in 1..req.n : p \in DOMAIN script[req.sid]
  BY <1>1, <1>2, ScriptType DEF TypeInv
<1>4. \A p \in 1..req.n : HasText(Msgs[p])
  BY <1>1, <1>3 DEF TextOnly
<1>5. L1Len(Msgs) = req.n /\ \A i \in 1..req.n : L1At(Msgs, i) = i
  BY <1>1, <1>4, L1OfTextOnly
<1>. QED  BY <1>1, <1>5 DEF FpAt

LEMMA RequestKeep ==
  ASSUME TypeInv, KeepInv,
         \/ \E s \in Sessions : \E n \in DOMAIN script[s] : Receive(s, n)
         \/ RequestStep
  PROVE  KeepInv'
<1>1. /\ req \in Requests /\ req.n \in Nat /\ req.k \in Nat
      /\ UNCHANGED <<script, absorbed>>
  BY RequestKeepsStore DEF TypeInv, TypeOK, Requests
<1>2. CASE ScanKept
  <2>1. /\ req.pc = "keep" /\ req'.pc = "keep" /\ req'.sid = req.sid /\ req'.n = req.n
        /\ req'.k = req.k + 1 /\ req.k <= L1Len(Msgs)
        /\ req'.kept = IF FpAt(req.k) \in absorbed[req.sid]
                       THEN req.kept ELSE Append(req.kept, req.k)
    BY <1>1, <1>2 DEF ScanKept, Requests
  <2>2. ASSUME TextOnly(script[req.sid]), NEW p \in 1..req.k  PROVE  KeptOrMasked(p)'
    <3>1. FpAt(req.k) = script[req.sid][req.k].fp /\ req.k \in 1..req.n
      BY <1>1, <2>1, <2>2, TextMsgs DEF Requests
    <3>2. \A i \in DOMAIN req.kept : i \in DOMAIN req'.kept /\ req'.kept[i] = req.kept[i]
      <4>1. req.kept \in Seq(1..MaxLen) /\ req.k \in 1..MaxLen
        BY <1>1, <3>1 DEF Requests, TypeInv, TypeOK
      <4>. QED  BY <2>1, <4>1, AppendProperties, LenProperties
    <3>3. CASE p < req.k
      <4>1. KeptOrMasked(p)
        BY <1>1, <2>1, <2>2, <3>3 DEF KeepInv
      <4>. QED  BY <1>1, <2>1, <3>2, <4>1 DEF KeptOrMasked
    <3>4. CASE p = req.k /\ FpAt(req.k) \in absorbed[req.sid]
      BY <1>1, <2>1, <3>1, <3>4 DEF KeptOrMasked
    <3>5. CASE p = req.k /\ FpAt(req.k) \notin absorbed[req.sid]
      <4>1. req.kept \in Seq(1..MaxLen) /\ req.k \in 1..MaxLen
        BY <1>1, <3>1 DEF Requests, TypeInv, TypeOK
      <4>2. Len(req.kept) + 1 \in DOMAIN req'.kept /\ req'.kept[Len(req.kept) + 1] = req.k
        BY <2>1, <3>5, <4>1, AppendProperties, LenProperties
      <4>. QED  BY <3>5, <4>2 DEF KeptOrMasked
    <3>. QED  BY <1>1, <3>3, <3>4, <3>5
  <2>3. req'.k - 1 = req.k
    BY <1>1, <2>1
  <2>. QED  BY <1>1, <2>1, <2>2, <2>3 DEF KeepInv
<1>3. CASE EndKept
  <2>1. /\ req.pc = "keep" /\ req'.pc = "inject" /\ req'.sid = req.sid /\ req'.n = req.n
        /\ req'.kept = req.kept /\ req.k > L1Len(Msgs)
    BY <1>1, <1>3 DEF EndKept, Requests
  <2>2. ASSUME TextOnly(script[req.sid]), NEW p \in 1..req.n  PROVE  KeptOrMasked(p)
    <3>1. p \in 1..(req.k - 1)
      BY <1>1, <2>1, <2>2, TextMsgs
    <3>. QED  BY <2>1, <2>2, <3>1 DEF KeepInv
  <2>3. \A p : KeptOrMasked(p) => KeptOrMasked(p)'
    BY <1>1, <2>1 DEF KeptOrMasked
  <2>. QED  BY <1>1, <2>1, <2>2, <2>3 DEF KeepInv
<1>4. CASE ReadPair
  <2>1. /\ req.pc = "pair" /\ req'.sid = req.sid /\ req'.n = req.n
        /\ \/ req'.pc = "keep" /\ req'.k = req.k
           \/ req'.pc = "sent" /\ req'.kept = [p \in 1..req.n |-> p]
    BY <1>1, <1>4 DEF ReadPair, Requests
  <2>2. req.k = 1
    BY <2>1 DEF KeepInv
  <2>3. req'.pc = "keep" => \A p \in 1..(req'.k - 1) : KeptOrMasked(p)'
    BY <2>1, <2>2
  <2>4. req'.pc = "sent" => \A p \in 1..req'.n : KeptOrMasked(p)'
    BY <2>1 DEF KeptOrMasked
  <2>. QED  BY <2>1, <2>3, <2>4 DEF KeepInv
<1>5. CASE InjectPair
  <2>1. /\ req.pc = "inject" /\ req'.pc = "sent" /\ req'.sid = req.sid /\ req'.n = req.n
        /\ req'.kept = req.kept
    BY <1>1, <1>5 DEF InjectPair, Requests
  <2>2. \A p : KeptOrMasked(p) => KeptOrMasked(p)'
    BY <1>1, <2>1 DEF KeptOrMasked
  <2>. QED  BY <1>1, <2>1, <2>2 DEF KeepInv
<1>6. CASE EndScan \/ ReadInFlight \/ ReadQueued \/ MarkSensorQueued \/ PutJob
  <2>1. /\ req'.pc \in {"inFlight", "queued", "mark", "put", "pair"}
        /\ req'.k = req.k \/ req'.k = 1
        /\ req.pc = "scan" => req'.k = 1
        /\ req.pc \in {"scan", "inFlight", "queued", "mark", "put"}
    <3>1. CASE EndScan
      BY <1>1, <3>1 DEF EndScan, Requests
    <3>2. CASE ReadInFlight \/ ReadQueued
      BY <1>1, <3>2 DEF ReadInFlight, ReadQueued, Requests
    <3>3. CASE MarkSensorQueued \/ PutJob
      BY <1>1, <3>3 DEF MarkSensorQueued, PutJob, Requests
    <3>. QED  BY <1>6, <3>1, <3>2, <3>3
  <2>. QED  BY <2>1 DEF KeepInv
<1>7. CASE \/ \E s \in Sessions : \E n \in DOMAIN script[s] : Receive(s, n)
           \/ ScanUnabsorbed \/ Forward
  <2>1. req'.pc \in {"scan", "idle"}
    <3>1. CASE ScanUnabsorbed
      BY <1>1, <3>1 DEF ScanUnabsorbed, Requests
    <3>2. CASE Forward
      BY <3>2 DEF Forward, IdleRequest
    <3>3. CASE \E s \in Sessions : \E n \in DOMAIN script[s] : Receive(s, n)
      BY <3>3 DEF Receive, IdleRequest
    <3>. QED  BY <1>7, <3>1, <3>2, <3>3
  <2>. QED  BY <2>1 DEF KeepInv
<1>. QED  BY <1>2, <1>3, <1>4, <1>5, <1>6, <1>7 DEF RequestStep

\* The worker does not touch the request and never unmasks a turn.
LEMMA WorkerMasks ==
  ASSUME TypeInv, WorkerStep
  PROVE  /\ UNCHANGED <<script, req>>
         /\ \A s \in Sessions : absorbed[s] \subseteq absorbed'[s]
<1>1. CASE DoneAbsorb
  BY <1>1 DEF DoneAbsorb, TypeInv, TypeOK
<1>2. CASE ~DoneAbsorb
  <2>1. UNCHANGED <<script, req, absorbed>>
    BY <1>2 DEF WorkerStep, TakeJob, MarkSensorPickup, MarkCompactStart, SenseTrips,
       SenseMaintains, SenseRaises, CompactSucceeds, CompactFails, SaveNode,
       SaveRawTurns, LinkAndSynthesize, SynthesisRaises, DoneInFlight,
       DoneSummaryUser, DoneSummaryAsst, Finally, registry
  <2>. QED  BY <2>1
<1>. QED  BY <1>1, <1>2

LEMMA KeepInvariance == Spec => []KeepInv
<1>1. TypeInv /\ KeepInv /\ [Next]_vars => KeepInv'
  <2>. SUFFICES ASSUME TypeInv, KeepInv, [Next]_vars  PROVE KeepInv'
    OBVIOUS
  <2>1. CASE UNCHANGED vars
    BY <2>1 DEF vars, registry, KeepInv, KeptOrMasked
  <2>2. CASE WorkerStep
    <3>1. req.sid \in Sessions
      BY DEF TypeInv, TypeOK, Requests
    <3>2. \A p : KeptOrMasked(p) => KeptOrMasked(p)'
      BY <2>2, <3>1, WorkerMasks DEF KeptOrMasked
    <3>. QED  BY <2>2, <3>2, WorkerMasks DEF KeepInv
  <2>3. CASE Restart
    BY <2>3 DEF Restart, FreshProcess, IdleRequest, KeepInv
  <2>. QED  BY <2>1, <2>2, <2>3, RequestKeep DEF Next
<1>. QED  BY InitKeep, TypeInvariance, <1>1, PTL DEF Spec

\* On a transcript without blank and repeated messages, a request leaves out
\* only turns whose text a saved node of the session holds.
THEOREM OnlyStoredDropped == Spec => []OnlyStoredTurnsDropped
<1>1. TypeInv /\ StoreInv /\ KeepInv => OnlyStoredTurnsDropped
  <2>. SUFFICES ASSUME TypeInv, StoreInv, KeepInv, req.pc = "sent",
                       Clean(script[req.sid]), NEW p \in Dropped
                PROVE  p \in StoredPositions(req.sid)
    BY DEF OnlyStoredTurnsDropped
  <2>1. req.sid \in Sessions /\ req.n \in Nat /\ req.n <= Len(script[req.sid])
    BY DEF TypeInv, TypeOK, Requests, Positions
  <2>2. p \in 1..req.n /\ ~ \E i \in DOMAIN req.kept : req.kept[i] = p
    BY DEF Dropped
  <2>3. script[req.sid][p].fp \in absorbed[req.sid]
    BY <2>2 DEF KeepInv, KeptOrMasked, Clean, TextOnly
  <2>4. PICK q \in StoredPositions(req.sid) :
          script[req.sid][q].fp = script[req.sid][p].fp
    BY <2>1, <2>3 DEF StoreInv, MaskedIsStored, FpsOf
  <2>5. q \in DOMAIN script[req.sid]
    BY DEF StoredPositions
  <2>6. p \in DOMAIN script[req.sid]
    BY <2>1, <2>2, ScriptType DEF TypeInv
  <2>. QED  BY <2>4, <2>5, <2>6 DEF Clean
<1>. QED  BY <1>1, TypeInvariance, StoreInvariance, KeepInvariance, PTL

-----------------------------------------------------------------------------
(* What a rewritten request carries instead.                               *)

\* A row once written is not written again.
LEMMA RowsStay ==
  ASSUME TypeInv, StoreInv, [Next]_vars
  PROVE  /\ \A x \in NodeIds : owner[x] # NoNode => owner'[x] = owner[x]
         /\ \A x \in NodeIds : raw[x] # {} => raw'[x] = raw[x]
<1>1. /\ wrk \in Workers
      /\ owner \in [NodeIds -> Sessions \cup {NoNode}]
      /\ raw \in [NodeIds -> SUBSET ((1..MaxLen) \X Parts)]
  BY DEF TypeInv, TypeOK
<1>2. CASE SaveNode
  BY <1>1, <1>2 DEF SaveNode, StoreInv, NodeInv
<1>3. CASE SaveRawTurns
  BY <1>1, <1>3 DEF SaveRawTurns, StoreInv, NodeInv
<1>4. CASE ~SaveNode /\ ~SaveRawTurns
  <2>1. CASE WorkerStep
    BY <1>4, <2>1 DEF WorkerStep, TakeJob, MarkSensorPickup, MarkCompactStart, SenseTrips,
       SenseMaintains, SenseRaises, CompactSucceeds, CompactFails, LinkAndSynthesize,
       SynthesisRaises, DoneInFlight, DoneAbsorb, DoneSummaryUser, DoneSummaryAsst, Finally,
       store
  <2>2. CASE \/ \E s \in Sessions : \E n \in DOMAIN script[s] : Receive(s, n)
             \/ RequestStep
    BY <2>2, RequestKeepsStore DEF store
  <2>3. CASE Restart \/ UNCHANGED vars
    BY <2>3 DEF Restart, vars, store
  <2>. QED  BY <2>1, <2>2, <2>3 DEF Next
<1>. QED  BY <1>2, <1>3, <1>4

\* A node with turns, saved for session s.
Summarises(x, s) == x \in NodeIds /\ owner[x] = s /\ raw[x] # {}

\* The summary pair names such a node from the first write of it on, the
\* worker never compacts an empty buffer, and the pair a request has seen does
\* not go away before the request is sent.
PairInv ==
  /\ \A s \in Sessions : summaryUser[s] # NoNode => Summarises(summaryUser[s], s)
  /\ wrk.pc \notin {"idle", "pickup", "finally", "done4"} => wrk.buffer # {}
  /\ req.pc \in {"keep", "inject"} => summaryUser[req.sid] # NoNode
  /\ req.pc = "sent" /\ Dropped # {} => Summarises(req.summary, req.sid)

LEMMA InitPair == Init => PairInv
BY DEF Init, FreshProcess, IdleRequest, IdleWorker, PairInv

LEMMA SummariesStay ==
  ASSUME TypeInv, StoreInv, [Next]_vars, NEW x, NEW s \in Sessions, Summarises(x, s)
  PROVE  Summarises(x, s)'
BY RowsStay, NoNodeAssumption DEF Summarises

LEMMA RequestPair ==
  ASSUME TypeInv, StoreInv, PairInv,
         \/ \E s \in Sessions : \E n \in DOMAIN script[s] : Receive(s, n)
         \/ RequestStep
  PROVE  PairInv'
<1>1. /\ req \in Requests /\ req.sid \in Sessions /\ req.n \in Nat
      /\ UNCHANGED <<script, absorbed, pair, store, wrk>>
  BY RequestKeepsStore DEF TypeInv, TypeOK, Requests
<1>2. \A x, s : Summarises(x, s) => Summarises(x, s)'
  BY <1>1 DEF Summarises, store
<1>3. /\ \A s \in Sessions : summaryUser'[s] # NoNode => Summarises(summaryUser[s], s)'
      /\ wrk'.pc \notin {"idle", "pickup", "finally", "done4"} => wrk'.buffer # {}
      /\ UNCHANGED summaryUser
  BY <1>1, <1>2 DEF PairInv, pair
<1>4. CASE ReadPair
  <2>1. /\ req'.sid = req.sid /\ req'.n = req.n
        /\ \/ req'.pc = "keep" /\ summaryUser[req.sid] # NoNode
           \/ req'.pc = "sent" /\ req'.kept = [p \in 1..req.n |-> p]
    BY <1>1, <1>4 DEF ReadPair, Requests
  <2>2. req'.pc = "sent" => Dropped' = {}
    BY <1>1, <2>1 DEF Dropped
  <2>. QED  BY <1>3, <2>1, <2>2 DEF PairInv
<1>5. CASE ScanKept \/ EndKept
  <2>1. /\ req.pc = "keep" /\ req'.sid = req.sid /\ req'.pc \in {"keep", "inject"}
    BY <1>1, <1>5 DEF ScanKept, EndKept, Requests
  <2>. QED  BY <1>3, <2>1 DEF PairInv
<1>6. CASE InjectPair
  <2>1. /\ req.pc = "inject" /\ req'.sid = req.sid /\ req'.pc = "sent"
        /\ req'.summary = summaryUser[req.sid]
    BY <1>1, <1>6 DEF InjectPair, Requests
  <2>2. Summarises(req'.summary, req'.sid)
    BY <1>1, <2>1 DEF PairInv
  <2>. QED  BY <1>2, <1>3, <2>1, <2>2 DEF PairInv
<1>7. CASE \/ \E s \in Sessions : \E n \in DOMAIN script[s] : Receive(s, n)
           \/ ScanUnabsorbed \/ EndScan \/ ReadInFlight \/ ReadQueued
           \/ MarkSensorQueued \/ PutJob \/ Forward
  <2>1. req'.pc \notin {"keep", "inject", "sent"}
    <3>1. CASE ScanUnabsorbed \/ EndScan \/ ReadInFlight \/ ReadQueued
      BY <1>1, <3>1 DEF ScanUnabsorbed, EndScan, ReadInFlight, ReadQueued, Requests
    <3>2. CASE MarkSensorQueued \/ PutJob \/ Forward
      BY <1>1, <3>2 DEF MarkSensorQueued, PutJob, Forward, IdleRequest, Requests
    <3>3. CASE \E s \in Sessions : \E n \in DOMAIN script[s] : Receive(s, n)
      BY <3>3 DEF Receive, IdleRequest
    <3>. QED  BY <1>7, <3>1, <3>2, <3>3
  <2>. QED  BY <1>3, <2>1 DEF PairInv
<1>. QED  BY <1>4, <1>5, <1>6, <1>7 DEF RequestStep

LEMMA WorkerPair ==
  ASSUME TypeInv, StoreInv, PairInv, WorkerStep
  PROVE  PairInv'
<1>1. /\ wrk \in Workers /\ wrk.sid \in Sessions /\ req.sid \in Sessions
      /\ summaryUser \in [Sessions -> NodeIds \cup {NoNode}]
      /\ UNCHANGED req /\ [Next]_vars
  BY WorkerMasks DEF TypeInv, TypeOK, Workers, Requests, Next
<1>2. \A x : \A s \in Sessions :
        Summarises(x, s) => x \in NodeIds /\ owner'[x] = s /\ raw'[x] # {}
  BY <1>1, SummariesStay DEF Summarises
<1>3. Dropped' = Dropped
  BY <1>1 DEF Dropped
<1>4. wrk'.pc \notin {"idle", "pickup", "finally", "done4"} => wrk'.buffer # {}
  <2>1. CASE TakeJob \/ Finally
    <3>1. TakeJob => wrk'.pc = "pickup"
      BY DEF TakeJob, IdleWorker
    <3>2. Finally => wrk'.pc = "idle"
      BY DEF Finally, IdleWorker
    <3>. QED  BY <2>1, <3>1, <3>2
  <2>2. CASE MarkSensorPickup
    <3>1. Cardinality({}) < MinL1Buffer
      BY FS_EmptySet
    <3>. QED  BY <1>1, <2>2, <3>1 DEF MarkSensorPickup, IdleWorker, Workers
  <2>3. CASE \/ MarkCompactStart \/ SenseTrips \/ SenseMaintains \/ SenseRaises
             \/ CompactSucceeds \/ CompactFails \/ SaveNode \/ SaveRawTurns
    BY <1>1, <2>3 DEF MarkCompactStart, SenseTrips, SenseMaintains, SenseRaises,
       CompactSucceeds, CompactFails, SaveNode, SaveRawTurns, PairInv, Workers
  <2>4. CASE \/ LinkAndSynthesize \/ SynthesisRaises \/ DoneInFlight \/ DoneAbsorb
             \/ DoneSummaryUser \/ DoneSummaryAsst
    BY <1>1, <2>4 DEF LinkAndSynthesize, SynthesisRaises, DoneInFlight, DoneAbsorb,
       DoneSummaryUser, DoneSummaryAsst, PairInv, Workers
  <2>. QED  BY <2>1, <2>2, <2>3, <2>4 DEF WorkerStep
<1>5. /\ (\A s \in Sessions : summaryUser[s] # NoNode => Summarises(summaryUser[s], s))'
      /\ \A s \in Sessions : summaryUser[s] # NoNode => summaryUser'[s] # NoNode
  <2>1. CASE DoneSummaryUser
    <3>1. /\ wrk.pc = "done3" /\ summaryUser' = [summaryUser EXCEPT ![wrk.sid] = wrk.node]
      BY <2>1 DEF DoneSummaryUser
    <3>2. Summarises(wrk.node, wrk.sid) /\ wrk.node # NoNode
      <4>1. /\ wrk.node \in NodeIds /\ owner[wrk.node] = wrk.sid /\ wrk.buffer # {}
            /\ raw[wrk.node] = RawTurns(script[wrk.sid], wrk.buffer)
        BY <3>1 DEF PairInv, StoreInv, NodeInv
      <4>2. wrk.buffer \in SUBSET EntriesOf(script[wrk.sid]) /\ wrk.sid \in Sessions
        BY <1>1 DEF TypeInv, Positions, Workers
      <4>. QED  BY <4>1, <4>2, BufferIsStored DEF TypeInv, Summarises
    <3>3. \A s \in Sessions : summaryUser'[s] = IF s = wrk.sid THEN wrk.node ELSE summaryUser[s]
      BY <1>1, <3>1
    <3>. QED  BY <1>1, <1>2, <3>2, <3>3 DEF PairInv, Summarises
  <2>2. CASE ~DoneSummaryUser
    <3>1. UNCHANGED summaryUser
      BY <2>2 DEF WorkerStep, TakeJob, MarkSensorPickup, MarkCompactStart, SenseTrips,
         SenseMaintains, SenseRaises, CompactSucceeds, CompactFails, SaveNode, SaveRawTurns,
         LinkAndSynthesize, SynthesisRaises, DoneInFlight, DoneAbsorb, DoneSummaryAsst,
         Finally, registry, pair
    <3>. QED  BY <1>2, <3>1 DEF PairInv, Summarises
  <2>. QED  BY <2>1, <2>2
<1>6. (req.pc = "sent" /\ Dropped # {} => Summarises(req.summary, req.sid))'
  BY <1>1, <1>2, <1>3 DEF PairInv, Summarises
<1>. QED  BY <1>1, <1>4, <1>5, <1>6 DEF PairInv

LEMMA PairInvariance == Spec => []PairInv
<1>1. TypeInv /\ StoreInv /\ PairInv /\ [Next]_vars => PairInv'
  <2>. SUFFICES ASSUME TypeInv, StoreInv, PairInv, [Next]_vars  PROVE PairInv'
    OBVIOUS
  <2>1. CASE UNCHANGED vars
    BY <2>1 DEF vars, registry, pair, store, PairInv, Summarises, Dropped
  <2>2. CASE Restart
    BY <2>2 DEF Restart, FreshProcess, IdleRequest, IdleWorker, PairInv
  <2>. QED  BY <2>1, <2>2, RequestPair, WorkerPair DEF Next
<1>. QED  BY InitPair, TypeInvariance, StoreInvariance, <1>1, PTL DEF Spec

\* However the two scans of a request interleave with a compaction, a request
\* that leaves turns out carries the summary of a node of its session that is
\* saved with its turns.
THEOREM SummaryCarried == Spec => []DropCarriesSummary
<1>1. PairInv => DropCarriesSummary
  BY NoNodeAssumption DEF PairInv, Summarises, DropCarriesSummary
<1>. QED  BY <1>1, PairInvariance, PTL

-----------------------------------------------------------------------------
(* The proxy implements the abstract memory of turns.                       *)

\* Positions are stored by save_raw_turns, and by no other step.
LEMMA StoreGrows ==
  ASSUME TypeInv, StoreInv, [Next]_vars
  PROVE  /\ UNCHANGED script
         /\ \A s \in Sessions :
              StoredPositions(s)' =
                IF SaveRawTurns /\ s = wrk.sid
                THEN StoredPositions(s) \cup UNION wrk.buffer ELSE StoredPositions(s)
<1>. USE DEF registry, pair, flags, store
<1>1. /\ wrk \in Workers
      /\ owner \in [NodeIds -> Sessions \cup {NoNode}]
      /\ raw \in [NodeIds -> SUBSET ((1..MaxLen) \X Parts)]
  BY DEF TypeInv, TypeOK
<1>2. CASE SaveRawTurns
  <2>. DEFINE turns == RawTurns(script[wrk.sid], wrk.buffer)
  <2>1. /\ wrk.node \in NodeIds /\ owner[wrk.node] = wrk.sid /\ raw[wrk.node] = {}
        /\ raw' = [raw EXCEPT ![wrk.node] = turns]
        /\ UNCHANGED <<script, owner>>
    BY <1>2 DEF SaveRawTurns, StoreInv, NodeInv
  <2>2. turns \subseteq (UNION wrk.buffer) \X Parts
    BY RawTurnsType
  <2>3. ASSUME NEW s \in Sessions, s = wrk.sid
        PROVE  UNION wrk.buffer \subseteq StoredPositions(s)'
    <3>1. /\ raw'[wrk.node] = turns
          /\ wrk.buffer \in SUBSET EntriesOf(script[wrk.sid])
      BY <1>1, <2>1 DEF TypeInv, Positions
    <3>2. \A p \in DOMAIN script[wrk.sid] : script[wrk.sid][p] \in Message
      BY <1>1, ScriptType DEF TypeInv, Workers
    <3>3. ASSUME NEW p \in UNION wrk.buffer
          PROVE  /\ p \in DOMAIN script[wrk.sid] /\ HasText(script[wrk.sid][p])
                 /\ \A part \in Kept(script[wrk.sid][p]) :
                      part \in Parts /\ <<p, part>> \in raw'[wrk.node]
      BY <3>1, <3>2, RawTurnsHold
    <3>. QED  BY <2>1, <2>3, <3>3 DEF StoredPositions, Holds
  <2>. HIDE DEF turns
  <2>4. \A x \in NodeIds : raw'[x] = IF x = wrk.node THEN turns ELSE raw[x]
    BY <1>1, <2>1
  <2>5. ASSUME NEW s \in Sessions, NEW p, s # wrk.sid \/ p \notin UNION wrk.buffer
        PROVE  Holds(s, p)' = Holds(s, p)
    <3>1. \A part : \A x \in NodeIds : owner[x] = s =>
            (<<p, part>> \in raw'[x] <=> <<p, part>> \in raw[x])
      BY <2>1, <2>2, <2>4, <2>5
    <3>. QED  BY <2>1, <3>1 DEF Holds
  <2>6. ASSUME NEW s \in Sessions
        PROVE  StoredPositions(s)' =
                 StoredPositions(s) \cup (IF s = wrk.sid THEN UNION wrk.buffer ELSE {})
    <3>. DEFINE P == StoredPositions(s)
                Q == StoredPositions(s)'
    <3>1. \A p : s # wrk.sid \/ p \notin UNION wrk.buffer => (p \in Q <=> p \in P)
      BY <2>1, <2>5 DEF StoredPositions
    <3>2. P \subseteq Q
      <4>1. WorkerStep
        BY <1>2 DEF WorkerStep
      <4>. QED  BY <4>1, WorkerStore
    <3>3. s = wrk.sid => UNION wrk.buffer \subseteq Q
      BY <2>3
    <3>. HIDE DEF P, Q
    <3>4. Q = P \cup (IF s = wrk.sid THEN UNION wrk.buffer ELSE {})
      BY <3>1, <3>2, <3>3
    <3>. QED  BY <3>4 DEF P, Q
  <2>. QED  BY <1>2, <2>1, <2>6
<1>3. CASE SaveNode
  <2>1. /\ wrk.pc = "save" /\ wrk.node \in NodeIds /\ owner[wrk.node] = NoNode
        /\ owner' = [owner EXCEPT ![wrk.node] = wrk.sid]
        /\ UNCHANGED <<script, raw>>
    BY <1>3 DEF SaveNode, StoreInv, NodeInv
  <2>2. raw[wrk.node] = {} /\ ~SaveRawTurns
    BY <2>1 DEF StoreInv, NodeInv, SaveRawTurns
  <2>3. \A x \in NodeIds : raw[x] # {} => owner'[x] = owner[x]
    BY <1>1, <2>1, <2>2
  <2>4. ASSUME NEW s \in Sessions  PROVE StoredPositions(s)' = StoredPositions(s)
    <3>1. \A p : Holds(s, p)' = Holds(s, p)
      BY <1>1, <2>1, <2>2, <2>3 DEF Holds
    <3>. QED  BY <2>1, <3>1 DEF StoredPositions
  <2>. QED  BY <2>1, <2>2, <2>4
<1>4. CASE ~SaveNode /\ ~SaveRawTurns
  <2>1. UNCHANGED <<script, owner, raw>>
    <3>1. CASE WorkerStep
      BY <1>4, <3>1 DEF WorkerStep, TakeJob, MarkSensorPickup, MarkCompactStart, SenseTrips,
         SenseMaintains, SenseRaises, CompactSucceeds, CompactFails, LinkAndSynthesize,
         SynthesisRaises, DoneInFlight, DoneAbsorb, DoneSummaryUser, DoneSummaryAsst, Finally
    <3>2. CASE \/ \E s \in Sessions : \E n \in DOMAIN script[s] : Receive(s, n)
               \/ RequestStep
      BY <3>2, RequestKeepsStore
    <3>3. CASE Restart \/ UNCHANGED vars
      BY <3>3 DEF Restart, vars
    <3>. QED  BY <3>1, <3>2, <3>3 DEF Next
  <2>. QED  BY <1>4, <2>1 DEF StoredPositions, Holds
<1>. QED  BY <1>2, <1>3, <1>4

\* The fingerprints of a session's stored turns, and of the turns the request
\* going upstream leaves out.
Stored(s) == FpsOf(script[s], StoredPositions(s))
Out(s) == IF req.pc = "sent" /\ req.sid = s THEN FpsOf(Msgs, Dropped) ELSE {}

LEMMA MemoryInit == Init => Memory!Init
<1>. SUFFICES ASSUME Init  PROVE Memory!Init
  OBVIOUS
<1>1. ASSUME NEW s \in Sessions  PROVE FpsOf(script[s], StoredPositions(s)) = {}
  <2>1. TypeOK
    BY InitTyped DEF TypeInv
  <2>2. ASSUME NEW p \in StoredPositions(s)  PROVE FALSE
    <3>1. /\ script[s][p] \in Message /\ HasText(script[s][p])
          /\ \A part \in Kept(script[s][p]) : \E x \in NodeIds : <<p, part>> \in raw[x]
      BY <2>1, <2>2, StoredMember, ScriptType
    <3>2. Kept(script[s][p]) # {}
      BY <3>1 DEF HasText, Message, Kept, IsToolMsg, IsToolUse, IsToolResult
    <3>. QED  BY <3>1, <3>2 DEF Init
  <2>. QED  BY <2>2 DEF FpsOf
<1>2. req.pc # "sent" /\ absorbed = [s \in Sessions |-> {}]
  BY DEF Init, FreshProcess, IdleRequest
<1>. QED  BY <1>1, <1>2 DEF Memory!Init

\* What goes out is masked, on transcripts without blank messages.
LEMMA OutIsMasked ==
  ASSUME TypeInv, KeepInv, TextOnly(script[req.sid]), req.pc \in {"inject", "sent"}
  PROVE  FpsOf(Msgs, Dropped) \subseteq absorbed[req.sid]
<1>1. \A p \in Dropped : /\ p \in 1..req.n
                        /\ ~ \E i \in DOMAIN req.kept : req.kept[i] = p
  BY DEF Dropped
<1>2. \A p \in Dropped : script[req.sid][p].fp \in absorbed[req.sid]
  BY <1>1 DEF KeepInv, KeptOrMasked
<1>. QED  BY <1>1, <1>2 DEF FpsOf, Msgs

\* What a step does to what goes out: only the end of a rewrite adds to it.
LEMMA OutStep ==
  ASSUME TypeInv, KeepInv, TextOnly(script[req.sid]), [Next]_vars, ~Restart
  PROVE  \/ \A s \in Sessions : Out(s)' = Out(s)
         \/ \E F \in SUBSET absorbed[req.sid] :
              /\ UNCHANGED <<script, absorbed, store>>
              /\ \A s \in Sessions : Out(s)' = IF s = req.sid THEN F ELSE Out(s)
<1>. DEFINE Goal == \A s \in Sessions : Out(s)' = Out(s)
<1>1. req \in Requests /\ req.sid \in Sessions /\ req.n \in Nat
  BY DEF TypeInv, TypeOK, Requests
<1>2. CASE WorkerStep \/ UNCHANGED vars
  <2>1. UNCHANGED <<script, req>>
    BY <1>2, WorkerMasks DEF vars
  <2>. QED  BY <2>1 DEF Out, FpsOf, Msgs, Dropped
<1>3. CASE InjectPair
  <2>1. /\ req.pc = "inject" /\ req'.pc = "sent" /\ req'.sid = req.sid /\ req'.n = req.n
        /\ req'.kept = req.kept
    BY <1>1, <1>3 DEF InjectPair, Requests
  <2>2. UNCHANGED <<script, absorbed, store>>
    BY <1>3 DEF InjectPair, registry
  <2>3. Msgs' = Msgs /\ Dropped' = Dropped
    BY <2>1, <2>2 DEF Msgs, Dropped
  <2>. DEFINE F == FpsOf(Msgs, Dropped)
  <2>4. F \in SUBSET absorbed[req.sid]
    BY <2>1, OutIsMasked
  <2>5. \A s \in Sessions : Out(s)' = IF s = req.sid THEN F ELSE Out(s)
    BY <2>1, <2>3 DEF Out, FpsOf
  <2>. HIDE DEF F
  <2>. QED  BY <2>2, <2>4, <2>5
<1>4. CASE ReadPair
  <2>1. /\ req.pc = "pair" /\ req'.sid = req.sid /\ req'.n = req.n
        /\ \/ req'.pc = "keep"
           \/ req'.pc = "sent" /\ req'.kept = [p \in 1..req.n |-> p]
    BY <1>1, <1>4 DEF ReadPair, Requests
  <2>2. req'.pc = "sent" => Dropped' = {}
    BY <1>1, <2>1 DEF Dropped
  <2>3. \A s \in Sessions : Out(s)' = {} /\ Out(s) = {}
    BY <2>1, <2>2 DEF Out, FpsOf
  <2>. QED  BY <2>3
<1>5. CASE Forward
  <2>1. /\ req'.pc = "idle" /\ req.pc = "sent"
        /\ UNCHANGED <<script, absorbed, store>>
    BY <1>5 DEF Forward, IdleRequest, registry
  <2>2. \A s \in Sessions : Out(s)' = IF s = req.sid THEN {} ELSE Out(s)
    BY <2>1 DEF Out
  <2>. QED  BY <2>1, <2>2
<1>6. CASE \/ \E s \in Sessions : \E n \in DOMAIN script[s] : Receive(s, n)
           \/ ScanUnabsorbed \/ EndScan \/ ReadInFlight \/ ReadQueued
           \/ MarkSensorQueued \/ PutJob \/ ScanKept \/ EndKept
  <2>1. req.pc # "sent" /\ req'.pc # "sent"
    <3>1. CASE ScanUnabsorbed \/ EndScan \/ ReadInFlight \/ ReadQueued
      BY <1>1, <3>1 DEF ScanUnabsorbed, EndScan, ReadInFlight, ReadQueued, Requests
    <3>2. CASE MarkSensorQueued \/ PutJob
      BY <1>1, <3>2 DEF MarkSensorQueued, PutJob, Requests
    <3>3. CASE ScanKept \/ EndKept
      BY <1>1, <3>3 DEF ScanKept, EndKept, Requests
    <3>4. CASE \E s \in Sessions : \E n \in DOMAIN script[s] : Receive(s, n)
      BY <3>4 DEF Receive, IdleRequest
    <3>. QED  BY <1>6, <3>1, <3>2, <3>3, <3>4
  <2>. QED  BY <2>1 DEF Out
<1>. QED  BY <1>2, <1>3, <1>4, <1>5, <1>6 DEF Next, RequestStep

\* A step stores turns, masks turns that are stored, answers without masked
\* turns, forgets the masks, or is none of the memory's business.
LEMMA MemoryStep ==
  ASSUME TypeInv, StoreInv, KeepInv, TextOnly(script[req.sid]), [Next]_vars
  PROVE  [Memory!Next]_(Memory!mvars)
<1>. DEFINE st == [s \in Sessions |-> FpsOf(script[s], StoredPositions(s))]
            dr == [s \in Sessions |->
                     IF req.pc = "sent" /\ req.sid = s THEN FpsOf(Msgs, Dropped) ELSE {}]
            F == FpsOf(script[wrk.sid], UNION wrk.buffer)
<1>1. /\ wrk \in Workers /\ wrk.sid \in Sessions /\ req.sid \in Sessions
      /\ absorbed \in [Sessions -> SUBSET Fps]
  BY DEF TypeInv, TypeOK, Workers, Requests
<1>2. F \in SUBSET Fps
  <2>1. \A p \in UNION wrk.buffer : p \in DOMAIN script[wrk.sid]
    BY DEF TypeInv, Positions, EntriesOf
  <2>2. \A p \in DOMAIN script[wrk.sid] : script[wrk.sid][p] \in Message
    BY <1>1, ScriptType, ElementOfSeq DEF TypeInv
  <2>. QED  BY <2>1, <2>2 DEF FpsOf, Message
<1>3. /\ st = [s \in Sessions |-> Stored(s)] /\ st' = [s \in Sessions |-> Stored(s)']
      /\ dr = [s \in Sessions |-> Out(s)] /\ dr' = [s \in Sessions |-> Out(s)']
  BY DEF Stored, Out
<1>4. \A s \in Sessions :
        Stored(s)' = IF SaveRawTurns /\ s = wrk.sid THEN Stored(s) \cup F ELSE Stored(s)
  BY StoreGrows DEF Stored, FpsOf
<1>5. CASE SaveRawTurns
  <2>1. UNCHANGED <<script, absorbed, req>>
    BY <1>5 DEF SaveRawTurns, registry
  <2>2. dr' = dr
    BY <2>1, <1>3 DEF Out, FpsOf, Msgs, Dropped
  <2>3. st' = [st EXCEPT ![wrk.sid] = @ \cup F]
    <3>. HIDE DEF F, st
    <3>. QED  BY <1>1, <1>3, <1>4, <1>5
  <2>4. Memory!Preserve(wrk.sid, F)
    BY <2>1, <2>2, <2>3 DEF Memory!Preserve
  <2>. HIDE DEF F
  <2>. QED  BY <1>1, <1>2, <2>4 DEF Memory!Next
<1>6. CASE DoneAbsorb
  <2>1. /\ wrk.pc = "done2" /\ UNCHANGED <<script, req>>
        /\ absorbed' = [absorbed EXCEPT ![wrk.sid] = @ \cup F]
    BY <1>6 DEF DoneAbsorb
  <2>2. dr' = dr
    BY <2>1, <1>3 DEF Out, FpsOf, Msgs, Dropped
  <2>3. st' = st
    <3>1. ~SaveRawTurns
      BY <2>1 DEF SaveRawTurns
    <3>. HIDE DEF F, st
    <3>. QED  BY <1>3, <1>4, <3>1
  <2>4. F \subseteq st[wrk.sid]
    <3>1. /\ owner[wrk.node] = wrk.sid /\ wrk.node \in NodeIds
          /\ raw[wrk.node] = RawTurns(script[wrk.sid], wrk.buffer)
      BY <2>1 DEF StoreInv, NodeInv
    <3>2. UNION wrk.buffer \subseteq StoredPositions(wrk.sid)
      BY <1>1, <3>1, BufferIsStored DEF TypeInv, Positions
    <3>. QED  BY <1>1, <3>2 DEF FpsOf
  <2>5. Memory!Mask(wrk.sid, F)
    BY <2>1, <2>2, <2>3, <2>4 DEF Memory!Mask
  <2>. HIDE DEF F
  <2>. QED  BY <1>1, <1>2, <2>5 DEF Memory!Next
<1>7. CASE Restart
  <2>1. /\ absorbed' = [s \in Sessions |-> {}] /\ req'.pc = "idle"
        /\ UNCHANGED <<script, raw, owner>>
    BY <1>7 DEF Restart, FreshProcess, IdleRequest, store
  <2>2. dr' = [s \in Sessions |-> {}]
    BY <2>1
  <2>3. st' = st
    BY <2>1 DEF FpsOf, StoredPositions, Holds
  <2>4. Memory!Forget
    BY <2>1, <2>2, <2>3 DEF Memory!Forget
  <2>. QED  BY <2>4 DEF Memory!Next
<1>8. CASE ~SaveRawTurns /\ ~DoneAbsorb /\ ~Restart
  <2>1. UNCHANGED absorbed
    <3>1. CASE WorkerStep
      BY <1>8, <3>1 DEF WorkerStep, TakeJob, MarkSensorPickup, MarkCompactStart, SenseTrips,
         SenseMaintains, SenseRaises, CompactSucceeds, CompactFails, SaveNode,
         LinkAndSynthesize, SynthesisRaises, DoneInFlight, DoneSummaryUser,
         DoneSummaryAsst, Finally, registry
    <3>2. CASE \/ \E s \in Sessions : \E n \in DOMAIN script[s] : Receive(s, n)
               \/ RequestStep
      BY <3>2, RequestKeepsStore
    <3>3. CASE UNCHANGED vars
      BY <3>3 DEF vars, registry
    <3>. QED  BY <1>8, <3>1, <3>2, <3>3 DEF Next
  <2>2. st' = st
    <3>. HIDE DEF F, st
    <3>. QED  BY <1>3, <1>4, <1>8
  <2>3. CASE \A s \in Sessions : Out(s)' = Out(s)
    <3>1. dr' = dr
      <4>. HIDE DEF dr
      <4>. QED  BY <1>3, <2>3
    <3>. QED  BY <2>1, <2>2, <3>1 DEF Memory!mvars
  <2>4. CASE \E G \in SUBSET absorbed[req.sid] :
               \A s \in Sessions : Out(s)' = IF s = req.sid THEN G ELSE Out(s)
    <3>1. PICK G \in SUBSET absorbed[req.sid] :
                 \A s \in Sessions : Out(s)' = IF s = req.sid THEN G ELSE Out(s)
      BY <2>4
    <3>2. G \in SUBSET Fps
      BY <1>1
    <3>3. dr' = [dr EXCEPT ![req.sid] = G]
      <4>. HIDE DEF dr
      <4>. QED  BY <1>1, <1>3, <3>1
    <3>4. Memory!Answer(req.sid, G)
      BY <2>1, <2>2, <3>3 DEF Memory!Answer
    <3>. QED  BY <1>1, <3>2, <3>4 DEF Memory!Next
  <2>. QED  BY <1>8, <2>3, <2>4, OutStep
<1>. QED  BY <1>5, <1>6, <1>7, <1>8

\* The proxy keeps the promise of the abstract memory on any set of transcripts
\* without blank messages, repeated texts included: a request goes without a
\* text only if it is masked, and a text is masked only once it is stored.
THEOREM TrimRefinesMemory ==
  ASSUME \A sc \in Scripts : TextOnly(sc)
  PROVE  Spec => ImplementsMemory
<1>1. Init => Memory!Init
  BY MemoryInit
<1>2. TypeInv /\ StoreInv /\ KeepInv /\ [Next]_vars => [Memory!Next]_(Memory!mvars)
  <2>. SUFFICES ASSUME TypeInv, StoreInv, KeepInv, [Next]_vars
                PROVE  [Memory!Next]_(Memory!mvars)
    OBVIOUS
  <2>1. TextOnly(script[req.sid])
    BY DEF TypeInv, TypeOK, Requests
  <2>. QED  BY <2>1, MemoryStep
<1>. QED  BY <1>1, <1>2, TypeInvariance, StoreInvariance, KeepInvariance, PTL
     DEF Spec, ImplementsMemory, Memory!Spec
=============================================================================
