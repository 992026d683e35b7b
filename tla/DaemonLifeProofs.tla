-------------------------- MODULE DaemonLifeProofs --------------------------
(***************************************************************************)
(* Proofs about DaemonLife for any number of daemons, crashes and shells.  *)
(* The certificates need nothing else; one daemon at a time needs shells   *)
(* that wait out a boot and do not overlap (Patient, Serial).              *)
(***************************************************************************)
EXTENDS DaemonLife, TLAPS

USE PatientAssumption, CrashAssumption, NoneAssumption, ProcessAssumption

Processes == Daemons \cup Callers

-----------------------------------------------------------------------------
(* Types, part by part.                                                    *)

CallerRecs == [pc : CallerPcs, pid : Daemons \cup {None}, answer : Answers]
MakerRecs == [pc : MakerPcs, ca : Processes \cup {None}, open : BOOLEAN]

FileType == {pidFile, sockFile} \subseteq Daemons \cup {None}
PortType == port \in Daemons \cup {None}
ProxyType == proxy \in [Daemons -> {"off", "starting", "up", "failed", "noCerts"}]
StopType == stopping \in [Daemons -> BOOLEAN]
CallerType ==
  /\ caller \in [Callers -> CallerRecs]
  /\ \A c \in Callers : caller[c].pc \in {"wait", "term", "await"} => caller[c].pid # None
CertType == certs \in [CertFiles -> Processes \cup {None, Torn}]
MakerType == maker \in [Processes -> MakerRecs]

LEMMA TypeParts ==
  TypeOK <=> /\ FileType /\ PortType /\ pc \in [Daemons -> DaemonPcs] /\ ProxyType /\ StopType
             /\ CallerType /\ CertType /\ MakerType /\ raced \in BOOLEAN
             /\ crashes \in 0..MaxCrashes
BY DEF TypeOK, CertsTypeOK, FileType, PortType, ProxyType, StopType, CallerType, CallerRecs,
   CertType, MakerType, MakerRecs, Processes

LEMMA NextTypes ==
  ASSUME FileType', PortType', pc' \in [Daemons -> DaemonPcs], ProxyType', StopType',
         CallerType', CertType', MakerType', raced' \in BOOLEAN, crashes' \in 0..MaxCrashes
  PROVE  TypeOK'
BY DEF TypeOK, CertsTypeOK, FileType, PortType, ProxyType, StopType, CallerType, CallerRecs,
   CertType, MakerType, MakerRecs, Processes

LEMMA Moves ==
  ASSUME pc \in [Daemons -> DaemonPcs], NEW d \in Daemons, NEW from, NEW to \in DaemonPcs,
         Move(d, from, to)
  PROVE  /\ pc' \in [Daemons -> DaemonPcs] /\ pc[d] = from /\ pc'[d] = to
         /\ \A e \in Daemons \ {d} : pc'[e] = pc[e]
BY DEF Move

LEMMA Goes ==
  ASSUME CallerType, NEW c \in Callers, NEW p \in CallerPcs, Go(c, p),
         p \in {"wait", "term", "await"} => caller[c].pid # None
  PROVE  /\ CallerType'
         /\ caller'[c].pc = p /\ caller'[c].pid = caller[c].pid
         /\ caller'[c].answer = caller[c].answer
         /\ \A e \in Callers \ {c} : caller'[e] = caller[e]
<1>. DEFINE rec == [caller[c] EXCEPT !.pc = p]
<1>1. caller' = [caller EXCEPT ![c] = rec]
  BY DEF Go
<1>2. /\ rec \in CallerRecs /\ rec.pc = p /\ rec.pid = caller[c].pid
      /\ rec.answer = caller[c].answer
  BY DEF CallerType, CallerRecs
<1>. HIDE DEF rec
<1>. QED  BY <1>1, <1>2 DEF CallerType

LEMMA Returns ==
  ASSUME CallerType, NEW c \in Callers, NEW a \in Answers, Return(c, a)
  PROVE  /\ CallerType'
         /\ caller'[c].pc = "idle" /\ caller'[c].pid = None /\ caller'[c].answer = a
         /\ \A e \in Callers \ {c} : caller'[e] = caller[e]
<1>. DEFINE rec == [pc |-> "idle", pid |-> None, answer |-> a]
<1>1. caller' = [caller EXCEPT ![c] = rec]
  BY DEF Return
<1>2. rec \in CallerRecs /\ rec.pc = "idle" /\ rec.pid = None /\ rec.answer = a
  BY DEF CallerRecs, CallerPcs
<1>. HIDE DEF rec
<1>. QED  BY <1>1, <1>2 DEF CallerType

LEMMA IdleMakerFields ==
  IdleMaker \in MakerRecs /\ IdleMaker.pc = "idle" /\ IdleMaker.ca = None /\ ~IdleMaker.open
BY DEF IdleMaker, MakerRecs, MakerPcs

\* A process in ensure_certs moves, alone.
OneMaker(u, rec) == /\ maker' = [maker EXCEPT ![u] = rec] /\ rec \in MakerRecs

LEMMA MakerMoved ==
  ASSUME MakerType, NEW u \in Processes, NEW rec, OneMaker(u, rec)
  PROVE  MakerType' /\ maker'[u] = rec /\ \A v \in Processes \ {u} : maker'[v] = maker[v]
BY DEF MakerType, OneMaker

LEMMA LeaveMoves ==
  ASSUME MakerType, NEW u \in Processes, Leave(u)
  PROVE  /\ MakerType' /\ maker'[u] = IdleMaker
         /\ \A v \in Processes \ {u} : maker'[v] = maker[v]
BY IdleMakerFields, MakerMoved DEF Leave, OneMaker

LEMMA CallMoves ==
  ASSUME MakerType, NEW u \in Processes, Call(u)
  PROVE  /\ MakerType' /\ maker'[u].pc = "check" /\ ~maker'[u].open
         /\ \A v \in Processes \ {u} : maker'[v] = maker[v]
<1>. DEFINE rec == [IdleMaker EXCEPT !.pc = "check"]
<1>1. rec \in MakerRecs /\ rec.pc = "check" /\ ~rec.open
  BY DEF IdleMaker, MakerRecs, MakerPcs
<1>. HIDE DEF rec
<1>. QED  BY <1>1, MakerMoved DEF Call, OneMaker, rec

\* The steps of ensure_certs.
LEMMA CheckMoves ==
  ASSUME MakerType, NEW u \in Processes, Check(u)
  PROVE  /\ MakerType' /\ maker[u].pc = "check"
         /\ \A v \in Processes \ {u} : maker'[v] = maker[v]
         /\ UNCHANGED certs /\ raced' = (raced \/ \E v \in Processes \ {u} : Making(v))
         /\ ~maker'[u].open
         /\ \/ /\ Exists("caCrt") /\ Exists("serverPem") /\ maker'[u].pc = "done"
            \/ /\ Exists("caCrt") /\ Exists("caKey") /\ ~Exists("serverPem")
               /\ maker'[u].pc = "loadKey"
            \/ /\ ~(Exists("caCrt") /\ Exists("serverPem"))
               /\ ~(Exists("caCrt") /\ Exists("caKey"))
               /\ maker'[u].pc = "caKey" /\ maker'[u].ca = u
<1>. DEFINE done == [IdleMaker EXCEPT !.pc = "done"]
            load == [IdleMaker EXCEPT !.pc = "loadKey"]
            make == [IdleMaker EXCEPT !.pc = "caKey", !.ca = u]
            rec == IF Exists("caCrt") /\ Exists("serverPem") THEN done
                   ELSE IF Exists("caKey") /\ Exists("caCrt") THEN load ELSE make
<1>1. /\ done \in MakerRecs /\ done.pc = "done" /\ ~done.open
      /\ load \in MakerRecs /\ load.pc = "loadKey" /\ ~load.open
      /\ make \in MakerRecs /\ make.pc = "caKey" /\ make.ca = u /\ ~make.open
  BY DEF IdleMaker, MakerRecs, MakerPcs, CertFiles
<1>2. /\ maker[u].pc = "check" /\ maker' = [maker EXCEPT ![u] = rec] /\ UNCHANGED certs
      /\ raced' = (raced \/ \E v \in Processes \ {u} : Making(v))
  BY DEF Check, Processes
<1>. HIDE DEF done, load, make
<1>3. rec \in MakerRecs
  BY <1>1
<1>4. /\ ~rec.open
      /\ \/ /\ Exists("caCrt") /\ Exists("serverPem") /\ rec.pc = "done"
         \/ /\ Exists("caCrt") /\ Exists("caKey") /\ ~Exists("serverPem")
            /\ rec.pc = "loadKey"
         \/ /\ ~(Exists("caCrt") /\ Exists("serverPem"))
            /\ ~(Exists("caCrt") /\ Exists("caKey"))
            /\ rec.pc = "caKey" /\ rec.ca = u
  BY <1>1
<1>. HIDE DEF rec
<1>5. /\ MakerType' /\ maker'[u] = rec /\ \A v \in Processes \ {u} : maker'[v] = maker[v]
  BY <1>2, <1>3, MakerMoved DEF OneMaker
<1>. QED  BY <1>2, <1>4, <1>5

LEMMA LoadKeyMoves ==
  ASSUME MakerType, CertType, NEW u \in Processes, LoadKey(u)
  PROVE  /\ MakerType' /\ maker[u].pc = "loadKey"
         /\ \A v \in Processes \ {u} : maker'[v] = maker[v]
         /\ UNCHANGED <<certs, raced>> /\ ~maker'[u].open
         /\ \/ /\ Whole("caKey") /\ maker'[u].pc = "loadCrt"
               /\ maker'[u].ca = certs["caKey"]
            \/ ~Whole("caKey") /\ maker'[u].pc = "failed"
<1>. DEFINE load == [IdleMaker EXCEPT !.pc = "loadCrt", !.ca = certs["caKey"]]
            fail == [IdleMaker EXCEPT !.pc = "failed"]
            rec == IF Whole("caKey") THEN load ELSE fail
<1>1. /\ Whole("caKey") => load \in MakerRecs
      /\ load.pc = "loadCrt" /\ load.ca = certs["caKey"] /\ ~load.open
      /\ fail \in MakerRecs /\ fail.pc = "failed" /\ ~fail.open
  <2>1. Whole("caKey") => certs["caKey"] \in Processes
    BY DEF CertType, Whole, CertFiles
  <2>. QED  BY <2>1 DEF IdleMaker, MakerRecs, MakerPcs
<1>2. maker[u].pc = "loadKey" /\ maker' = [maker EXCEPT ![u] = rec] /\ UNCHANGED <<certs, raced>>
  BY DEF LoadKey
<1>. HIDE DEF load, fail
<1>3. /\ rec \in MakerRecs /\ ~rec.open
      /\ \/ Whole("caKey") /\ rec.pc = "loadCrt" /\ rec.ca = certs["caKey"]
         \/ ~Whole("caKey") /\ rec.pc = "failed"
  BY <1>1
<1>. HIDE DEF rec
<1>4. MakerType' /\ maker'[u] = rec /\ \A v \in Processes \ {u} : maker'[v] = maker[v]
  BY <1>2, <1>3, MakerMoved DEF OneMaker
<1>. QED  BY <1>2, <1>3, <1>4

LEMMA LoadCrtMoves ==
  ASSUME MakerType, NEW u \in Processes, LoadCrt(u)
  PROVE  /\ MakerType' /\ maker[u].pc = "loadCrt"
         /\ \A v \in Processes \ {u} : maker'[v] = maker[v]
         /\ UNCHANGED <<certs, raced>>
         /\ \/ /\ Whole("caCrt") /\ maker'[u].pc = "serverPem"
               /\ maker'[u].ca = maker[u].ca /\ maker'[u].open = maker[u].open
            \/ ~Whole("caCrt") /\ maker'[u].pc = "failed"
<1>. DEFINE make == [maker[u] EXCEPT !.pc = "serverPem"]
            fail == [IdleMaker EXCEPT !.pc = "failed"]
            rec == IF Whole("caCrt") THEN make ELSE fail
<1>1. /\ make \in MakerRecs /\ make.pc = "serverPem" /\ make.ca = maker[u].ca
      /\ make.open = maker[u].open /\ fail \in MakerRecs /\ fail.pc = "failed"
  BY DEF MakerType, IdleMaker, MakerRecs, MakerPcs, CertFiles
<1>2. maker[u].pc = "loadCrt" /\ maker' = [maker EXCEPT ![u] = rec] /\ UNCHANGED <<certs, raced>>
  BY DEF LoadCrt, MakerType
<1>. HIDE DEF make, fail
<1>3. /\ rec \in MakerRecs
      /\ \/ /\ Whole("caCrt") /\ rec.pc = "serverPem" /\ rec.ca = maker[u].ca
            /\ rec.open = maker[u].open
         \/ ~Whole("caCrt") /\ rec.pc = "failed"
  BY <1>1
<1>. HIDE DEF rec
<1>4. MakerType' /\ maker'[u] = rec /\ \A v \in Processes \ {u} : maker'[v] = maker[v]
  BY <1>2, <1>3, MakerMoved DEF OneMaker
<1>. QED  BY <1>2, <1>3, <1>4

LEMMA WriteFileMoves ==
  ASSUME MakerType, CertType, NEW u \in Processes, WriteFile(u)
  PROVE  LET f == maker[u].pc IN
         /\ f \in CertFiles /\ UNCHANGED raced
         /\ MakerType' /\ CertType'
         /\ \A v \in Processes \ {u} : maker'[v] = maker[v]
         /\ \A g \in CertFiles \ {f} : certs'[g] = certs[g]
         /\ \/ /\ ~maker[u].open /\ certs'[f] = Torn
               /\ maker'[u].pc = f /\ maker'[u].open /\ maker'[u].ca = maker[u].ca
            \/ /\ maker[u].open /\ certs'[f] = maker[u].ca /\ ~maker'[u].open
               /\ \/ f = "caKey" /\ maker'[u].pc = "caCrt" /\ maker'[u].ca = maker[u].ca
                  \/ f = "caCrt" /\ maker'[u].pc = "serverPem" /\ maker'[u].ca = maker[u].ca
                  \/ f = "serverPem" /\ maker'[u].pc = "done"
<1>. DEFINE f == maker[u].pc
            m == maker[u]
<1>1. /\ f \in CertFiles /\ UNCHANGED raced /\ m \in MakerRecs
      /\ certs[f] \in Processes \cup {None, Torn}
  BY DEF WriteFile, MakerType, CertType
<1>2. CASE ~m.open
  <2>. DEFINE rec == [m EXCEPT !.open = TRUE]
  <2>1. maker' = [maker EXCEPT ![u] = rec] /\ certs' = [certs EXCEPT ![f] = Torn]
    BY <1>2 DEF WriteFile, MakerType
  <2>2. rec \in MakerRecs /\ rec.pc = f /\ rec.open /\ rec.ca = m.ca
    BY <1>1 DEF MakerRecs
  <2>. HIDE DEF rec
  <2>3. MakerType' /\ maker'[u] = rec /\ \A v \in Processes \ {u} : maker'[v] = maker[v]
    BY <2>1, <2>2, MakerMoved DEF OneMaker
  <2>. HIDE DEF f, m
  <2>4. CertType' /\ certs'[f] = Torn /\ \A g \in CertFiles \ {f} : certs'[g] = certs[g]
    BY <1>1, <2>1 DEF CertType
  <2>. QED  BY <1>1, <1>2, <2>2, <2>3, <2>4 DEF f, m
<1>3. CASE m.open
  <2>. DEFINE next(q) == [m EXCEPT !.pc = q, !.open = FALSE]
              done == [IdleMaker EXCEPT !.pc = "done"]
  <2>1. /\ certs' = [certs EXCEPT ![f] = m.ca]
        /\ maker' = [maker EXCEPT ![u] =
             CASE f = "caKey" -> next("caCrt")
               [] f = "caCrt" -> next("serverPem")
               [] f = "serverPem" -> done]
    BY <1>3 DEF WriteFile, MakerType
  <2>2. /\ \A q \in CertFiles : next(q) \in MakerRecs /\ next(q).pc = q /\ ~next(q).open
                                  /\ next(q).ca = m.ca
        /\ done \in MakerRecs /\ done.pc = "done" /\ ~done.open
    BY <1>1 DEF MakerRecs, IdleMaker, MakerPcs
  <2>3. m.ca \in Processes \cup {None}
    BY <1>1 DEF MakerRecs
  <2>. HIDE DEF next, done
  <2>4. PICK rec \in MakerRecs :
          /\ maker' = [maker EXCEPT ![u] = rec] /\ ~rec.open
          /\ \/ f = "caKey" /\ rec.pc = "caCrt" /\ rec.ca = m.ca
             \/ f = "caCrt" /\ rec.pc = "serverPem" /\ rec.ca = m.ca
             \/ f = "serverPem" /\ rec.pc = "done"
    <3>. HIDE DEF f, m
    <3>1. "caCrt" \in CertFiles /\ "serverPem" \in CertFiles
      BY DEF CertFiles
    <3>2. CASE f = "caKey"
      BY <2>1, <2>2, <3>1, <3>2
    <3>3. CASE f = "caCrt"
      BY <2>1, <2>2, <3>1, <3>3
    <3>4. CASE f = "serverPem"
      BY <2>1, <2>2, <3>1, <3>4
    <3>. QED  BY <1>1, <3>2, <3>3, <3>4 DEF CertFiles
  <2>5. MakerType' /\ maker'[u] = rec /\ \A v \in Processes \ {u} : maker'[v] = maker[v]
    BY <2>4, MakerMoved DEF OneMaker
  <2>. HIDE DEF f, m
  <2>6. CertType' /\ certs'[f] = m.ca /\ \A g \in CertFiles \ {f} : certs'[g] = certs[g]
    BY <1>1, <2>1, <2>3 DEF CertType
  <2>. QED  BY <1>1, <1>3, <2>4, <2>5, <2>6 DEF f, m
<1>. QED  BY <1>2, <1>3

LEMMA MakerTypes ==
  ASSUME MakerType, CertType, raced \in BOOLEAN, NEW u \in Processes, MakerStep(u)
  PROVE  MakerType' /\ CertType' /\ raced' \in BOOLEAN
<1>1. CASE Check(u)
  BY <1>1, CheckMoves DEF CertType
<1>2. CASE LoadKey(u)
  BY <1>2, LoadKeyMoves DEF CertType
<1>3. CASE LoadCrt(u)
  BY <1>3, LoadCrtMoves DEF CertType
<1>4. CASE WriteFile(u)
  BY <1>4, WriteFileMoves
<1>. QED  BY <1>1, <1>2, <1>3, <1>4 DEF MakerStep

-----------------------------------------------------------------------------
(* What each step of a daemon or a shell leaves alone and what it types.   *)

LEMMA KilledMoves ==
  ASSUME TypeOK, NEW d \in Daemons, Killed(d)
  PROVE  /\ pc' \in [Daemons -> DaemonPcs] /\ pc'[d] = "dead"
         /\ \A e \in Daemons \ {d} : pc'[e] = pc[e]
         /\ ProxyType' /\ proxy'[d] = "off" /\ \A e \in Daemons \ {d} : proxy'[e] = proxy[e]
         /\ PortType' /\ port' = IF port = d THEN None ELSE port
         /\ MakerType' /\ maker'[d] = IdleMaker
         /\ \A v \in Processes \ {d} : maker'[v] = maker[v]
         /\ UNCHANGED <<pidFile, sockFile, certs, raced>>
<1>1. /\ pc \in [Daemons -> DaemonPcs] /\ ProxyType /\ PortType /\ MakerType
      /\ d \in Processes
  BY TypeParts DEF Processes
<1>2. /\ pc' = [pc EXCEPT ![d] = "dead"] /\ proxy' = [proxy EXCEPT ![d] = "off"]
      /\ port' = (IF port = d THEN None ELSE port) /\ Leave(d)
      /\ UNCHANGED <<pidFile, sockFile, certs, raced>>
  BY DEF Killed, FreePort, Files
<1>3. MakerType' /\ maker'[d] = IdleMaker /\ \A v \in Processes \ {d} : maker'[v] = maker[v]
  BY <1>1, <1>2, LeaveMoves
<1>4. pc' \in [Daemons -> DaemonPcs] /\ pc'[d] = "dead" /\ \A e \in Daemons \ {d} : pc'[e] = pc[e]
  BY <1>1, <1>2 DEF DaemonPcs
<1>5. /\ ProxyType' /\ proxy'[d] = "off" /\ \A e \in Daemons \ {d} : proxy'[e] = proxy[e]
      /\ PortType'
  BY <1>1, <1>2 DEF ProxyType, PortType
<1>. QED  BY <1>2, <1>3, <1>4, <1>5

LEMMA DaemonStepTypes ==
  ASSUME TypeOK, NEW d \in Daemons, DaemonStep(d) \/ Crash(d)
  PROVE  TypeOK'
<1>1. /\ FileType /\ PortType /\ pc \in [Daemons -> DaemonPcs] /\ ProxyType /\ StopType
      /\ CallerType /\ CertType /\ MakerType /\ raced \in BOOLEAN
      /\ crashes \in 0..MaxCrashes /\ d \in Processes
  BY TypeParts DEF Processes
<1>2. pc' \in [Daemons -> DaemonPcs]
  BY <1>1 DEF DaemonStep, WritePid, Construct, InstallSignals, MakeCerts, ProxyLacksCerts,
     StartProxy, StopProxy, UnlinkSocket, BindSocket, LeaveLoop, CloseSocket, Exit, Crash,
     Killed, Move, daemon, DaemonPcs
<1>3. ProxyType' /\ PortType'
  BY <1>1 DEF DaemonStep, WritePid, Construct, InstallSignals, MakeCerts, ProxyLacksCerts,
     StartProxy, StopProxy, UnlinkSocket, BindSocket, LeaveLoop, CloseSocket, Exit, Crash,
     Killed, FreePort, daemon, ProxyType, PortType
<1>4. FileType' /\ StopType'
  BY <1>1 DEF DaemonStep, WritePid, Construct, InstallSignals, MakeCerts, ProxyLacksCerts,
     StartProxy, StopProxy, UnlinkSocket, BindSocket, LeaveLoop, CloseSocket, Exit, Crash,
     Killed, Files, daemon, FileType, StopType
<1>5. caller' = caller /\ crashes' \in 0..MaxCrashes
  BY <1>1 DEF DaemonStep, WritePid, Construct, InstallSignals, MakeCerts, ProxyLacksCerts,
     StartProxy, StopProxy, UnlinkSocket, BindSocket, LeaveLoop, CloseSocket, Exit, Crash
<1>6. CertType' /\ MakerType' /\ raced' \in BOOLEAN
  <2>1. CASE UNCHANGED certVars
    BY <1>1, <2>1 DEF certVars, CertType, MakerType
  <2>2. CASE Call(d) /\ UNCHANGED <<certs, raced>>
    BY <1>1, <2>2, CallMoves DEF CertType
  <2>3. CASE Leave(d) /\ UNCHANGED <<certs, raced>>
    BY <1>1, <2>3, LeaveMoves DEF CertType
  <2>4. CASE MakerStep(d)
    BY <1>1, <2>4, MakerTypes
  <2>5. CASE StartProxy(d)
    <3>1. CASE Leave(d) /\ UNCHANGED <<certs, raced>>
      BY <2>3, <3>1
    <3>2. CASE ~Leave(d)
      <4>. DEFINE rec == [IdleMaker EXCEPT !.ca = certs["serverPem"]]
      <4>1. /\ maker' = [maker EXCEPT ![d] = rec] /\ UNCHANGED <<certs, raced>>
            /\ Whole("serverPem")
        BY <2>5, <3>2 DEF StartProxy
      <4>2. certs["serverPem"] \in Processes
        BY <1>1, <4>1 DEF CertType, Whole, CertFiles
      <4>3. rec \in MakerRecs
        BY <4>2 DEF IdleMaker, MakerRecs, MakerPcs
      <4>. HIDE DEF rec
      <4>. QED  BY <1>1, <4>1, <4>3, MakerMoved DEF OneMaker, CertType
    <3>3. UNCHANGED <<certs, raced>>
      BY <2>5 DEF StartProxy
    <3>. QED  BY <3>1, <3>2, <3>3
  <2>6. \/ UNCHANGED certVars \/ StartProxy(d) \/ MakerStep(d)
        \/ (Call(d) \/ Leave(d)) /\ UNCHANGED <<certs, raced>>
    BY DEF DaemonStep, WritePid, Construct, InstallSignals, MakeCerts, ProxyLacksCerts,
       StopProxy, UnlinkSocket, BindSocket, LeaveLoop, CloseSocket, Exit, Crash, Killed
  <2>. QED  BY <2>1, <2>2, <2>3, <2>4, <2>5, <2>6
<1>7. CallerType'
  BY <1>1, <1>5 DEF CallerType
<1>8. FileType' /\ PortType' /\ ProxyType' /\ StopType'
  BY <1>3, <1>4
<1>. QED  BY <1>2, <1>5, <1>6, <1>7, <1>8, NextTypes

LEMMA CallerStepTypes ==
  ASSUME TypeOK, NEW c \in Callers,
         \/ CallStart(c) \/ CallStop(c) \/ CallCerts(c)
         \/ CallerStep(c) \/ KillLate(c) \/ Interrupt(c)
  PROVE  TypeOK'
<1>1. /\ FileType /\ PortType /\ pc \in [Daemons -> DaemonPcs] /\ ProxyType /\ StopType
      /\ CallerType /\ CertType /\ MakerType /\ raced \in BOOLEAN
      /\ crashes \in 0..MaxCrashes /\ c \in Processes
  BY TypeParts DEF Processes
<1>. DEFINE Frame == /\ FileType' /\ PortType' /\ pc' \in [Daemons -> DaemonPcs]
                     /\ ProxyType' /\ StopType' /\ CertType' /\ MakerType'
                     /\ raced' \in BOOLEAN /\ crashes' \in 0..MaxCrashes
<1>2. ASSUME UNCHANGED <<certVars, crashes>>, FileType', pc' \in [Daemons -> DaemonPcs],
             UNCHANGED <<port, proxy, stopping>>
      PROVE  Frame
  BY <1>1, <1>2 DEF certVars, PortType, ProxyType, StopType, CertType, MakerType
<1>3. ASSUME UNCHANGED <<daemon, certVars, crashes>>, FileType'
      PROVE  Frame
  BY <1>1, <1>2, <1>3 DEF daemon
<1>4. UNCHANGED Files => FileType'
  BY <1>1 DEF Files, FileType
<1>5. ASSUME MakerType', CertType', raced' \in BOOLEAN, UNCHANGED <<Files, daemon>>,
             crashes' \in 0..MaxCrashes
      PROVE  Frame
  BY <1>1, <1>4, <1>5 DEF daemon, PortType, ProxyType, StopType
<1>6. ASSUME NEW d \in Daemons, Killed(d), UNCHANGED crashes, StopType'
      PROVE  Frame
  BY <1>1, <1>6, KilledMoves DEF CertType, FileType
<1>. HIDE DEF Frame
<1>. DEFINE Done == Frame /\ CallerType'
<1>7. SUFFICES Done
  BY NextTypes DEF Frame
<1>8. CASE CallStart(c) \/ CallCerts(c)
  <2>. DEFINE q == IF CallStart(c) THEN "check" ELSE "certs"
              rec == [[caller[c] EXCEPT !.pc = q] EXCEPT !.answer = "none"]
  <2>1. caller' = [caller EXCEPT ![c] = rec]
    BY <1>1, <1>8 DEF CallStart, CallCerts, CallerType
  <2>2. rec \in CallerRecs /\ rec.pc \in {"check", "certs"}
    BY <1>1 DEF CallerType, CallerRecs, CallerPcs, Answers
  <2>. HIDE DEF rec
  <2>3. CallerType'
    BY <1>1, <2>1, <2>2 DEF CallerType
  <2>4. CASE CallStart(c)
    BY <1>3, <1>4, <2>3, <2>4 DEF CallStart
  <2>5. CASE CallCerts(c)
    <3>1. MakerType' /\ CertType' /\ raced' \in BOOLEAN
      BY <1>1, <2>5, CallMoves DEF CallCerts, CertType
    <3>. QED  BY <1>1, <1>5, <2>3, <2>5, <3>1 DEF CallCerts
  <2>. QED  BY <1>8, <2>4, <2>5
<1>9. CASE CallStop(c)
  <2>1. Frame
    BY <1>3, <1>4, <1>9 DEF CallStop
  <2>2. CASE pidFile = None
    BY <1>1, <1>9, <2>1, <2>2, Returns DEF CallStop, Answers
  <2>3. CASE pidFile # None
    <3>. DEFINE rec == [pc |-> "term", pid |-> pidFile, answer |-> "none"]
    <3>1. caller' = [caller EXCEPT ![c] = rec]
      BY <1>9, <2>3 DEF CallStop
    <3>2. rec \in CallerRecs /\ rec.pid # None
      BY <1>1, <2>3 DEF CallerRecs, CallerPcs, Answers, FileType
    <3>. HIDE DEF rec
    <3>. QED  BY <1>1, <2>1, <3>1, <3>2 DEF CallerType
  <2>. QED  BY <2>2, <2>3
<1>10. CASE ShellMakesCerts(c)
  <2>1. MakerType' /\ CertType' /\ raced' \in BOOLEAN
    BY <1>1, <1>10, MakerTypes DEF ShellMakesCerts
  <2>2. Frame
    BY <1>1, <1>5, <1>10, <2>1 DEF ShellMakesCerts
  <2>. QED  BY <1>1, <1>10, <2>2 DEF ShellMakesCerts, CallerType
<1>11. CASE LeaveCerts(c) \/ Interrupt(c)
  <2>1. MakerType' /\ CertType' /\ raced' \in BOOLEAN
    BY <1>1, <1>11, LeaveMoves DEF LeaveCerts, Interrupt, CertType
  <2>2. crashes' \in 0..MaxCrashes /\ UNCHANGED <<Files, daemon>>
    BY <1>1, <1>11 DEF LeaveCerts, Interrupt
  <2>3. Frame
    BY <1>5, <2>1, <2>2
  <2>4. Go(c, "check") \/ Return(c, "none")
    BY <1>11 DEF LeaveCerts, Interrupt
  <2>5. CallerType'
    BY <1>1, <2>4, Goes, Returns DEF CallerPcs, Answers
  <2>. QED  BY <2>3, <2>5
<1>12. CASE CheckPid(c) \/ CheckPing(c) \/ CheckStale(c)
  <2>1. Frame
    BY <1>3, <1>4, <1>12 DEF CheckPid, CheckPing, CheckStale
  <2>2. Return(c, "ready") \/ \E p \in {"ping", "stale", "rmPid", "rmSock"} : Go(c, p)
    BY <1>12 DEF CheckPid, CheckPing, CheckStale
  <2>3. CallerType'
    BY <1>1, <2>2, Goes, Returns DEF CallerPcs, Answers
  <2>. QED  BY <2>1, <2>3
<1>13. CASE RemovePid(c) \/ RemoveSock(c)
  <2>1. UNCHANGED <<daemon, certVars, crashes>> /\ FileType'
    BY <1>1, <1>13 DEF RemovePid, RemoveSock, FileType
  <2>2. \E p \in {"rmSock", "spawn"} : Go(c, p)
    BY <1>13 DEF RemovePid, RemoveSock
  <2>3. CallerType'
    BY <1>1, <2>2, Goes DEF CallerPcs
  <2>. QED  BY <1>3, <2>1, <2>3
<1>14. CASE Spawn(c)
  <2>1. PICK d \in Daemons : /\ Move(d, "unborn", "boot")
                             /\ caller' = [caller EXCEPT ![c].pc = "wait", ![c].pid = d]
    BY <1>14 DEF Spawn
  <2>. DEFINE rec == [[caller[c] EXCEPT !.pc = "wait"] EXCEPT !.pid = d]
  <2>2. caller' = [caller EXCEPT ![c] = rec]
    BY <1>1, <2>1 DEF CallerType
  <2>3. rec \in CallerRecs /\ rec.pid # None
    BY <1>1 DEF CallerType, CallerRecs, CallerPcs
  <2>. HIDE DEF rec
  <2>4. CallerType'
    BY <1>1, <2>2, <2>3 DEF CallerType
  <2>5. pc' \in [Daemons -> DaemonPcs]
    BY <1>1, <2>1, Moves DEF DaemonPcs
  <2>6. UNCHANGED <<certVars, crashes>> /\ UNCHANGED <<port, proxy, stopping>> /\ FileType'
    BY <1>4, <1>14 DEF Spawn
  <2>. QED  BY <1>2, <2>4, <2>5, <2>6
<1>15. CASE WaitReady(c) \/ WaitTimeout(c) \/ AwaitDeath(c)
  <2>1. Frame
    BY <1>3, <1>4, <1>15 DEF WaitReady, WaitTimeout, AwaitDeath
  <2>2. \E a \in Answers : Return(c, a)
    BY <1>15 DEF WaitReady, WaitTimeout, AwaitDeath, Answers
  <2>. QED  BY <1>1, <2>1, <2>2, Returns
<1>16. CASE Terminate(c) \/ KillLate(c)
  <2>. DEFINE d == caller[c].pid
  <2>1. d \in Daemons
    BY <1>1, <1>16 DEF Terminate, KillLate, At, CallerType, CallerRecs
  <2>2. Return(c, "notRunning") \/ Return(c, "stopped") \/ Go(c, "await")
    BY <1>16 DEF Terminate, KillLate
  <2>3. CallerType'
    BY <1>1, <2>1, <2>2, Goes, Returns DEF CallerPcs, Answers
  <2>4. /\ UNCHANGED crashes
        /\ \/ UNCHANGED <<Files, daemon, certVars>>
           \/ Killed(d) /\ UNCHANGED stopping
           \/ /\ stopping' = [stopping EXCEPT ![d] = TRUE]
              /\ UNCHANGED <<Files, port, pc, proxy, certVars>>
    BY <1>16 DEF Terminate, KillLate
  <2>5. CASE UNCHANGED <<Files, daemon, certVars>>
    BY <1>3, <1>4, <2>3, <2>4, <2>5
  <2>6. CASE Killed(d) /\ UNCHANGED stopping
    BY <1>1, <1>6, <2>1, <2>3, <2>4, <2>6 DEF StopType
  <2>7. CASE /\ stopping' = [stopping EXCEPT ![d] = TRUE]
             /\ UNCHANGED <<Files, port, pc, proxy, certVars>>
    <3>1. StopType'
      BY <1>1, <2>7 DEF StopType
    <3>. QED  BY <1>1, <1>4, <2>3, <2>4, <2>7, <3>1
                 DEF certVars, PortType, ProxyType, CertType, MakerType, Frame
  <2>. QED  BY <2>4, <2>5, <2>6, <2>7
<1>. QED  BY <1>8, <1>9, <1>10, <1>11, <1>12, <1>13, <1>14, <1>15, <1>16 DEF CallerStep

\* Files name processes and a shell that waits has one to wait for, whoever is
\* killed and when.
THEOREM TypeInvariance == Spec => []TypeOK
<1>1. Init => TypeOK
  <2>. SUFFICES ASSUME Init  PROVE TypeOK
    OBVIOUS
  <2>1. CallerType
    BY DEF Init, CallerType, CallerRecs, CallerPcs, Answers
  <2>2. CertType /\ MakerType /\ raced \in BOOLEAN
    BY IdleMakerFields DEF Init, CertsInit, CertType, MakerType, Processes
  <2>3. FileType /\ PortType /\ pc \in [Daemons -> DaemonPcs] /\ ProxyType /\ StopType
    BY DEF Init, FileType, PortType, ProxyType, StopType, DaemonPcs
  <2>4. crashes \in 0..MaxCrashes
    BY DEF Init
  <2>. QED  BY <2>1, <2>2, <2>3, <2>4, TypeParts
<1>2. TypeOK /\ [Next]_vars => TypeOK'
  <2>. SUFFICES ASSUME TypeOK, [Next]_vars  PROVE TypeOK'
    OBVIOUS
  <2>1. CASE UNCHANGED vars
    BY <2>1 DEF vars, TypeOK, CertsTypeOK
  <2>. QED  BY <2>1, DaemonStepTypes, CallerStepTypes DEF Next
<1>. QED  BY <1>1, <1>2, PTL DEF Spec

-----------------------------------------------------------------------------
(* The certificates, whichever processes make them and wherever they die.  *)

\* A file that was left half written: nobody has it open.
Stuck(f) ==
  certs[f] = Torn /\ \A v \in Processes : ~(maker[v].pc = f /\ maker[v].open)

\* A file is only there when the files it rests on are whole, and is signed by
\* the CA that is on disk.
FilesInv ==
  /\ Exists("serverPem") => Whole("caCrt")
  /\ Exists("caCrt") => Whole("caKey")
  /\ Whole("caCrt") => certs["caCrt"] = certs["caKey"]
  /\ Whole("serverPem") => certs["serverPem"] = certs["caCrt"]

\* What a process in ensure_certs holds against what is on disk.
Hand(u) ==
  LET m == maker[u] IN
  /\ m.pc = "caKey" => /\ m.ca = u /\ ~Exists("caCrt")
                       /\ m.open => certs["caKey"] = Torn
  /\ m.pc = "caCrt" => /\ m.ca = u /\ certs["caKey"] = u /\ ~Exists("serverPem")
                       /\ certs["caCrt"] = IF m.open THEN Torn ELSE None
  /\ m.pc = "loadKey" => Exists("caCrt") /\ ~Exists("serverPem") /\ ~m.open
  /\ m.pc = "loadCrt" => /\ m.ca = certs["caKey"] /\ Exists("caCrt")
                         /\ ~Exists("serverPem") /\ ~m.open
  /\ m.pc = "serverPem" => /\ m.ca = certs["caKey"] /\ Whole("caCrt")
                           /\ certs["serverPem"] = IF m.open THEN Torn ELSE None
  /\ m.pc = "done" => Exists("serverPem") /\ \A v \in Processes : ~Making(v)
  /\ m.pc = "failed" => Stuck("caCrt")

Alone == \A u, v \in Processes : Making(u) /\ Making(v) => u = v

MakersInv == ~raced => Alone /\ FilesInv /\ \A u \in Processes : Hand(u)

\* What follows for the proxies: one without certificates met a file that stays
\* half written; one that is up serves what is on disk.
ProxiesInv ==
  /\ \A d \in Daemons : proxy[d] # "starting" => maker[d].pc = "idle"
  /\ ~raced => \A d \in Daemons :
       /\ proxy[d] = "noCerts" => Stuck("caCrt") \/ Stuck("serverPem")
       /\ proxy[d] = "up" => Whole("serverPem") /\ maker[d].ca = certs["serverPem"]

\* A process enters ensure_certs or leaves it, wherever it is.
Away(u) == /\ maker'[u].pc \in {"idle", "check"} /\ ~maker'[u].open
           /\ \A v \in Processes \ {u} : maker'[v] = maker[v]
           /\ UNCHANGED <<certs, raced>>

\* No step of one process alone mends a file left half written or rewrites a
\* whole chain.
SettledStays ==
  ~raced' => /\ Stuck("caCrt") => Stuck("caCrt")'
             /\ Stuck("serverPem") => Stuck("serverPem")'
             /\ Whole("serverPem") => certs'["serverPem"] = certs["serverPem"]

LEMMA AwayKeeps ==
  ASSUME MakersInv, NEW u \in Processes, Away(u)
  PROVE  MakersInv' /\ SettledStays
<1>1. \A f \in CertFiles : Stuck(f) => Stuck(f)'
  BY DEF Stuck, Away
<1>2. "caCrt" \in CertFiles /\ "serverPem" \in CertFiles
  BY DEF CertFiles
<1>3. SettledStays
  BY <1>1, <1>2 DEF SettledStays, Away
<1>. SUFFICES ASSUME ~raced  PROVE Alone' /\ FilesInv' /\ \A v \in Processes : Hand(v)'
  BY <1>3 DEF MakersInv, Away
<1>4. \A v \in Processes : Making(v)' => Making(v) /\ v # u
  BY DEF Making, Away
<1>5. Alone'
  BY <1>4 DEF Alone, MakersInv
<1>6. FilesInv'
  BY DEF FilesInv, Exists, Whole, Away, MakersInv
<1>7. ASSUME NEW v \in Processes  PROVE Hand(v)'
  <2>1. CASE v = u
    BY <2>1 DEF Hand, Away
  <2>2. CASE v # u
    BY <1>1, <1>2, <1>4, <2>2 DEF Hand, Away, MakersInv, Exists, Whole
  <2>. QED  BY <2>1, <2>2
<1>. QED  BY <1>5, <1>6, <1>7

LEMMA CheckKeeps ==
  ASSUME MakerType, MakersInv, NEW u \in Processes, Check(u)
  PROVE  MakersInv' /\ SettledStays
<1>1. /\ maker[u].pc = "check" /\ ~maker'[u].open
      /\ \A v \in Processes \ {u} : maker'[v] = maker[v]
      /\ UNCHANGED certs /\ raced' = (raced \/ \E v \in Processes \ {u} : Making(v))
      /\ \/ /\ Exists("caCrt") /\ Exists("serverPem") /\ maker'[u].pc = "done"
         \/ /\ Exists("caCrt") /\ Exists("caKey") /\ ~Exists("serverPem")
            /\ maker'[u].pc = "loadKey"
         \/ /\ ~(Exists("caCrt") /\ Exists("serverPem"))
            /\ ~(Exists("caCrt") /\ Exists("caKey"))
            /\ maker'[u].pc = "caKey" /\ maker'[u].ca = u
  BY CheckMoves
<1>2. \A f : Stuck(f) => Stuck(f)'
  BY <1>1 DEF Stuck
<1>3. SettledStays
  BY <1>1, <1>2 DEF SettledStays
<1>. SUFFICES ASSUME ~raced'  PROVE Alone' /\ FilesInv' /\ \A v \in Processes : Hand(v)'
  BY <1>3 DEF MakersInv
<1>4. /\ ~raced /\ \A v \in Processes : ~Making(v)
      /\ FilesInv /\ \A v \in Processes : Hand(v)
  BY <1>1 DEF MakersInv, Making
<1>5. \A v \in Processes : Making(v)' => v = u
  BY <1>1, <1>4 DEF Making
<1>6. Alone'
  BY <1>5 DEF Alone
<1>7. FilesInv'
  BY <1>1, <1>4 DEF FilesInv, Exists, Whole
<1>8. ~Exists("caKey") => ~Exists("caCrt")
  BY <1>4 DEF FilesInv, Exists, Whole
<1>9. Exists("serverPem") => Exists("caCrt") /\ Exists("caKey")
  BY <1>4 DEF FilesInv, Exists, Whole
<1>10. Exists("serverPem") => \A v \in Processes : ~Making(v)'
  BY <1>1, <1>4, <1>9 DEF Making
<1>11. ASSUME NEW v \in Processes  PROVE Hand(v)'
  <2>1. CASE v = u
    BY <1>1, <1>8, <1>10, <2>1 DEF Hand, Exists
  <2>2. CASE v # u
    <3>1. v \in Processes \ {u} /\ maker'[v] = maker[v] /\ ~Making(v) /\ Hand(v)
      BY <1>1, <1>4, <2>2
    <3>2. \/ maker[v].pc \in {"idle", "check"}
          \/ maker[v].pc = "done" /\ Exists("serverPem")
          \/ maker[v].pc = "failed" /\ Stuck("caCrt")
      BY <3>1 DEF Hand, Making
    <3>. QED  BY <1>1, <1>2, <1>10, <3>1, <3>2 DEF Hand, Exists
  <2>. QED  BY <2>1, <2>2
<1>. QED  BY <1>6, <1>7, <1>11

\* A process at work in ensure_certs is the only one, and finds the others
\* outside or, with caCrt half written, failed.
LEMMA WorksAlone ==
  ASSUME MakerType, MakersInv, ~raced, NEW u \in Processes, Making(u)
  PROVE  /\ FilesInv /\ Hand(u)
         /\ \A v \in Processes \ {u} : ~Making(v)
         /\ \A v \in Processes \ {u} : \/ maker[v].pc \in {"idle", "check"}
                                       \/ maker[v].pc = "failed" /\ Stuck("caCrt")
<1>1. Alone /\ FilesInv /\ \A v \in Processes : Hand(v)
  BY DEF MakersInv
<1>2. \A v \in Processes \ {u} : ~Making(v)
  BY <1>1 DEF Alone
<1>3. \A v \in Processes \ {u} : maker[v].pc \in {"idle", "check", "done", "failed"}
  BY <1>2 DEF Making
<1>. QED  BY <1>1, <1>2, <1>3 DEF Hand

LEMMA LoadsKeep ==
  ASSUME MakerType, CertType, MakersInv, NEW u \in Processes, LoadKey(u) \/ LoadCrt(u)
  PROVE  MakersInv' /\ SettledStays
<1>1. /\ \A v \in Processes \ {u} : maker'[v] = maker[v]
      /\ UNCHANGED <<certs, raced>>
      /\ \/ maker[u].pc = "loadKey" /\ Whole("caKey") /\ maker'[u].pc = "loadCrt"
            /\ maker'[u].ca = certs["caKey"] /\ ~maker'[u].open
         \/ maker[u].pc = "loadCrt" /\ Whole("caCrt") /\ maker'[u].pc = "serverPem"
            /\ maker'[u].ca = maker[u].ca /\ maker'[u].open = maker[u].open
         \/ maker[u].pc = "loadKey" /\ ~Whole("caKey") /\ maker'[u].pc = "failed"
         \/ maker[u].pc = "loadCrt" /\ ~Whole("caCrt") /\ maker'[u].pc = "failed"
  BY LoadKeyMoves, LoadCrtMoves
<1>. SUFFICES ASSUME ~raced
              PROVE  /\ Alone' /\ FilesInv' /\ \A v \in Processes : Hand(v)'
                     /\ SettledStays
  BY <1>1 DEF MakersInv, SettledStays
<1>2. Making(u)
  BY <1>1 DEF Making
<1>3. /\ FilesInv /\ Hand(u)
      /\ \A v \in Processes \ {u} : ~Making(v)
      /\ \A v \in Processes \ {u} : \/ maker[v].pc \in {"idle", "check"}
                                    \/ maker[v].pc = "failed" /\ Stuck("caCrt")
  BY <1>2, WorksAlone
<1>4. ~maker[u].open /\ Exists("caCrt") /\ Whole("caKey") /\ ~Exists("serverPem")
  BY <1>1, <1>3 DEF Hand, FilesInv
<1>5. \/ maker'[u].pc = "failed" /\ maker[u].pc = "loadCrt" /\ ~Whole("caCrt")
      \/ maker'[u].pc \in {"loadCrt", "serverPem"} /\ ~maker'[u].open
  BY <1>1, <1>4
<1>6. \A f \in {"caCrt", "serverPem"} : Stuck(f) => Stuck(f)'
  BY <1>1, <1>5 DEF Stuck
<1>7. Alone'
  BY <1>1, <1>3 DEF Alone, Making
<1>8. FilesInv'
  BY <1>1, <1>3 DEF FilesInv, Exists, Whole
<1>9. Hand(u)'
  <2>1. CASE maker'[u].pc = "failed"
    <3>1. certs["caCrt"] = Torn
      BY <1>1, <1>4, <2>1 DEF Whole, Exists
    <3>2. \A v \in Processes : maker'[v].pc # "caCrt"
      BY <1>1, <1>3, <2>1 DEF Making
    <3>3. Stuck("caCrt")'
      BY <1>1, <3>1, <3>2 DEF Stuck
    <3>. QED  BY <2>1, <3>3 DEF Hand
  <2>2. CASE maker'[u].pc \in {"loadCrt", "serverPem"}
    BY <1>1, <1>3, <1>4, <2>2 DEF Hand, Exists, Whole
  <2>. QED  BY <1>5, <2>1, <2>2
<1>10. ASSUME NEW v \in Processes \ {u}  PROVE Hand(v)'
  BY <1>1, <1>3, <1>6 DEF Hand
<1>11. SettledStays
  BY <1>1, <1>6 DEF SettledStays
<1>. QED  BY <1>7, <1>8, <1>9, <1>10, <1>11

LEMMA WritesKeep ==
  ASSUME MakerType, CertType, MakersInv, NEW u \in Processes, WriteFile(u)
  PROVE  MakersInv' /\ SettledStays
<1>. DEFINE f == maker[u].pc
<1>1. /\ f \in CertFiles /\ UNCHANGED raced /\ MakerType' /\ CertType'
      /\ \A v \in Processes \ {u} : maker'[v] = maker[v]
      /\ \A g \in CertFiles \ {f} : certs'[g] = certs[g]
      /\ \/ /\ ~maker[u].open /\ certs'[f] = Torn
            /\ maker'[u].pc = f /\ maker'[u].open /\ maker'[u].ca = maker[u].ca
         \/ /\ maker[u].open /\ certs'[f] = maker[u].ca /\ ~maker'[u].open
            /\ \/ f = "caKey" /\ maker'[u].pc = "caCrt" /\ maker'[u].ca = maker[u].ca
               \/ f = "caCrt" /\ maker'[u].pc = "serverPem" /\ maker'[u].ca = maker[u].ca
               \/ f = "serverPem" /\ maker'[u].pc = "done"
  BY WriteFileMoves
<1>. SUFFICES ASSUME ~raced
              PROVE  /\ Alone' /\ FilesInv' /\ \A v \in Processes : Hand(v)'
                     /\ SettledStays
  BY <1>1 DEF MakersInv, SettledStays
<1>2. Making(u)
  BY <1>1 DEF Making, CertFiles
<1>3. /\ FilesInv /\ Hand(u)
      /\ \A v \in Processes \ {u} : ~Making(v)
      /\ \A v \in Processes \ {u} : \/ maker[v].pc \in {"idle", "check"}
                                    \/ maker[v].pc = "failed" /\ Stuck("caCrt")
  BY <1>2, WorksAlone
<1>4. \A v \in Processes \ {u} : ~Making(v)'
  BY <1>1, <1>3 DEF Making
<1>5. Alone'
  BY <1>4 DEF Alone
<1>6. u \notin {None, Torn}
  BY DEF Processes
<1>7. Whole("serverPem") => f # "serverPem"
  BY <1>3 DEF Hand, Whole
<1>8. Exists("caCrt") => f # "caKey"
  BY <1>3 DEF Hand
<1>9. Stuck("caCrt") => f # "caCrt"
  BY <1>3 DEF Hand, Stuck
<1>10. Stuck("serverPem") => f # "serverPem"
  BY <1>3 DEF Hand, Stuck
<1>11. {"caKey", "caCrt", "serverPem"} = CertFiles
  BY DEF CertFiles
<1>12. Exists("caCrt") => f \in {"caCrt", "serverPem"}
  BY <1>1, <1>8, <1>11
<1>13. Stuck("caCrt") => Stuck("caCrt")'
  <2>. SUFFICES ASSUME Stuck("caCrt")  PROVE Stuck("caCrt")'
    OBVIOUS
  <2>1. f = "serverPem" /\ certs["caCrt"] = Torn
    BY <1>9, <1>12 DEF Stuck, Exists
  <2>2. certs'["caCrt"] = Torn
    BY <1>1, <1>11, <2>1
  <2>3. ~(maker'[u].pc = "caCrt" /\ maker'[u].open)
    BY <1>1, <2>1
  <2>. QED  BY <1>1, <2>2, <2>3 DEF Stuck
<1>14. Stuck("serverPem") => Stuck("serverPem")'
  <2>. SUFFICES ASSUME Stuck("serverPem")  PROVE Stuck("serverPem")'
    OBVIOUS
  <2>1. f # "serverPem" /\ Exists("serverPem") /\ Exists("caCrt")
    BY <1>3, <1>10 DEF Stuck, Exists, FilesInv, Whole
  <2>2. f = "caCrt"
    BY <1>12, <2>1
  <2>3. FALSE
    BY <1>3, <2>1, <2>2 DEF Hand
  <2>. QED  BY <2>3
<1>15. SettledStays
  BY <1>1, <1>7, <1>11, <1>13, <1>14 DEF SettledStays
<1>16. FilesInv' /\ Hand(u)'
  <2>1. CASE f = "caKey"
    <3>1. /\ certs'["caCrt"] = certs["caCrt"] /\ certs'["serverPem"] = certs["serverPem"]
          /\ certs["caCrt"] = None /\ certs["serverPem"] = None /\ maker[u].ca = u
      BY <1>1, <1>3, <1>11, <2>1 DEF Hand, Exists, FilesInv, Whole
    <3>2. FilesInv'
      BY <3>1 DEF FilesInv, Exists, Whole
    <3>3. Hand(u)'
      BY <1>1, <1>6, <2>1, <3>1 DEF Hand, Exists
    <3>. QED  BY <3>2, <3>3
  <2>2. CASE f = "caCrt"
    <3>1. /\ certs'["caKey"] = u /\ certs'["serverPem"] = None /\ maker[u].ca = u
          /\ certs'["caCrt"] \in {Torn, u}
      BY <1>1, <1>3, <1>11, <2>2 DEF Hand, Exists
    <3>2. FilesInv'
      BY <1>6, <3>1 DEF FilesInv, Exists, Whole
    <3>3. Hand(u)'
      BY <1>1, <1>6, <2>2, <3>1 DEF Hand, Exists, Whole
    <3>. QED  BY <3>2, <3>3
  <2>3. CASE f = "serverPem"
    <3>1. /\ certs'["caKey"] = certs["caKey"] /\ certs'["caCrt"] = certs["caCrt"]
          /\ Whole("caCrt") /\ certs["caCrt"] = certs["caKey"] /\ maker[u].ca = certs["caKey"]
          /\ certs'["serverPem"] \in {Torn, certs["caKey"]}
      BY <1>1, <1>3, <1>11, <2>3 DEF Hand, FilesInv
    <3>2. FilesInv'
      BY <3>1 DEF FilesInv, Exists, Whole
    <3>3. Hand(u)'
      <4>1. CASE maker[u].open
        <5>1. maker'[u].pc = "done" /\ Exists("serverPem")'
          BY <1>1, <2>3, <3>1, <4>1 DEF Exists, Whole
        <5>2. \A v \in Processes : ~Making(v)'
          BY <1>4, <5>1 DEF Making
        <5>. QED  BY <5>1, <5>2 DEF Hand
      <4>2. CASE ~maker[u].open
        BY <1>1, <2>3, <3>1, <4>2 DEF Hand, Exists, Whole
      <4>. QED  BY <4>1, <4>2
    <3>. QED  BY <3>2, <3>3
  <2>. QED  BY <1>1, <1>11, <2>1, <2>2, <2>3
<1>17. ASSUME NEW v \in Processes \ {u}  PROVE Hand(v)'
  BY <1>1, <1>3, <1>13 DEF Hand
<1>. QED  BY <1>5, <1>15, <1>16, <1>17

LEMMA MakerKeeps ==
  ASSUME MakerType, CertType, MakersInv, NEW u \in Processes, MakerStep(u)
  PROVE  MakersInv' /\ SettledStays
BY CheckKeeps, LoadsKeep, WritesKeep DEF MakerStep

\* Proxies that stay as they are, begin or end.
LEMMA ProxiesKeep ==
  ASSUME ProxiesInv, SettledStays, raced => raced',
         \A d \in Daemons : \/ proxy'[d] = proxy[d] /\ maker'[d] = maker[d]
                            \/ proxy'[d] = "starting"
                            \/ proxy'[d] = "off" /\ maker'[d].pc = "idle"
  PROVE  ProxiesInv'
<1>1. \A d \in Daemons : proxy'[d] # "starting" => maker'[d].pc = "idle"
  BY DEF ProxiesInv
<1>2. ASSUME ~raced', NEW d \in Daemons
      PROVE  /\ proxy'[d] = "noCerts" => Stuck("caCrt")' \/ Stuck("serverPem")'
             /\ proxy'[d] = "up" => Whole("serverPem")' /\ maker'[d].ca = certs'["serverPem"]
  <2>1. CASE proxy'[d] = proxy[d] /\ maker'[d] = maker[d]
    <3>1. CASE proxy[d] = "noCerts"
      BY <1>2, <2>1, <3>1 DEF ProxiesInv, SettledStays
    <3>2. CASE proxy[d] = "up"
      BY <1>2, <2>1, <3>2 DEF ProxiesInv, SettledStays, Whole
    <3>. QED  BY <2>1, <3>1, <3>2
  <2>. QED  BY <2>1
<1>. QED  BY <1>1, <1>2 DEF ProxiesInv

LEMMA ProxyNoCertsKeeps ==
  ASSUME TypeOK, MakersInv, ProxiesInv, NEW d \in Daemons, ProxyLacksCerts(d)
  PROVE  MakersInv' /\ ProxiesInv'
<1>1. /\ ProxyType /\ MakerType /\ CertType /\ d \in Processes /\ raced \in BOOLEAN
  BY TypeParts DEF Processes
<1>2. /\ Raised(d) \/ (Returned(d) /\ ~Whole("serverPem"))
      /\ proxy' = [proxy EXCEPT ![d] = "noCerts"] /\ Leave(d) /\ UNCHANGED <<certs, raced>>
  BY DEF ProxyLacksCerts
<1>3. maker'[d] = IdleMaker /\ \A v \in Processes \ {d} : maker'[v] = maker[v]
  BY <1>1, <1>2, LeaveMoves
<1>4. Away(d)
  BY <1>2, <1>3, IdleMakerFields DEF Away
<1>5. MakersInv' /\ SettledStays
  BY <1>1, <1>4, AwayKeeps
<1>6. proxy'[d] = "noCerts" /\ \A e \in Daemons \ {d} : proxy'[e] = proxy[e]
  BY <1>1, <1>2 DEF ProxyType
<1>7. ~raced => Stuck("caCrt") \/ Stuck("serverPem")
  <2>. SUFFICES ASSUME ~raced  PROVE Stuck("caCrt") \/ Stuck("serverPem")
    OBVIOUS
  <2>1. Hand(d)
    BY <1>1 DEF MakersInv
  <2>2. CASE Raised(d)
    BY <2>1, <2>2 DEF Hand, Raised
  <2>3. CASE Returned(d) /\ ~Whole("serverPem")
    <3>1. certs["serverPem"] = Torn /\ \A v \in Processes : ~Making(v)
      BY <2>1, <2>3 DEF Hand, Returned, Exists, Whole
    <3>. QED  BY <3>1 DEF Stuck, Making
  <2>. QED  BY <1>2, <2>2, <2>3
<1>8. ~raced' => Stuck("caCrt")' \/ Stuck("serverPem")'
  BY <1>2, <1>5, <1>7 DEF SettledStays
<1>9. \A e \in Daemons \ {d} : maker'[e] = maker[e]
  BY <1>3 DEF Processes
<1>10. ASSUME NEW e \in Daemons
       PROVE  /\ proxy'[e] # "starting" => maker'[e].pc = "idle"
              /\ ~raced' =>
                   /\ proxy'[e] = "noCerts" => Stuck("caCrt")' \/ Stuck("serverPem")'
                   /\ proxy'[e] = "up" => Whole("serverPem")' /\ maker'[e].ca = certs'["serverPem"]
  <2>1. CASE e = d
    BY <1>3, <1>6, <1>8, <2>1, IdleMakerFields
  <2>2. CASE e # d
    BY <1>2, <1>6, <1>8, <1>9, <2>2 DEF ProxiesInv, Whole
  <2>. QED  BY <2>1, <2>2
<1>. QED  BY <1>5, <1>10 DEF ProxiesInv

LEMMA ProxyStartKeeps ==
  ASSUME TypeOK, MakersInv, ProxiesInv, NEW d \in Daemons, StartProxy(d), port = None
  PROVE  MakersInv' /\ ProxiesInv'
<1>. DEFINE rec == [IdleMaker EXCEPT !.ca = certs["serverPem"]]
<1>1. /\ ProxyType /\ MakerType /\ CertType /\ d \in Processes /\ raced \in BOOLEAN
  BY TypeParts DEF Processes
<1>2. /\ Whole("serverPem") /\ proxy' = [proxy EXCEPT ![d] = "up"]
      /\ maker' = [maker EXCEPT ![d] = rec] /\ UNCHANGED <<certs, raced>>
  BY DEF StartProxy
<1>3. certs["serverPem"] \in Processes
  BY <1>1, <1>2 DEF CertType, Whole, CertFiles
<1>4. /\ rec \in MakerRecs /\ rec.pc = "idle" /\ ~rec.open /\ rec.ca = certs["serverPem"]
  BY <1>3 DEF IdleMaker, MakerRecs, MakerPcs
<1>. HIDE DEF rec
<1>5. maker'[d] = rec /\ \A v \in Processes \ {d} : maker'[v] = maker[v]
  BY <1>1, <1>2, <1>4, MakerMoved DEF OneMaker
<1>6. MakersInv' /\ SettledStays
  BY <1>1, <1>2, <1>4, <1>5, AwayKeeps DEF Away
<1>7. proxy'[d] = "up" /\ \A e \in Daemons \ {d} : proxy'[e] = proxy[e] /\ maker'[e] = maker[e]
  BY <1>1, <1>2, <1>5 DEF ProxyType, Processes
<1>8. ASSUME NEW e \in Daemons
      PROVE  /\ proxy'[e] # "starting" => maker'[e].pc = "idle"
             /\ ~raced' =>
                  /\ proxy'[e] = "noCerts" => Stuck("caCrt")' \/ Stuck("serverPem")'
                  /\ proxy'[e] = "up" => Whole("serverPem")' /\ maker'[e].ca = certs'["serverPem"]
  <2>1. CASE e = d
    BY <1>2, <1>4, <1>5, <1>7, <2>1 DEF Whole
  <2>2. CASE e # d
    BY <1>2, <1>6, <1>7, <2>2 DEF ProxiesInv, Whole, SettledStays
  <2>. QED  BY <2>1, <2>2
<1>. QED  BY <1>6, <1>8 DEF ProxiesInv

LEMMA MakerMoves ==
  ASSUME MakerType, CertType, NEW u \in Processes, MakerStep(u)
  PROVE  maker[u].pc # "idle" /\ \A v \in Processes \ {u} : maker'[v] = maker[v]
<1>1. CASE Check(u)
  BY <1>1, CheckMoves
<1>2. CASE LoadKey(u)
  BY <1>2, LoadKeyMoves
<1>3. CASE LoadCrt(u)
  BY <1>3, LoadCrtMoves
<1>4. CASE WriteFile(u)
  BY <1>4, WriteFileMoves DEF CertFiles
<1>. QED  BY <1>1, <1>2, <1>3, <1>4 DEF MakerStep

LEMMA CertsStep ==
  ASSUME TypeOK, MakersInv, ProxiesInv, [Next]_vars
  PROVE  MakersInv' /\ ProxiesInv'
<1>1. /\ ProxyType /\ MakerType /\ CertType /\ raced \in BOOLEAN
      /\ Daemons \subseteq Processes /\ Callers \subseteq Processes
  BY TypeParts DEF Processes
<1>2. CASE UNCHANGED <<certVars, proxy>>
  BY <1>2 DEF certVars, MakersInv, ProxiesInv, Alone, FilesInv, Hand, Stuck, Exists, Whole, Making
<1>3. ASSUME NEW u \in Processes, MakerStep(u), UNCHANGED proxy
      PROVE  MakersInv' /\ ProxiesInv'
  <2>1. MakersInv' /\ SettledStays
    BY <1>1, <1>3, MakerKeeps
  <2>2. raced => raced'
    BY <1>3 DEF MakerStep, Check, LoadKey, LoadCrt, WriteFile
  <2>3. maker[u].pc # "idle" /\ \A v \in Processes \ {u} : maker'[v] = maker[v]
    BY <1>1, <1>3, MakerMoves
  <2>4. \A d \in Daemons : \/ proxy'[d] = proxy[d] /\ maker'[d] = maker[d]
                           \/ proxy'[d] = "starting"
    BY <1>1, <1>3, <2>3 DEF ProxiesInv
  <2>. QED  BY <2>1, <2>2, <2>4, ProxiesKeep
<1>4. ASSUME NEW u \in Processes, Call(u) \/ Leave(u), UNCHANGED <<certs, raced>>,
             \A d \in Daemons :
               \/ proxy'[d] = proxy[d] /\ d # u
               \/ proxy'[d] = "starting"
               \/ proxy'[d] = "off" /\ (d = u => Leave(u)) /\ (d # u => proxy[d] = "off")
      PROVE  MakersInv' /\ ProxiesInv'
  <2>1. /\ \A v \in Processes \ {u} : maker'[v] = maker[v]
        /\ maker'[u].pc \in {"idle", "check"} /\ ~maker'[u].open
        /\ Leave(u) => maker'[u].pc = "idle"
    BY <1>1, <1>4, CallMoves, LeaveMoves, IdleMakerFields
  <2>2. MakersInv' /\ SettledStays
    BY <1>1, <1>4, <2>1, AwayKeeps DEF Away
  <2>3. \A d \in Daemons : \/ proxy'[d] = proxy[d] /\ maker'[d] = maker[d]
                           \/ proxy'[d] = "starting"
                           \/ proxy'[d] = "off" /\ maker'[d].pc = "idle"
    BY <1>1, <1>4, <2>1 DEF ProxiesInv
  <2>. QED  BY <1>4, <2>2, <2>3, ProxiesKeep
<1>5. ASSUME NEW d \in Daemons, Leave(d), UNCHANGED <<certs, raced>>,
             proxy' = [proxy EXCEPT ![d] = "off"]
      PROVE  MakersInv' /\ ProxiesInv'
  <2>1. \A e \in Daemons : \/ proxy'[e] = proxy[e] /\ e # d
                           \/ proxy'[e] = "off" /\ e = d
    BY <1>1, <1>5 DEF ProxyType
  <2>. QED  BY <1>1, <1>4, <1>5, <2>1
<1>6. ASSUME NEW d \in Daemons, DaemonStep(d) \/ Crash(d)
      PROVE  MakersInv' /\ ProxiesInv'
  <2>1. CASE Construct(d)
    <3>1. proxy'[d] = "starting" /\ \A e \in Daemons \ {d} : proxy'[e] = proxy[e]
      BY <1>1, <2>1 DEF Construct, ProxyType
    <3>. QED  BY <1>1, <1>4, <2>1, <3>1 DEF Construct
  <2>2. CASE MakeCerts(d)
    BY <1>1, <1>3, <2>2 DEF MakeCerts, daemon
  <2>3. CASE StartProxy(d) /\ port # None
    <3>1. /\ proxy'[d] = "failed" /\ \A e \in Daemons \ {d} : proxy'[e] = proxy[e]
          /\ Leave(d) /\ UNCHANGED <<certs, raced>>
      BY <1>1, <2>3 DEF StartProxy, ProxyType
    <3>2. maker'[d] = IdleMaker /\ \A v \in Processes \ {d} : maker'[v] = maker[v]
      BY <1>1, <3>1, LeaveMoves
    <3>3. MakersInv' /\ SettledStays
      BY <1>1, <3>1, <3>2, IdleMakerFields, AwayKeeps DEF Away
    <3>4. ASSUME NEW e \in Daemons
          PROVE  /\ proxy'[e] # "starting" => maker'[e].pc = "idle"
                 /\ ~raced' =>
                      /\ proxy'[e] = "noCerts" => Stuck("caCrt")' \/ Stuck("serverPem")'
                      /\ proxy'[e] = "up" =>
                           Whole("serverPem")' /\ maker'[e].ca = certs'["serverPem"]
      <4>1. CASE e = d
        BY <3>1, <3>2, <4>1, IdleMakerFields
      <4>2. CASE e # d
        <5>1. proxy'[e] = proxy[e] /\ maker'[e] = maker[e]
          BY <1>1, <3>1, <3>2, <4>2
        <5>. QED  BY <3>1, <3>3, <5>1 DEF ProxiesInv, SettledStays, Whole
      <4>. QED  BY <4>1, <4>2
    <3>. QED  BY <3>3, <3>4 DEF ProxiesInv
  <2>4. CASE StopProxy(d) \/ Exit(d) \/ Crash(d)
    BY <1>5, <2>4 DEF StopProxy, Exit, Crash, Killed
  <2>5. CASE \/ WritePid(d) \/ InstallSignals(d) \/ UnlinkSocket(d) \/ BindSocket(d)
             \/ LeaveLoop(d) \/ CloseSocket(d)
    <3>1. UNCHANGED <<certVars, proxy>>
      BY <2>5 DEF WritePid, InstallSignals, UnlinkSocket, BindSocket, LeaveLoop, CloseSocket
    <3>. QED  BY <1>2, <3>1
  <2>. QED  BY <1>6, <2>1, <2>2, <2>3, <2>4, <2>5, ProxyNoCertsKeeps, ProxyStartKeeps
            DEF DaemonStep
<1>7. ASSUME NEW c \in Callers,
             \/ CallStart(c) \/ CallStop(c) \/ CallCerts(c)
             \/ CallerStep(c) \/ KillLate(c) \/ Interrupt(c)
      PROVE  MakersInv' /\ ProxiesInv'
  <2>1. c \in Processes /\ c \notin Daemons
    BY <1>1
  <2>2. CASE CallCerts(c) \/ LeaveCerts(c) \/ Interrupt(c)
    <3>1. (Call(c) \/ Leave(c)) /\ UNCHANGED <<certs, raced, proxy>>
      BY <2>2 DEF CallCerts, LeaveCerts, Interrupt, daemon
    <3>. QED  BY <1>4, <2>1, <3>1
  <2>3. CASE ShellMakesCerts(c)
    BY <1>3, <2>1, <2>3 DEF ShellMakesCerts, daemon
  <2>4. CASE (Terminate(c) \/ KillLate(c)) /\ Killed(caller[c].pid)
    <3>1. caller[c].pid \in Daemons
      BY <2>4, TypeParts DEF Terminate, KillLate, At, CallerType, CallerRecs
    <3>. QED  BY <1>5, <2>4, <3>1 DEF Killed
  <2>5. CASE Terminate(c) /\ ~Killed(caller[c].pid)
    <3>1. UNCHANGED <<certVars, proxy>>
      BY <2>5 DEF Terminate, daemon
    <3>. QED  BY <1>2, <3>1
  <2>6. CASE \/ CallStart(c) \/ CallStop(c) \/ CheckPid(c) \/ CheckPing(c) \/ CheckStale(c)
             \/ RemovePid(c) \/ RemoveSock(c) \/ Spawn(c) \/ WaitReady(c) \/ WaitTimeout(c)
             \/ AwaitDeath(c)
    <3>1. UNCHANGED <<certVars, proxy>>
      BY <2>6 DEF CallStart, CallStop, CheckPid, CheckPing, CheckStale, RemovePid, RemoveSock,
         Spawn, WaitReady, WaitTimeout, AwaitDeath, daemon
    <3>. QED  BY <1>2, <3>1
  <2>7. KillLate(c) => Killed(caller[c].pid)
    BY DEF KillLate
  <2>. QED  BY <1>7, <2>2, <2>3, <2>4, <2>5, <2>6, <2>7 DEF CallerStep
<1>8. CASE UNCHANGED vars
  BY <1>2, <1>8 DEF vars, certVars
<1>. QED  BY <1>6, <1>7, <1>8 DEF Next

LEMMA CertsInvariance == Spec => [](MakersInv /\ ProxiesInv)
<1>1. Init => MakersInv /\ ProxiesInv
  <2>. SUFFICES ASSUME Init  PROVE MakersInv /\ ProxiesInv
    OBVIOUS
  <2>1. /\ \A u \in Processes : maker[u] = IdleMaker
        /\ \A f \in CertFiles : certs[f] = None
        /\ \A d \in Daemons : d \in Processes /\ proxy[d] = "off"
    BY DEF Init, CertsInit, Processes
  <2>2. Alone /\ \A u \in Processes : Hand(u)
    BY <2>1, IdleMakerFields DEF Alone, Hand, Making
  <2>3. FilesInv
    BY <2>1 DEF FilesInv, Exists, Whole, CertFiles
  <2>4. ProxiesInv
    BY <2>1, IdleMakerFields DEF ProxiesInv
  <2>. QED  BY <2>2, <2>3, <2>4 DEF MakersInv
<1>2. TypeOK /\ MakersInv /\ ProxiesInv /\ [Next]_vars => (MakersInv /\ ProxiesInv)'
  BY CertsStep
<1>. QED  BY <1>1, <1>2, TypeInvariance, PTL DEF Spec

\* The chain a proxy serves is signed by the CA on disk, whatever shells and
\* daemons made certificates before and wherever they were interrupted, as long
\* as no two were at it at once.
THEOREM ChainTrusted == Spec => []ChainIsTrusted
<1>1. MakersInv /\ ProxiesInv => ChainIsTrusted
  BY DEF MakersInv, ProxiesInv, FilesInv, ChainIsTrusted
<1>. QED  BY <1>1, CertsInvariance, PTL

\* A proxy goes without certificates only if a write was cut short in a file
\* that no later run repairs, or two processes wrote at once.
THEOREM CertsLackedOnlyIfTorn == Spec => []ProxyLacksCertsOnlyIfTorn
<1>1. ProxiesInv => ProxyLacksCertsOnlyIfTorn
  <2>1. "caCrt" \in CertFiles /\ "serverPem" \in CertFiles
    BY DEF CertFiles
  <2>. QED  BY <2>1 DEF ProxiesInv, ProxyLacksCertsOnlyIfTorn, Stuck
<1>. QED  BY <1>1, CertsInvariance, PTL

-----------------------------------------------------------------------------
(* One daemon at a time, for commands that are run one after the other.    *)

\* No command starts while another is under way.
Serial == \A c, e \in Callers : caller[c].pc # "idle" /\ caller[e].pc # "idle" => c = e

\* Every other shell is idle.
Turn(c) == \A e \in Callers \ {c} : caller[e].pc = "idle"

Serves(d) == pc[d] = "serve" /\ pidFile = d /\ sockFile = d /\ ~stopping[d]

\* On its way to serving: nobody else touches the files meanwhile.
Boots(d) ==
  /\ pc[d] \in {"boot", "load", "signals", "unlink", "bind", "serve"}
  /\ pc[d] # "boot" => pidFile = d
  /\ pc[d] = "bind" => sockFile = None
  /\ pc[d] = "serve" => sockFile = d
  /\ ~stopping[d]

Stops(d) == pc[d] \in {"serve", "close", "exit"} /\ stopping[d]

\* What the step of the shell whose turn it is says of a daemon that is alive.
Knows(c, d) ==
  /\ caller[c].pc \notin {"stale", "rmPid", "rmSock", "spawn"}
  /\ caller[c].pc \in {"idle", "certs", "check", "ping"} => Serves(d)
  /\ caller[c].pc = "wait" => d = caller[c].pid /\ Boots(d)
  /\ caller[c].pc = "term" => d = caller[c].pid /\ Serves(d)
  /\ caller[c].pc = "await" => d = caller[c].pid /\ Stops(d)

\* A shell spawns a daemon only where none is alive and leaves it only once it
\* serves or is dead.
LifeInv ==
  /\ AtMostOneAlive
  /\ \A d \in Daemons : pc[d] = "unborn" => ~stopping[d]
  /\ \A c \in Callers : Turn(c) => \A d \in Daemons : Alive(d) => Knows(c, d)

\* The port is the one of the proxy that is up, which is gone with its process,
\* and no proxy finds it taken.
PortInv ==
  /\ \A d \in Daemons : port = d <=> proxy[d] = "up"
  /\ \A d \in Daemons : pc[d] \in {"unborn", "boot", "load", "dead"} => proxy[d] = "off"
  /\ \A d \in Daemons : proxy[d] = "off" =>
       pc[d] \in {"unborn", "boot", "load", "dead"} \/ stopping[d]
  /\ \A d \in Daemons : proxy[d] # "failed"

\* A shell is in ensure_certs only at the step that calls it.
ShellInv == \A c \in Callers : maker[c].pc # "idle" => caller[c].pc = "certs"

LEMMA OnlyOneMoves ==
  ASSUME TypeOK, LifeInv, NEW d \in Daemons, Alive(d), UNCHANGED <<caller, stopping>>,
         \A e \in Daemons \ {d} : pc'[e] = pc[e],
         pc'[d] # "unborn",
         \A c \in Callers : Turn(c) /\ Alive(d)' => Knows(c, d)'
  PROVE  LifeInv'
<1>1. \A e \in Daemons \ {d} : ~Alive(e) /\ ~Alive(e)'
  BY DEF LifeInv, AtMostOneAlive, Alive
<1>2. \A c \in Callers : Turn(c)' <=> Turn(c)
  BY DEF Turn
<1>. QED  BY <1>1, <1>2 DEF LifeInv, AtMostOneAlive

LEMMA DaemonLifeKeeps ==
  ASSUME TypeOK, LifeInv, NEW d \in Daemons, DaemonStep(d) \/ Crash(d)
  PROVE  LifeInv'
<1>1. pc \in [Daemons -> DaemonPcs] /\ d # None
  BY TypeParts
<1>2. CASE UNCHANGED <<pidFile, sockFile, pc, stopping, caller>>
  BY <1>2 DEF LifeInv, AtMostOneAlive, Alive, Turn, Knows, Serves, Boots, Stops
<1>3. CASE MakeCerts(d) \/ ProxyLacksCerts(d) \/ StartProxy(d) \/ StopProxy(d)
  <2>1. UNCHANGED <<pidFile, sockFile, pc, stopping, caller>>
    BY <1>3 DEF MakeCerts, ProxyLacksCerts, StartProxy, StopProxy, Files, daemon
  <2>. QED  BY <1>2, <2>1
<1>4. CASE Exit(d) \/ Crash(d)
  <2>1. /\ Alive(d) /\ pc' = [pc EXCEPT ![d] = "dead"] /\ UNCHANGED <<caller, stopping>>
    BY <1>1, <1>4 DEF Exit, Crash, Killed, Move, Alive
  <2>2. pc'[d] = "dead" /\ \A e \in Daemons \ {d} : pc'[e] = pc[e]
    BY <1>1, <2>1
  <2>3. ~Alive(d)'
    BY <2>2 DEF Alive
  <2>. QED  BY <2>1, <2>2, <2>3, OnlyOneMoves
<1>5. ASSUME NEW from \in DaemonPcs \ {"unborn", "dead"}, NEW to \in DaemonPcs \ {"unborn"},
             Move(d, from, to), UNCHANGED <<caller, stopping>>,
             \A c \in Callers : pc[d] = from /\ pc'[d] = to /\ Knows(c, d) => Knows(c, d)'
      PROVE  LifeInv'
  <2>1. pc[d] = from /\ pc'[d] = to /\ \A e \in Daemons \ {d} : pc'[e] = pc[e]
    BY <1>1, <1>5, Moves
  <2>2. Alive(d) /\ \A c \in Callers : Turn(c) => Knows(c, d)
    BY <1>1, <2>1 DEF Alive, LifeInv
  <2>. QED  BY <1>5, <2>1, <2>2, OnlyOneMoves
<1>6. CASE WritePid(d)
  <2>1. Move(d, "boot", "load") /\ pidFile' = d /\ UNCHANGED <<sockFile, caller, stopping>>
    BY <1>6 DEF WritePid
  <2>2. \A c \in Callers : pc[d] = "boot" /\ pc'[d] = "load" /\ Knows(c, d) => Knows(c, d)'
    BY <2>1 DEF Knows, Serves, Boots, Stops
  <2>. QED  BY <1>5, <2>1, <2>2 DEF DaemonPcs
<1>7. CASE Construct(d)
  <2>1. Move(d, "load", "signals") /\ UNCHANGED <<pidFile, sockFile, caller, stopping>>
    BY <1>7 DEF Construct, Files
  <2>2. \A c \in Callers : pc[d] = "load" /\ pc'[d] = "signals" /\ Knows(c, d) => Knows(c, d)'
    BY <2>1 DEF Knows, Serves, Boots, Stops
  <2>. QED  BY <1>5, <2>1, <2>2 DEF DaemonPcs
<1>8. CASE InstallSignals(d)
  <2>1. Move(d, "signals", "unlink") /\ UNCHANGED <<pidFile, sockFile, caller, stopping>>
    BY <1>8 DEF InstallSignals
  <2>2. \A c \in Callers : pc[d] = "signals" /\ pc'[d] = "unlink" /\ Knows(c, d) => Knows(c, d)'
    BY <2>1 DEF Knows, Serves, Boots, Stops
  <2>. QED  BY <1>5, <2>1, <2>2 DEF DaemonPcs
<1>9. CASE UnlinkSocket(d)
  <2>1. Move(d, "unlink", "bind") /\ sockFile' = None /\ UNCHANGED <<pidFile, caller, stopping>>
    BY <1>9 DEF UnlinkSocket
  <2>2. \A c \in Callers : pc[d] = "unlink" /\ pc'[d] = "bind" /\ Knows(c, d) => Knows(c, d)'
    BY <2>1 DEF Knows, Serves, Boots, Stops
  <2>. QED  BY <1>5, <2>1, <2>2 DEF DaemonPcs
<1>10. CASE BindSocket(d)
  <2>1. CASE sockFile = None
    <3>1. Move(d, "bind", "serve") /\ sockFile' = d /\ UNCHANGED <<pidFile, caller, stopping>>
      BY <1>10, <2>1 DEF BindSocket
    <3>2. \A c \in Callers : pc[d] = "bind" /\ pc'[d] = "serve" /\ Knows(c, d) => Knows(c, d)'
      BY <3>1 DEF Knows, Serves, Boots, Stops
    <3>. QED  BY <1>5, <3>1, <3>2 DEF DaemonPcs
  <2>2. CASE sockFile # None
    <3>1. Move(d, "bind", "exit") /\ sockFile' = sockFile /\ UNCHANGED <<pidFile, caller, stopping>>
      BY <1>10, <2>2 DEF BindSocket
    <3>2. \A c \in Callers : caller[c].pc \in CallerPcs
      BY TypeParts DEF CallerType, CallerRecs
    <3>3. \A c \in Callers : pc[d] = "bind" /\ Knows(c, d) => FALSE
      BY <2>2, <3>2 DEF Knows, Serves, Boots, Stops, CallerPcs
    <3>. QED  BY <1>5, <3>1, <3>3 DEF DaemonPcs
  <2>. QED  BY <2>1, <2>2
<1>11. CASE LeaveLoop(d)
  <2>1. Move(d, "serve", "close") /\ stopping[d]
        /\ UNCHANGED <<pidFile, sockFile, caller, stopping>>
    BY <1>11 DEF LeaveLoop
  <2>2. \A c \in Callers : pc[d] = "serve" /\ pc'[d] = "close" /\ Knows(c, d) => Knows(c, d)'
    BY <2>1 DEF Knows, Serves, Boots, Stops
  <2>. QED  BY <1>5, <2>1, <2>2 DEF DaemonPcs
<1>12. CASE CloseSocket(d)
  <2>1. Move(d, "close", "exit") /\ UNCHANGED <<pidFile, caller, stopping>>
    BY <1>12 DEF CloseSocket
  <2>2. \A c \in Callers : pc[d] = "close" /\ pc'[d] = "exit" /\ Knows(c, d) => Knows(c, d)'
    BY <2>1 DEF Knows, Serves, Boots, Stops
  <2>. QED  BY <1>5, <2>1, <2>2 DEF DaemonPcs
<1>. QED  BY <1>3, <1>4, <1>6, <1>7, <1>8, <1>9, <1>10, <1>11, <1>12 DEF DaemonStep

\* Where one shell has the turn, all that have it are idle or are that shell.
LEMMA OneTurn ==
  ASSUME NEW c \in Callers, Turn(c)', \A d \in Daemons : Alive(d)' => Knows(c, d)'
  PROVE  \A e \in Callers : Turn(e)' => \A d \in Daemons : Alive(d)' => Knows(e, d)'
<1>. SUFFICES ASSUME NEW e \in Callers, Turn(e)', NEW d \in Daemons, Alive(d)', e # c
              PROVE  Knows(e, d)'
  OBVIOUS
<1>1. caller'[c].pc = "idle" /\ caller'[e].pc = "idle"
  BY DEF Turn
<1>2. Knows(c, d)'
  OBVIOUS
<1>3. Serves(d)'
  BY <1>1, <1>2 DEF Knows
<1>. QED  BY <1>1, <1>3 DEF Knows

\* The shell moves and the daemons stay as they are.
LEMMA ShellMoves ==
  ASSUME LifeInv, NEW c \in Callers, Turn(c)', UNCHANGED <<pc, stopping>>,
         \A d \in Daemons : Alive(d) => Knows(c, d)'
  PROVE  LifeInv'
<1>1. \A d \in Daemons : Alive(d)' <=> Alive(d)
  BY DEF Alive
<1>2. \A e \in Callers : Turn(e)' => \A d \in Daemons : Alive(d)' => Knows(e, d)'
  BY <1>1, OneTurn
<1>. QED  BY <1>1, <1>2 DEF LifeInv, AtMostOneAlive

CallerMoves(c) ==
  \/ CallStart(c) \/ CallStop(c) \/ CallCerts(c)
  \/ CallerStep(c) \/ KillLate(c) \/ Interrupt(c)

\* Only c moves.
LEMMA OthersStay ==
  ASSUME TypeOK, NEW c \in Callers, CallerMoves(c)
  PROVE  \A e \in Callers \ {c} : caller'[e] = caller[e]
<1>1. CallerType
  BY TypeParts
<1>2. CASE ShellMakesCerts(c)
  BY <1>2 DEF ShellMakesCerts
<1>3. CASE ~ShellMakesCerts(c)
  BY <1>1, <1>3 DEF CallerMoves, CallerStep, CallStart, CallStop, CallCerts, KillLate, Interrupt,
     LeaveCerts, CheckPid, CheckPing, CheckStale, RemovePid, RemoveSock, Spawn, WaitReady,
     WaitTimeout, Terminate, AwaitDeath, Go, Return, CallerType
<1>. QED  BY <1>2, <1>3

\* A shell that does more than find nothing to stop has the turn before and after.
LEMMA TakesTurn ==
  ASSUME TypeOK, ShellInv, Serial, Serial', NEW c \in Callers, CallerMoves(c),
         ~(CallStop(c) /\ pidFile = None)
  PROVE  Turn(c) /\ Turn(c)'
<1>1. MakerType /\ CertType /\ CallerType /\ c \in Processes
  BY TypeParts DEF Processes
<1>2. \A e \in Callers \ {c} : caller'[e] = caller[e]
  BY OthersStay
<1>3. caller[c].pc # "idle" \/ caller'[c].pc # "idle"
  <2>1. CASE CallStart(c) \/ CallCerts(c)
    <3>1. \E q \in {"check", "certs"} :
            caller' = [caller EXCEPT ![c].pc = q, ![c].answer = "none"]
      BY <2>1 DEF CallStart, CallCerts
    <3>. QED  BY <1>1, <3>1 DEF CallerType, CallerRecs
  <2>2. CASE CallStop(c)
    <3>1. caller' = [caller EXCEPT
            ![c] = [pc |-> "term", pid |-> pidFile, answer |-> "none"]]
      BY <2>2 DEF CallStop
    <3>. QED  BY <1>1, <3>1 DEF CallerType
  <2>3. CASE ShellMakesCerts(c)
    <3>1. maker[c].pc # "idle"
      BY <1>1, <2>3, MakerMoves DEF ShellMakesCerts
    <3>. QED  BY <3>1 DEF ShellInv
  <2>4. CASE LeaveCerts(c)
    BY <2>4 DEF LeaveCerts, ShellInv, Raised, Returned
  <2>5. CASE \/ CheckPid(c) \/ CheckPing(c) \/ CheckStale(c) \/ RemovePid(c) \/ RemoveSock(c)
             \/ Spawn(c) \/ WaitReady(c) \/ WaitTimeout(c) \/ Terminate(c) \/ AwaitDeath(c)
             \/ KillLate(c) \/ Interrupt(c)
    BY <2>5 DEF CheckPid, CheckPing, CheckStale, RemovePid, RemoveSock, Spawn, WaitReady,
       WaitTimeout, Terminate, AwaitDeath, KillLate, Interrupt, At
  <2>. QED  BY <2>1, <2>2, <2>3, <2>4, <2>5 DEF CallerMoves, CallerStep
<1>4. CASE caller[c].pc # "idle"
  BY <1>2, <1>4 DEF Serial, Turn
<1>5. CASE caller'[c].pc # "idle"
  BY <1>2, <1>5 DEF Serial, Turn
<1>. QED  BY <1>3, <1>4, <1>5

LEMMA CallerLifeKeeps ==
  ASSUME Patient, TypeOK, ShellInv, LifeInv, Serial, Serial', NEW c \in Callers,
         CallerMoves(c)
  PROVE  LifeInv'
\* A stop with nothing to stop, whatever the others do.
<1>0. CASE CallStop(c) /\ pidFile = None
  <2>1. /\ CallerType /\ caller[c].pc = "idle" /\ Return(c, "notRunning")
        /\ UNCHANGED <<pidFile, sockFile, pc, stopping>>
    BY <1>0, TypeParts DEF CallStop, At, Files, daemon
  <2>2. caller'[c].pc = "idle" /\ \A e \in Callers \ {c} : caller'[e] = caller[e]
    BY <2>1, Returns DEF Answers
  <2>3. \A e \in Callers : Turn(e)' <=> Turn(e)
    BY <2>1, <2>2 DEF Turn
  <2>4. ASSUME NEW e \in Callers, NEW d \in Daemons, Knows(e, d)  PROVE Knows(e, d)'
    <3>1. CASE e = c
      <4>1. Serves(d)
        BY <2>1, <2>4, <3>1 DEF Knows
      <4>2. Serves(d)'
        BY <2>1, <4>1 DEF Serves
      <4>. QED  BY <2>2, <3>1, <4>2 DEF Knows
    <3>2. CASE e # c
      BY <2>1, <2>2, <2>4, <3>2 DEF Knows, Serves, Boots, Stops
    <3>. QED  BY <3>1, <3>2
  <2>. QED  BY <2>1, <2>3, <2>4 DEF LifeInv, AtMostOneAlive, Alive
<1>. SUFFICES ASSUME ~(CallStop(c) /\ pidFile = None)  PROVE LifeInv'
  BY <1>0
<1>. Turn(c) /\ Turn(c)'
  BY TakesTurn
<1>1. /\ pc \in [Daemons -> DaemonPcs] /\ CallerType /\ FileType /\ StopType
      /\ caller[c].pc \in CallerPcs
  BY TypeParts DEF CallerType, CallerRecs
<1>2. \A d \in Daemons : Alive(d) => Knows(c, d)
  BY DEF LifeInv
\* No daemon is alive, or one that serves and goes on serving.
<1>3. ASSUME caller'[c].pc \in {"idle", "certs", "check", "ping"}, UNCHANGED <<pidFile, sockFile>>,
             UNCHANGED <<pc, stopping>>, \A d \in Daemons : Alive(d) => Serves(d)
      PROVE  LifeInv'
  <2>1. \A d \in Daemons : Alive(d) => Knows(c, d)'
    BY <1>3 DEF Knows, Serves
  <2>. QED  BY <1>3, <2>1, ShellMoves
<1>4. ASSUME UNCHANGED <<pc, stopping>>, \A d \in Daemons : ~Alive(d)
      PROVE  LifeInv'
  BY <1>4, ShellMoves
<1>5. CASE CallStart(c) \/ CallCerts(c)
  <2>1. /\ caller[c].pc = "idle" /\ UNCHANGED <<pidFile, sockFile, pc, stopping>>
        /\ \E q \in {"check", "certs"} :
             caller' = [caller EXCEPT ![c].pc = q, ![c].answer = "none"]
    BY <1>5 DEF CallStart, CallCerts, At, Files, daemon
  <2>2. caller'[c].pc \in {"check", "certs"}
    BY <1>1, <2>1 DEF CallerType, CallerRecs
  <2>3. \A d \in Daemons : Alive(d) => Serves(d)
    BY <1>2, <2>1 DEF Knows
  <2>. QED  BY <1>3, <2>1, <2>2, <2>3
<1>6. CASE ShellMakesCerts(c)
  <2>1. UNCHANGED <<pidFile, sockFile, pc, stopping, caller>>
    BY <1>6 DEF ShellMakesCerts, Files, daemon
  <2>. QED  BY <1>2, <2>1, ShellMoves DEF Knows, Serves, Boots, Stops
<1>7. CASE LeaveCerts(c) \/ Interrupt(c)
  <2>1. /\ UNCHANGED <<pidFile, sockFile, pc, stopping>>
        /\ Go(c, "check") \/ Return(c, "none")
    BY <1>7 DEF LeaveCerts, Interrupt, Files, daemon
  <2>2. caller'[c].pc \in {"check", "idle"}
    BY <1>1, <2>1, Goes, Returns DEF CallerPcs, Answers
  <2>3. CASE caller[c].pc \in {"idle", "certs", "check", "ping"}
    <3>1. \A d \in Daemons : Alive(d) => Serves(d)
      BY <1>2, <2>3 DEF Knows
    <3>. QED  BY <1>3, <2>1, <2>2, <3>1
  <2>4. caller[c].pc = "certs"
    BY <1>7 DEF LeaveCerts, Interrupt, At, ShellInv, Raised, Returned
  <2>. QED  BY <2>3, <2>4
<1>8. CASE CheckPid(c)
  <2>1. /\ caller[c].pc = "check" /\ UNCHANGED <<pidFile, sockFile, pc, stopping>>
        /\ Go(c, IF Alive(pidFile) THEN "ping" ELSE "stale")
    BY <1>8 DEF CheckPid, At, Files, daemon
  <2>2. \A d \in Daemons : Alive(d) => Serves(d)
    BY <1>2, <2>1 DEF Knows
  <2>3. CASE Alive(pidFile)
    <3>1. caller'[c].pc = "ping"
      BY <1>1, <2>1, <2>3, Goes DEF CallerPcs
    <3>. QED  BY <1>3, <2>1, <2>2, <3>1
  <2>4. CASE ~Alive(pidFile)
    <3>1. \A d \in Daemons : ~Alive(d)
      BY <2>2, <2>4 DEF Serves
    <3>. QED  BY <1>4, <2>1, <3>1
  <2>. QED  BY <2>3, <2>4
<1>9. CASE CheckPing(c)
  <2>1. /\ caller[c].pc = "ping" /\ UNCHANGED <<pidFile, sockFile, pc, stopping>>
        /\ Answers_ping => Return(c, "ready")
    BY <1>9 DEF CheckPing, At, Files, daemon
  <2>2. \A d \in Daemons : Alive(d) => Serves(d)
    BY <1>2, <2>1 DEF Knows
  <2>3. CASE Answers_ping
    <3>1. caller'[c].pc = "idle"
      BY <1>1, <2>1, <2>3, Returns DEF Answers
    <3>. QED  BY <1>3, <2>1, <2>2, <3>1
  <2>4. CASE ~Answers_ping
    <3>1. \A d \in Daemons : ~Alive(d)
      BY <2>2, <2>4 DEF Serves, Answers_ping, Alive
    <3>. QED  BY <1>4, <2>1, <3>1
  <2>. QED  BY <2>3, <2>4
<1>10. CASE CheckStale(c) \/ RemovePid(c) \/ RemoveSock(c)
  <2>1. /\ caller[c].pc \in {"stale", "rmPid", "rmSock"} /\ UNCHANGED <<pc, stopping>>
    BY <1>10 DEF CheckStale, RemovePid, RemoveSock, At, daemon
  <2>2. \A d \in Daemons : ~Alive(d)
    BY <1>2, <2>1 DEF Knows
  <2>. QED  BY <1>4, <2>1, <2>2
<1>11. CASE Spawn(c)
  <2>1. PICK d \in Daemons : /\ Move(d, "unborn", "boot")
                             /\ caller' = [caller EXCEPT ![c].pc = "wait", ![c].pid = d]
    BY <1>11 DEF Spawn
  <2>2. caller[c].pc = "spawn" /\ UNCHANGED stopping
    BY <1>11 DEF Spawn, At
  <2>3. caller'[c].pc = "wait" /\ caller'[c].pid = d
    BY <1>1, <2>1 DEF CallerType, CallerRecs
  <2>4. \A e \in Daemons : ~Alive(e)
    BY <1>2, <2>2 DEF Knows
  <2>5. pc[d] = "unborn" /\ pc'[d] = "boot" /\ \A e \in Daemons \ {d} : pc'[e] = pc[e]
    BY <1>1, <2>1, Moves DEF DaemonPcs
  <2>6. \A e \in Daemons \ {d} : ~Alive(e)'
    BY <2>4, <2>5 DEF Alive
  <2>7. Knows(c, d)'
    BY <2>2, <2>3, <2>5 DEF Knows, Boots, LifeInv
  <2>8. \A e \in Callers : Turn(e)' => \A q \in Daemons : Alive(q)' => Knows(e, q)'
    BY <2>6, <2>7, OneTurn
  <2>. QED  BY <2>2, <2>5, <2>6, <2>8 DEF LifeInv, AtMostOneAlive
<1>12. CASE WaitReady(c)
  <2>1. /\ caller[c].pc = "wait" /\ UNCHANGED <<pidFile, sockFile, pc, stopping>>
        /\ Answers_ping /\ Return(c, "ready")
    BY <1>12 DEF WaitReady, At, Files, daemon
  <2>2. caller'[c].pc = "idle"
    BY <1>1, <2>1, Returns DEF Answers
  <2>3. sockFile \in Daemons /\ Alive(sockFile) /\ pc[sockFile] = "serve"
    BY <1>1, <2>1 DEF Answers_ping, FileType, Alive
  <2>4. Serves(sockFile)
    BY <1>2, <2>1, <2>3 DEF Knows, Boots, Serves
  <2>5. \A d \in Daemons : Alive(d) => Serves(d)
    BY <2>3, <2>4 DEF LifeInv, AtMostOneAlive
  <2>. QED  BY <1>3, <2>1, <2>2, <2>5
<1>13. CASE WaitTimeout(c) \/ AwaitDeath(c)
  <2>1. /\ caller[c].pc \in {"wait", "await"} /\ UNCHANGED <<pc, stopping>>
        /\ ~Alive(caller[c].pid)
    BY <1>13 DEF WaitTimeout, AwaitDeath, At, daemon
  <2>2. \A d \in Daemons : ~Alive(d)
    BY <1>2, <2>1 DEF Knows
  <2>. QED  BY <1>4, <2>1, <2>2
<1>14. CASE CallStop(c) /\ pidFile # None
  <2>1. caller[c].pc = "idle" /\ UNCHANGED <<pidFile, sockFile, pc, stopping>>
    BY <1>14 DEF CallStop, At, Files, daemon
  <2>2. \A d \in Daemons : Alive(d) => Serves(d)
    BY <1>2, <2>1 DEF Knows
  <2>3. caller'[c] = [pc |-> "term", pid |-> pidFile, answer |-> "none"]
    BY <1>1, <1>14 DEF CallStop, CallerType
  <2>4. \A d \in Daemons : Alive(d) => Knows(c, d)'
    BY <2>1, <2>2, <2>3 DEF Knows, Serves
  <2>. QED  BY <2>1, <2>4, ShellMoves
<1>15. ASSUME NEW d \in Daemons, d = caller[c].pid, caller[c].pc \in {"term", "await"},
              Killed(d), UNCHANGED stopping
       PROVE  LifeInv'
  <2>1. pc'[d] = "dead" /\ \A e \in Daemons \ {d} : pc'[e] = pc[e]
    BY <1>15, KilledMoves
  <2>2. \A e \in Daemons : ~Alive(e)'
    BY <1>2, <1>15, <2>1 DEF Knows, Alive
  <2>. QED  BY <1>15, <2>1, <2>2 DEF LifeInv, AtMostOneAlive
<1>16. CASE Terminate(c) \/ KillLate(c)
  <2>0. caller[c].pid \in Daemons /\ caller[c].pc \in {"term", "await"}
    BY <1>1, <1>16 DEF Terminate, KillLate, At, CallerType, CallerRecs
  <2>1. PICK d \in Daemons : d = caller[c].pid
    BY <2>0
  <2>2. \/ ~Alive(d) /\ UNCHANGED <<pc, stopping>>
        \/ Killed(d) /\ UNCHANGED stopping
        \/ /\ caller[c].pc = "term" /\ Alive(d) /\ stopping' = [stopping EXCEPT ![d] = TRUE]
           /\ Go(c, "await") /\ UNCHANGED <<pidFile, sockFile, pc>>
    BY <1>16, <2>1 DEF Terminate, KillLate, At, Files, daemon
  <2>3. \A e \in Daemons : Alive(e) => e = d
    BY <1>2, <2>0, <2>1 DEF Knows
  <2>4. CASE ~Alive(d) /\ UNCHANGED <<pc, stopping>>
    BY <1>4, <2>3, <2>4
  <2>5. CASE Killed(d) /\ UNCHANGED stopping
    BY <1>15, <2>0, <2>1, <2>5
  <2>6. CASE /\ caller[c].pc = "term" /\ Alive(d) /\ stopping' = [stopping EXCEPT ![d] = TRUE]
             /\ Go(c, "await") /\ UNCHANGED <<pidFile, sockFile, pc>>
    <3>1. Serves(d)
      BY <1>2, <2>1, <2>6 DEF Knows
    <3>2. caller'[c].pc = "await" /\ caller'[c].pid = d
      BY <1>1, <2>1, <2>6, Goes DEF CallerPcs, CallerType
    <3>3. stopping'[d] /\ \A e \in Daemons \ {d} : stopping'[e] = stopping[e]
      BY <1>1, <2>1, <2>6 DEF StopType
    <3>4. Knows(c, d)'
      BY <2>6, <3>1, <3>2, <3>3 DEF Knows, Serves, Stops
    <3>5. \A e \in Daemons : Alive(e)' => e = d
      BY <2>3, <2>6 DEF Alive
    <3>6. \A e \in Callers : Turn(e)' => \A q \in Daemons : Alive(q)' => Knows(e, q)'
      BY <3>4, <3>5, OneTurn
    <3>7. \A e \in Daemons : pc'[e] = "unborn" => ~stopping'[e]
      BY <2>6, <3>1, <3>3 DEF LifeInv, Serves
    <3>. QED  BY <3>5, <3>6, <3>7 DEF LifeInv, AtMostOneAlive
  <2>. QED  BY <2>2, <2>4, <2>5, <2>6
<1>. QED  BY <1>5, <1>6, <1>7, <1>8, <1>9, <1>10, <1>11, <1>12, <1>13, <1>14, <1>16
          DEF CallerMoves, CallerStep

LEMMA ShellStep ==
  ASSUME TypeOK, ShellInv, [Next]_vars
  PROVE  ShellInv'
<1>1. /\ MakerType /\ CertType /\ CallerType /\ Callers \cap Daemons = {}
      /\ Daemons \subseteq Processes /\ Callers \subseteq Processes
  BY TypeParts, ProcessAssumption DEF Processes
<1>2. ASSUME NEW u \in Processes \ Callers, UNCHANGED caller,
             \A v \in Processes \ {u} : maker'[v] = maker[v]
      PROVE  ShellInv'
  BY <1>1, <1>2 DEF ShellInv
<1>3. ASSUME NEW c \in Callers, \A e \in Callers \ {c} : caller'[e] = caller[e],
             \A e \in Callers \ {c} : maker'[e] = maker[e],
             maker'[c].pc # "idle" => caller'[c].pc = "certs"
      PROVE  ShellInv'
  BY <1>3 DEF ShellInv
<1>4. ASSUME NEW d \in Daemons, DaemonStep(d) \/ Crash(d)
      PROVE  ShellInv'
  <2>1. UNCHANGED caller
    BY <1>4 DEF DaemonStep, WritePid, Construct, InstallSignals, MakeCerts, ProxyLacksCerts,
       StartProxy, StopProxy, UnlinkSocket, BindSocket, LeaveLoop, CloseSocket, Exit, Crash
  <2>2. \/ MakerStep(d) \/ Call(d) \/ Leave(d) \/ UNCHANGED maker
        \/ \E r : maker' = [maker EXCEPT ![d] = r]
    BY <1>4 DEF DaemonStep, WritePid, Construct, InstallSignals, MakeCerts, ProxyLacksCerts,
       StartProxy, StopProxy, UnlinkSocket, BindSocket, LeaveLoop, CloseSocket, Exit, Crash,
       Killed, certVars
  <2>3. d \in Processes \ Callers
    BY <1>1
  <2>4. \A v \in Processes \ {d} : maker'[v] = maker[v]
    <3>1. CASE MakerStep(d)
      BY <1>1, <3>1, MakerMoves
    <3>2. CASE Call(d) \/ Leave(d) \/ \E r : maker' = [maker EXCEPT ![d] = r]
      BY <1>1, <3>2 DEF Call, Leave, MakerType
    <3>. QED  BY <2>2, <3>1, <3>2
  <2>. QED  BY <1>2, <2>1, <2>3, <2>4
<1>5. ASSUME NEW c \in Callers,
             \/ CallStart(c) \/ CallStop(c) \/ CallCerts(c)
             \/ CallerStep(c) \/ KillLate(c) \/ Interrupt(c)
      PROVE  ShellInv'
  <2>1. c \in Processes /\ \A e \in Callers \ {c} : e \in Processes
    BY <1>1
  <2>2. CASE ShellMakesCerts(c)
    <3>1. /\ maker[c].pc # "idle" /\ \A v \in Processes \ {c} : maker'[v] = maker[v]
          /\ UNCHANGED caller
      BY <1>1, <2>1, <2>2, MakerMoves DEF ShellMakesCerts
    <3>2. caller[c].pc = "certs"
      BY <3>1 DEF ShellInv
    <3>. QED  BY <1>3, <2>1, <3>1, <3>2
  <2>3. CASE ~ShellMakesCerts(c)
    <3>1. \A e \in Callers \ {c} : caller'[e] = caller[e]
      BY <1>5, OthersStay DEF CallerMoves
    <3>2. CASE LeaveCerts(c) \/ Interrupt(c)
      <4>1. Leave(c)
        BY <3>2 DEF LeaveCerts, Interrupt
      <4>2. maker'[c].pc = "idle" /\ \A v \in Processes \ {c} : maker'[v] = maker[v]
        BY <1>1, <2>1, <4>1, LeaveMoves, IdleMakerFields
      <4>. QED  BY <1>3, <2>1, <3>1, <4>2
    <3>3. CASE CallCerts(c)
      <4>1. Call(c) /\ caller' = [caller EXCEPT ![c].pc = "certs", ![c].answer = "none"]
        BY <3>3 DEF CallCerts
      <4>2. caller'[c].pc = "certs"
        BY <1>1, <4>1 DEF CallerType, CallerRecs
      <4>3. \A v \in Processes \ {c} : maker'[v] = maker[v]
        BY <1>1, <2>1, <4>1 DEF Call, MakerType
      <4>. QED  BY <1>3, <2>1, <3>1, <4>2, <4>3
    <3>4. CASE ~(LeaveCerts(c) \/ Interrupt(c) \/ CallCerts(c))
      <4>1. caller[c].pc # "certs"
        BY <1>5, <2>3, <3>4 DEF CallerStep, CallStart, CallStop, KillLate, CheckPid, CheckPing,
           CheckStale, RemovePid, RemoveSock, Spawn, WaitReady, WaitTimeout, Terminate,
           AwaitDeath, At
      <4>2. \/ UNCHANGED maker
            \/ caller[c].pc \in {"term", "await"} /\ Leave(caller[c].pid)
        BY <1>5, <2>3, <3>4 DEF CallerStep, CallStart, CallStop, KillLate, CheckPid, CheckPing,
           CheckStale, RemovePid, RemoveSock, Spawn, WaitReady, WaitTimeout, Terminate,
           AwaitDeath, At, Killed, certVars
      <4>3. \A e \in Callers : maker'[e] = maker[e]
        <5>1. CASE caller[c].pc \in {"term", "await"} /\ Leave(caller[c].pid)
          <6>1. caller[c].pid \in Daemons
            BY <1>1, <5>1 DEF CallerType, CallerRecs
          <6>. QED  BY <1>1, <5>1, <6>1 DEF Leave, MakerType
        <5>. QED  BY <4>2, <5>1
      <4>. QED  BY <1>3, <3>1, <4>1, <4>3 DEF ShellInv
    <3>. QED  BY <3>2, <3>3, <3>4
  <2>. QED  BY <2>2, <2>3
<1>6. CASE UNCHANGED vars
  BY <1>6 DEF vars, certVars, ShellInv
<1>. QED  BY <1>4, <1>5, <1>6 DEF Next

LEMMA ShellInvariance == Spec => []ShellInv
<1>1. Init => ShellInv
  BY IdleMakerFields DEF Init, CertsInit, ShellInv
<1>2. TypeOK /\ ShellInv /\ [Next]_vars => ShellInv'
  BY ShellStep
<1>. QED  BY <1>1, <1>2, TypeInvariance, PTL DEF Spec

LEMMA LifeInvariance ==
  ASSUME Patient  PROVE Spec /\ []Serial => []LifeInv
<1>1. Init => LifeInv
  <2>. SUFFICES ASSUME Init  PROVE LifeInv
    OBVIOUS
  <2>1. \A d \in Daemons : ~Alive(d) /\ ~stopping[d]
    BY DEF Init, Alive
  <2>. QED  BY <2>1 DEF LifeInv, AtMostOneAlive
<1>2. TypeOK /\ ShellInv /\ LifeInv /\ Serial /\ Serial' /\ [Next]_vars => LifeInv'
  <2>. SUFFICES ASSUME TypeOK, ShellInv, LifeInv, Serial, Serial', [Next]_vars  PROVE LifeInv'
    OBVIOUS
  <2>1. CASE UNCHANGED vars
    BY <2>1 DEF vars, LifeInv, AtMostOneAlive, Alive, Turn, Knows, Serves, Boots, Stops
  <2>. QED  BY <2>1, DaemonLifeKeeps, CallerLifeKeeps DEF Next, CallerMoves
<1>. QED  BY <1>1, <1>2, TypeInvariance, ShellInvariance, PTL DEF Spec

-----------------------------------------------------------------------------
(* The proxy port.                                                         *)

LEMMA PortStep ==
  ASSUME TypeOK, AtMostOneAlive, PortInv, [Next]_vars
  PROVE  PortInv'
<1>. DEFINE Unstarted == {"unborn", "boot", "load", "dead"}
<1>1. /\ pc \in [Daemons -> DaemonPcs] /\ PortType /\ ProxyType /\ StopType /\ CallerType
      /\ None \notin Daemons
  BY TypeParts, NoneAssumption
\* Only the place of one daemon changes.
<1>2. ASSUME NEW d \in Daemons, NEW from \in DaemonPcs, NEW to \in DaemonPcs, Move(d, from, to),
             UNCHANGED <<port, proxy, stopping>>,
             to \in Unstarted => from \in Unstarted,
             from \in Unstarted => to \in Unstarted
      PROVE  PortInv'
  <2>1. pc[d] = from /\ pc'[d] = to /\ \A e \in Daemons \ {d} : pc'[e] = pc[e]
    BY <1>1, <1>2, Moves
  <2>2. \A e \in Daemons : pc'[e] \in Unstarted <=> pc[e] \in Unstarted
    BY <1>2, <2>1
  <2>. QED  BY <1>2, <2>2 DEF PortInv
\* The daemon is no more, or its proxy is.
<1>3. ASSUME NEW d \in Daemons, FreePort(d), proxy' = [proxy EXCEPT ![d] = "off"],
             UNCHANGED stopping,
             \A e \in Daemons \ {d} : pc'[e] = pc[e],
             pc'[d] \in Unstarted \/ stopping[d]
      PROVE  PortInv'
  <2>1. proxy'[d] = "off" /\ \A e \in Daemons \ {d} : proxy'[e] = proxy[e]
    BY <1>1, <1>3 DEF ProxyType
  <2>2. port' # d /\ \A e \in Daemons \ {d} : port' = e <=> port = e
    BY <1>1, <1>3 DEF FreePort
  <2>. QED  BY <1>3, <2>1, <2>2 DEF PortInv
<1>4. CASE UNCHANGED <<port, pc, proxy, stopping>>
  BY <1>4 DEF PortInv
<1>5. ASSUME NEW d \in Daemons, DaemonStep(d) \/ Crash(d)
      PROVE  PortInv'
  <2>1. CASE Construct(d)
    <3>1. /\ pc[d] = "load" /\ pc'[d] = "signals"
          /\ \A e \in Daemons \ {d} : pc'[e] = pc[e]
      BY <1>1, <2>1, Moves DEF Construct, DaemonPcs
    <3>2. proxy'[d] = "starting" /\ \A e \in Daemons \ {d} : proxy'[e] = proxy[e]
      BY <1>1, <2>1 DEF Construct, ProxyType
    <3>3. UNCHANGED <<port, stopping>> /\ port # d
      BY <2>1, <3>1 DEF Construct, PortInv
    <3>. QED  BY <3>1, <3>2, <3>3 DEF PortInv
  <2>2. CASE ProxyLacksCerts(d)
    <3>1. proxy[d] = "starting" /\ UNCHANGED <<port, pc, stopping>>
      BY <2>2 DEF ProxyLacksCerts
    <3>2. proxy'[d] = "noCerts" /\ \A e \in Daemons \ {d} : proxy'[e] = proxy[e]
      BY <1>1, <2>2 DEF ProxyLacksCerts, ProxyType
    <3>. QED  BY <3>1, <3>2 DEF PortInv
  <2>3. CASE StartProxy(d)
    <3>1. proxy[d] = "starting" /\ UNCHANGED <<pc, stopping>>
      BY <2>3 DEF StartProxy
    \* Whoever holds the port is alive, and so is d.
    <3>2. port = None
      <4>. SUFFICES ASSUME port # None  PROVE FALSE
        OBVIOUS
      <4>1. port \in Daemons /\ proxy[port] = "up"
        BY <1>1 DEF PortType, PortInv
      <4>2. Alive(port) /\ Alive(d)
        BY <1>1, <3>1, <4>1 DEF PortInv, Alive
      <4>. QED  BY <3>1, <4>1, <4>2 DEF AtMostOneAlive
    <3>3. port' = d /\ proxy' = [proxy EXCEPT ![d] = "up"]
      BY <2>3, <3>2 DEF StartProxy
    <3>4. proxy'[d] = "up" /\ \A e \in Daemons \ {d} : proxy'[e] = proxy[e]
      BY <1>1, <3>3 DEF ProxyType
    <3>. QED  BY <1>1, <3>1, <3>2, <3>3, <3>4 DEF PortInv
  <2>4. CASE StopProxy(d)
    BY <1>3, <2>4 DEF StopProxy
  <2>5. CASE Exit(d) \/ Crash(d)
    <3>1. /\ FreePort(d) /\ proxy' = [proxy EXCEPT ![d] = "off"] /\ UNCHANGED stopping
          /\ pc' = [pc EXCEPT ![d] = "dead"]
      BY <2>5 DEF Exit, Crash, Killed, Move
    <3>2. pc'[d] = "dead" /\ \A e \in Daemons \ {d} : pc'[e] = pc[e]
      BY <1>1, <3>1
    <3>. QED  BY <1>3, <3>1, <3>2
  <2>6. CASE MakeCerts(d)
    BY <1>4, <2>6 DEF MakeCerts, daemon
  <2>7. CASE WritePid(d) \/ InstallSignals(d) \/ UnlinkSocket(d) \/ LeaveLoop(d) \/ CloseSocket(d)
    <3>1. UNCHANGED <<port, proxy, stopping>>
      BY <2>7 DEF WritePid, InstallSignals, UnlinkSocket, LeaveLoop, CloseSocket
    <3>2. \/ Move(d, "boot", "load") \/ Move(d, "signals", "unlink") \/ Move(d, "unlink", "bind")
          \/ Move(d, "serve", "close") \/ Move(d, "close", "exit")
      BY <2>7 DEF WritePid, InstallSignals, UnlinkSocket, LeaveLoop, CloseSocket
    <3>. QED  BY <1>2, <3>1, <3>2 DEF DaemonPcs
  <2>8. CASE BindSocket(d)
    <3>1. UNCHANGED <<port, proxy, stopping>>
      BY <2>8 DEF BindSocket
    <3>2. Move(d, "bind", "serve") \/ Move(d, "bind", "exit")
      BY <2>8 DEF BindSocket
    <3>. QED  BY <1>2, <3>1, <3>2 DEF DaemonPcs
  <2>. QED  BY <1>5, <2>1, <2>2, <2>3, <2>4, <2>5, <2>6, <2>7, <2>8 DEF DaemonStep
<1>6. ASSUME NEW c \in Callers,
             \/ CallStart(c) \/ CallStop(c) \/ CallCerts(c)
             \/ CallerStep(c) \/ KillLate(c) \/ Interrupt(c)
      PROVE  PortInv'
  <2>1. CASE Spawn(c)
    <3>1. PICK d \in Daemons : Move(d, "unborn", "boot")
      BY <2>1 DEF Spawn
    <3>. QED  BY <1>2, <2>1, <3>1 DEF Spawn, DaemonPcs
  <2>2. CASE Terminate(c) \/ KillLate(c)
    <3>1. PICK d \in Daemons : d = caller[c].pid
      BY <1>1, <2>2 DEF Terminate, KillLate, At, CallerType, CallerRecs
    <3>2. \/ UNCHANGED <<port, pc, proxy, stopping>>
          \/ Killed(d) /\ UNCHANGED stopping
          \/ stopping' = [stopping EXCEPT ![d] = TRUE] /\ UNCHANGED <<port, pc, proxy>>
      BY <2>2, <3>1 DEF Terminate, KillLate, daemon
    <3>3. CASE Killed(d) /\ UNCHANGED stopping
      <4>1. FreePort(d) /\ proxy' = [proxy EXCEPT ![d] = "off"] /\ pc' = [pc EXCEPT ![d] = "dead"]
        BY <3>3 DEF Killed
      <4>2. pc'[d] = "dead" /\ \A e \in Daemons \ {d} : pc'[e] = pc[e]
        BY <1>1, <4>1
      <4>. QED  BY <1>3, <3>3, <4>1, <4>2
    <3>4. CASE stopping' = [stopping EXCEPT ![d] = TRUE] /\ UNCHANGED <<port, pc, proxy>>
      <4>1. \A e \in Daemons : stopping[e] => stopping'[e]
        BY <1>1, <3>4 DEF StopType
      <4>. QED  BY <3>4, <4>1 DEF PortInv
    <3>. QED  BY <1>4, <3>2, <3>3, <3>4
  <2>3. CASE ~(Spawn(c) \/ Terminate(c) \/ KillLate(c))
    <3>1. UNCHANGED daemon
      BY <1>6, <2>3 DEF CallerStep, CallStart, CallStop, CallCerts, Interrupt, LeaveCerts,
         ShellMakesCerts, CheckPid, CheckPing, CheckStale, RemovePid, RemoveSock, WaitReady,
         WaitTimeout, AwaitDeath
    <3>. QED  BY <1>4, <3>1 DEF daemon
  <2>. QED  BY <2>1, <2>2, <2>3
<1>7. CASE UNCHANGED vars
  BY <1>4, <1>7 DEF vars, daemon
<1>. QED  BY <1>5, <1>6, <1>7 DEF Next

LEMMA PortInvariance ==
  ASSUME Patient  PROVE Spec /\ []Serial => []PortInv
<1>1. Init => PortInv
  BY NoneAssumption DEF Init, PortInv
<1>2. TypeOK /\ AtMostOneAlive /\ PortInv /\ [Next]_vars => PortInv'
  BY PortStep
<1>3. LifeInv => AtMostOneAlive
  BY DEF LifeInv
<1>. QED  BY <1>1, <1>2, <1>3, TypeInvariance, LifeInvariance, PTL DEF Spec

-----------------------------------------------------------------------------
\* However the commands of patient shells, the crashes and the kills follow one
\* another, a second daemon is never alive, as long as no two commands overlap.
THEOREM OneDaemon == ASSUME Patient  PROVE Spec /\ []Serial => []AtMostOneAlive
<1>1. LifeInv => AtMostOneAlive
  BY DEF LifeInv
<1>. QED  BY <1>1, LifeInvariance, PTL

\* A daemon that accepts and was not asked to stop is where status and stop
\* look for it.
THEOREM ServingVisible ==
  ASSUME Patient, Callers # {}  PROVE Spec /\ []Serial => []ServingIsVisible
<1>1. TypeOK /\ LifeInv /\ Serial => ServingIsVisible
  <2>. SUFFICES ASSUME TypeOK, LifeInv, Serial, NEW d \in Daemons, pc[d] = "serve", ~stopping[d]
                PROVE  pidFile = d /\ sockFile = d
    BY DEF ServingIsVisible
  <2>1. PICK c \in Callers : Turn(c)
    <3>1. CASE \E c \in Callers : caller[c].pc # "idle"
      BY <3>1 DEF Serial, Turn
    <3>2. CASE \A c \in Callers : caller[c].pc = "idle"
      BY <3>2 DEF Turn
    <3>. QED  BY <3>1, <3>2
  <2>2. caller[c].pc \in CallerPcs
    BY <2>1, TypeParts DEF CallerType, CallerRecs
  <2>3. Knows(c, d)
    BY <2>1, TypeParts DEF LifeInv, Alive
  <2>. QED  BY <2>2, <2>3 DEF Knows, Serves, Boots, Stops, CallerPcs
<1>. QED  BY <1>1, LifeInvariance, TypeInvariance, PTL

\* The daemon that answers RPC holds the proxy port, unless its proxy has yet
\* to start or found no certificates.
THEOREM NoBrainSplit == ASSUME Patient  PROVE Spec /\ []Serial => []NoSplitBrain
<1>1. TypeOK /\ PortInv => NoSplitBrain
  <2>. SUFFICES ASSUME TypeOK, PortInv, Answers_ping, ~stopping[sockFile]
                PROVE  proxy[sockFile] \in {"starting", "noCerts"} \/ port = sockFile
    BY DEF NoSplitBrain
  <2>1. sockFile \in Daemons /\ pc[sockFile] = "serve"
    BY TypeParts DEF Answers_ping, FileType
  <2>2. proxy[sockFile] \in {"off", "starting", "up", "failed", "noCerts"}
    BY <2>1, TypeParts DEF ProxyType
  <2>. QED  BY <2>1, <2>2 DEF PortInv
<1>. QED  BY <1>1, PortInvariance, TypeInvariance, PTL
=============================================================================
