----------------------------- MODULE DaemonLife -----------------------------
(***************************************************************************)
(* The life of the daemon process (daemon.py main and serve) and of the    *)
(* commands that start and stop it (cli.py, daemon_mgmt.py), which agree   *)
(* through a pid file, a socket path, the proxy port and the certificates. *)
(*                                                                         *)
(* Each check of a file or a process and each act on it are steps of their *)
(* own.  Process ids are not reused, and a ping answers at once when the   *)
(* socket path leads to a daemon that accepts.                             *)
(***************************************************************************)
EXTENDS Naturals, FiniteSets

CONSTANTS Daemons,      \* daemon processes that can be spawned
          Callers,      \* shells that run start and stop
          None,         \* no daemon
          Torn,         \* a file that is opened and not written
          Patient,      \* a daemon boots within the time a caller waits
          MaxCrashes    \* bound on processes killed from outside

ASSUME PatientAssumption == Patient \in BOOLEAN
ASSUME CrashAssumption == MaxCrashes \in Nat
ASSUME NoneAssumption ==
  None # Torn /\ {None, Torn} \cap (Daemons \cup Callers) = {}
ASSUME ProcessAssumption == Daemons \cap Callers = {}

VARIABLES
  pidFile,      \* the process the pid file names
  sockFile,     \* the process whose socket is bound at the socket path
  port,         \* the process that listens on the proxy port
  pc,           \* where each daemon is in main()
  proxy,        \* what became of each daemon's proxy thread
  stopping,     \* Daemon._stop
  caller,       \* each shell: its step, the pid it holds, its last answer
  certs,        \* the certificate files
  maker,        \* each proxy thread and shell inside ensure_certs; of a proxy
                \* that is up, ca is the CA of the chain it loaded
  raced,        \* two processes were in ensure_certs at once
  crashes

vars == <<pidFile, sockFile, port, pc, proxy, stopping, caller, certs, maker,
          raced, crashes>>

Files == <<pidFile, sockFile>>
daemon == <<port, pc, proxy, stopping>>
certVars == <<certs, maker, raced>>

INSTANCE Certs WITH Makers <- Daemons \cup Callers

\* unborn: not spawned; boot: the interpreter starts; load: pid written, the
\* embedder loads; signals: Daemon() is done; unlink, bind: in serve();
\* serve: accepting; close, exit: the two finally clauses.
DaemonPcs == {"unborn", "boot", "load", "signals", "unlink", "bind", "serve",
              "close", "exit", "dead"}
CallerPcs == {"idle", "certs", "check", "ping", "stale", "rmPid", "rmSock", "spawn",
              "wait", "term", "await"}
Answers == {"none", "ready", "late", "stopped", "notRunning"}

TypeOK ==
  /\ {pidFile, sockFile, port} \subseteq Daemons \cup {None}
  /\ pc \in [Daemons -> DaemonPcs]
  /\ proxy \in [Daemons -> {"off", "starting", "up", "failed",
                          "noCerts"}]
  /\ stopping \in [Daemons -> BOOLEAN]
  /\ caller \in [Callers -> [pc : CallerPcs, pid : Daemons \cup {None},
                             answer : Answers]]
  /\ \A c \in Callers :
       caller[c].pc \in {"wait", "term", "await"} => caller[c].pid # None
  /\ CertsTypeOK
  /\ crashes \in 0..MaxCrashes

Init ==
  /\ pidFile = None /\ sockFile = None /\ port = None
  /\ pc = [d \in Daemons |-> "unborn"]
  /\ proxy = [d \in Daemons |-> "off"]
  /\ stopping = [d \in Daemons |-> FALSE]
  /\ caller = [c \in Callers |-> [pc |-> "idle", pid |-> None, answer |-> "none"]]
  /\ CertsInit
  /\ crashes = 0

\* _pid_alive
Alive(d) == d # None /\ pc[d] \notin {"unborn", "dead"}

\* client.ping: the path leads to a socket whose process accepts.
Answers_ping == sockFile # None /\ pc[sockFile] = "serve"

-----------------------------------------------------------------------------
(* The daemon: main(), Daemon() and serve().                               *)

Move(d, from, to) == pc[d] = from /\ pc' = [pc EXCEPT ![d] = to]

WritePid(d) ==
  /\ Move(d, "boot", "load")
  /\ pidFile' = d
  /\ UNCHANGED <<sockFile, port, proxy, stopping, caller, certVars, crashes>>

\* Daemon() has warmed the embedder and started its threads; the proxy thread
\* begins with the certificates.
Construct(d) ==
  /\ Move(d, "load", "signals")
  /\ proxy' = [proxy EXCEPT ![d] = "starting"]
  /\ Call(d)
  /\ UNCHANGED <<Files, port, stopping, caller, certs, raced, crashes>>

\* The proxy thread in ensure_certs.
MakeCerts(d) ==
  /\ MakerStep(d)
  /\ UNCHANGED <<Files, daemon, caller, crashes>>

InstallSignals(d) ==
  /\ Move(d, "signals", "unlink")
  /\ UNCHANGED <<pidFile, sockFile, port, proxy, stopping, caller, certVars, crashes>>

\* No certificates, or a server.pem that does not load: the thread ends with a
\* log line and the daemon goes on without a proxy.
ProxyLacksCerts(d) ==
  /\ proxy[d] = "starting"
  /\ Raised(d) \/ (Returned(d) /\ ~Whole("serverPem"))
  /\ proxy' = [proxy EXCEPT ![d] = "noCerts"]
  /\ Leave(d)
  /\ UNCHANGED <<Files, port, pc, stopping, caller, certs, raced, crashes>>

\* The proxy thread loads the chain and binds the port, once; a port in use
\* ends the thread like a missing certificate.
StartProxy(d) ==
  /\ proxy[d] = "starting"
  /\ Returned(d) /\ Whole("serverPem")
  /\ IF port = None
     THEN /\ port' = d /\ proxy' = [proxy EXCEPT ![d] = "up"]
          /\ maker' = [maker EXCEPT ![d] = [IdleMaker EXCEPT !.ca = certs["serverPem"]]]
     ELSE /\ port' = port /\ proxy' = [proxy EXCEPT ![d] = "failed"]
          /\ Leave(d)
  /\ UNCHANGED <<Files, pc, stopping, caller, certs, raced, crashes>>

FreePort(d) == port' = IF port = d THEN None ELSE port

\* The proxy thread sees the stop flag.
StopProxy(d) ==
  /\ stopping[d] /\ Alive(d)
  /\ proxy[d] = "up"
  /\ proxy' = [proxy EXCEPT ![d] = "off"]
  /\ FreePort(d)
  /\ Leave(d)
  /\ UNCHANGED <<Files, pc, stopping, caller, certs, raced, crashes>>

\* serve() removes whatever is at the socket path ...
UnlinkSocket(d) ==
  /\ Move(d, "unlink", "bind")
  /\ sockFile' = None
  /\ UNCHANGED <<pidFile, port, proxy, stopping, caller, certVars, crashes>>

\* ... and binds its own; if another was bound meanwhile, bind raises.
BindSocket(d) ==
  /\ IF sockFile = None
     THEN Move(d, "bind", "serve") /\ sockFile' = d
     ELSE Move(d, "bind", "exit") /\ sockFile' = sockFile
  /\ UNCHANGED <<pidFile, port, proxy, stopping, caller, certVars, crashes>>

\* The accept loop sees the stop flag.
LeaveLoop(d) ==
  /\ stopping[d]
  /\ Move(d, "serve", "close")
  /\ UNCHANGED <<pidFile, sockFile, port, proxy, stopping, caller, certVars, crashes>>

\* The finally clause of serve() removes the path, whoever is bound there.
CloseSocket(d) ==
  /\ Move(d, "close", "exit")
  /\ sockFile' = None
  /\ UNCHANGED <<pidFile, port, proxy, stopping, caller, certVars, crashes>>

\* The finally clause of main() removes the pid file, whoever it names; the
\* process ends, with its threads, and its port is free.
Exit(d) ==
  /\ Move(d, "exit", "dead")
  /\ pidFile' = None
  /\ FreePort(d)
  /\ proxy' = [proxy EXCEPT ![d] = "off"]
  /\ Leave(d)
  /\ UNCHANGED <<sockFile, stopping, caller, certs, raced, crashes>>

\* The process is gone without running any finally clause.
Killed(d) ==
  /\ pc' = [pc EXCEPT ![d] = "dead"]
  /\ proxy' = [proxy EXCEPT ![d] = "off"]
  /\ FreePort(d)
  /\ Leave(d)
  /\ UNCHANGED <<Files, certs, raced>>

Crash(d) ==
  /\ crashes < MaxCrashes
  /\ Alive(d)
  /\ crashes' = crashes + 1
  /\ Killed(d)
  /\ UNCHANGED <<stopping, caller>>

DaemonStep(d) ==
  \/ WritePid(d) \/ Construct(d) \/ InstallSignals(d)
  \/ MakeCerts(d) \/ ProxyLacksCerts(d) \/ StartProxy(d) \/ StopProxy(d)
  \/ UnlinkSocket(d) \/ BindSocket(d) \/ LeaveLoop(d) \/ CloseSocket(d)
  \/ Exit(d)

-----------------------------------------------------------------------------
(* The commands install, env, run, daemon start and daemon stop.           *)

At(c, step) == caller[c].pc = step

Go(c, step) == caller' = [caller EXCEPT ![c].pc = step]

Return(c, a) ==
  caller' = [caller EXCEPT ![c] = [pc |-> "idle", pid |-> None, answer |-> a]]

\* install, env and run begin with the certificates.
CallCerts(c) ==
  /\ At(c, "idle")
  /\ Call(c)
  /\ caller' = [caller EXCEPT ![c].pc = "certs", ![c].answer = "none"]
  /\ UNCHANGED <<Files, daemon, certs, raced, crashes>>

ShellMakesCerts(c) ==
  /\ MakerStep(c)
  /\ UNCHANGED <<Files, daemon, caller, crashes>>

\* Bound: a start is attempted while a process is left to spawn.
MayStart == \E d \in Daemons : pc[d] = "unborn"

\* install and env end here, as does a command that raised; run goes on to
\* start the daemon.
LeaveCerts(c) ==
  /\ \/ Returned(c) /\ MayStart /\ Go(c, "check")
     \/ (Returned(c) \/ Raised(c)) /\ Return(c, "none")
  /\ Leave(c)
  /\ UNCHANGED <<Files, daemon, certs, raced, crashes>>

\* The user interrupts the command.
Interrupt(c) ==
  /\ At(c, "certs") /\ Making(c)
  /\ crashes < MaxCrashes
  /\ crashes' = crashes + 1
  /\ Return(c, "none")
  /\ Leave(c)
  /\ UNCHANGED <<Files, daemon, certs, raced>>

\* The commands ask is_running, and ensure_running asks it again at once; the
\* later answer decides.
CallStart(c) ==
  /\ At(c, "idle")
  /\ MayStart
  /\ caller' = [caller EXCEPT ![c].pc = "check", ![c].answer = "none"]
  /\ UNCHANGED <<Files, daemon, certVars, crashes>>

\* is_running: the pid file names a live process ...
CheckPid(c) ==
  /\ At(c, "check")
  /\ Go(c, IF Alive(pidFile) THEN "ping" ELSE "stale")
  /\ UNCHANGED <<Files, daemon, certVars, crashes>>

\* ... and the socket answers.
CheckPing(c) ==
  /\ At(c, "ping")
  /\ IF Answers_ping THEN Return(c, "ready") ELSE Go(c, "stale")
  /\ UNCHANGED <<Files, daemon, certVars, crashes>>

\* Mistake: a pid file is taken for a daemon that is still booting.
CheckStale_Waits(c) ==
  /\ At(c, "stale")
  /\ IF pidFile # None THEN Return(c, "late") ELSE Go(c, "rmSock")
  /\ UNCHANGED <<Files, daemon, certVars, crashes>>

\* A pid file that names no live process is stale ...
CheckStale(c) ==
  /\ At(c, "stale")
  /\ Go(c, IF pidFile # None /\ ~Alive(pidFile) THEN "rmPid" ELSE "rmSock")
  /\ UNCHANGED <<Files, daemon, certVars, crashes>>

\* ... and is removed, whatever it holds by now.
RemovePid(c) ==
  /\ At(c, "rmPid")
  /\ pidFile' = None
  /\ Go(c, "rmSock")
  /\ UNCHANGED <<sockFile, daemon, certVars, crashes>>

\* The socket path is removed whether or not a live daemon is bound there.
RemoveSock(c) ==
  /\ At(c, "rmSock")
  /\ sockFile' = None
  /\ Go(c, "spawn")
  /\ UNCHANGED <<pidFile, daemon, certVars, crashes>>

Spawn(c) ==
  /\ At(c, "spawn")
  /\ \E d \in Daemons :
       /\ Move(d, "unborn", "boot")
       /\ caller' = [caller EXCEPT ![c].pc = "wait", ![c].pid = d]
  /\ UNCHANGED <<Files, port, proxy, stopping, certVars, crashes>>

\* Mistake: a live process in the pid file is taken for a daemon that answers.
WaitReady_OnPid(c) ==
  /\ At(c, "wait")
  /\ Alive(pidFile)
  /\ Return(c, "ready")
  /\ UNCHANGED <<Files, daemon, certVars, crashes>>

WaitReady(c) ==
  /\ At(c, "wait")
  /\ Answers_ping
  /\ Return(c, "ready")
  /\ UNCHANGED <<Files, daemon, certVars, crashes>>

\* Mistake: the caller pings once and gives up.
WaitTimeout_AtOnce(c) ==
  /\ At(c, "wait")
  /\ ~Answers_ping
  /\ Return(c, "late")
  /\ UNCHANGED <<Files, daemon, certVars, crashes>>

\* wait_seconds are over.
WaitTimeout(c) ==
  /\ At(c, "wait")
  /\ ~Answers_ping
  /\ Patient => ~Alive(caller[c].pid)
  /\ Return(c, "late")
  /\ UNCHANGED <<Files, daemon, certVars, crashes>>

\* Mistake: stop goes on without a pid.
CallStop_NoPid(c) ==
  /\ At(c, "idle")
  /\ caller' = [caller EXCEPT
       ![c] = [pc |-> "term", pid |-> pidFile, answer |-> "none"]]
  /\ UNCHANGED <<Files, daemon, certVars, crashes>>

CallStop(c) ==
  /\ At(c, "idle")
  /\ IF pidFile = None
     THEN Return(c, "notRunning")
     ELSE caller' = [caller EXCEPT
            ![c] = [pc |-> "term", pid |-> pidFile, answer |-> "none"]]
  /\ UNCHANGED <<Files, daemon, certVars, crashes>>

\* SIGTERM to the pid read before: the handler sets the stop flag; before the
\* handler is there it ends the process at once.
Terminate(c) ==
  LET d == caller[c].pid IN
  /\ At(c, "term")
  /\ \/ /\ ~Alive(d)
        /\ Return(c, "notRunning")
        /\ UNCHANGED <<Files, daemon, certVars>>
     \/ /\ Alive(d) /\ pc[d] \in {"boot", "load", "signals"}
        /\ Killed(d)
        /\ Go(c, "await")
        /\ UNCHANGED stopping
     \/ /\ Alive(d) /\ pc[d] \notin {"boot", "load", "signals"}
        /\ stopping' = [stopping EXCEPT ![d] = TRUE]
        /\ Go(c, "await")
        /\ UNCHANGED <<Files, port, pc, proxy, certVars>>
  /\ UNCHANGED crashes

\* Mistake: stop returns once the signal is sent.
AwaitDeath_Skipped(c) ==
  /\ At(c, "await")
  /\ Return(c, "stopped")
  /\ UNCHANGED <<Files, daemon, certVars, crashes>>

AwaitDeath(c) ==
  /\ At(c, "await")
  /\ ~Alive(caller[c].pid)
  /\ Return(c, "stopped")
  /\ UNCHANGED <<Files, daemon, certVars, crashes>>

\* Six seconds are over: SIGKILL.
KillLate(c) ==
  /\ At(c, "await")
  /\ Alive(caller[c].pid)
  /\ Killed(caller[c].pid)
  /\ Return(c, "stopped")
  /\ UNCHANGED <<stopping, crashes>>

CallerStep(c) ==
  \/ ShellMakesCerts(c) \/ LeaveCerts(c)
  \/ CheckPid(c) \/ CheckPing(c) \/ CheckStale(c) \/ RemovePid(c)
  \/ RemoveSock(c) \/ Spawn(c) \/ WaitReady(c) \/ WaitTimeout(c)
  \/ Terminate(c) \/ AwaitDeath(c)

Next ==
  \/ \E d \in Daemons : DaemonStep(d) \/ Crash(d)
  \/ \E c \in Callers : \/ CallStart(c) \/ CallStop(c) \/ CallCerts(c)
                        \/ CallerStep(c) \/ KillLate(c) \/ Interrupt(c)

Spec == Init /\ [][Next]_vars

\* Processes run, and a caller goes through its steps.
Fairness == /\ \A d \in Daemons : WF_vars(DaemonStep(d))
            /\ \A c \in Callers : WF_vars(CallerStep(c))

FairSpec == Spec /\ Fairness

-----------------------------------------------------------------------------
\* No two daemons are alive: the second would unlink the first's socket and
\* go without the port.
AtMostOneAlive == \A d, e \in Daemons : Alive(d) /\ Alive(e) => d = e

\* The daemon that answers RPC is the one behind the proxy port, so the memory
\* the CLI shows is the memory that trims.
NoSplitBrain ==
  Answers_ping /\ ~stopping[sockFile] =>
    proxy[sockFile] \in {"starting", "noCerts"} \/ port = sockFile

\* A daemon that serves and was not asked to stop is seen by status and stop.
ServingIsVisible ==
  \A d \in Daemons :
    pc[d] = "serve" /\ ~stopping[d] => pidFile = d /\ sockFile = d

\* README.md:131 "comet-cc daemon stop to free the port entirely".
StopFreesPort == \A c \in Callers : caller[c].answer = "stopped" => port = None

\* cert.py:4 "Users add `ca.crt` to `NODE_EXTRA_CA_CERTS` so CC trusts our
\* listener": the chain a proxy serves is signed by the CA on disk, unless two
\* processes made certificates at once.
ChainIsTrusted ==
  \A d \in Daemons :
    proxy[d] = "up" /\ ~raced => maker[d].ca = certs["caCrt"]

\* What an interrupted first run leaves behind is completed by the next: a
\* proxy lacks certificates only if a process died inside a write, whose file
\* stays half written, or two wrote at once.
ProxyLacksCertsOnlyIfTorn ==
  \A d \in Daemons :
    proxy[d] = "noCerts" => raced \/ \E f \in CertFiles : certs[f] = Torn

\* However a daemon died and whatever files it left, starting one again ends
\* with a daemon that answers, unless that one is killed too.
StartRecovers ==
  \A c \in Callers :
    At(c, "check") ~> \/ caller[c].answer = "ready"
                      \/ At(c, "wait") /\ ~Alive(caller[c].pid)
=============================================================================
