---------------------------- MODULE JediSupervisor ----------------------------
(***************************************************************************)
(* Lifecycle of the JediHTTP engine owned by JediCompleter and the         *)
(* HMAC-signed requests sent to it                                         *)
(* (src/ycmd/completers/python/jedi_completer.py).                         *)
(*                                                                         *)
(* The completer keeps the process handle, port, host URL, HMAC secret and *)
(* log paths.  RestartServer, _StopServer, _StartServer and                *)
(* ServerIsRunning hold the RLock _server_lock; _GetResponse, used by      *)
(* ServerIsReady, completions and every subcommand, reads _jedihttp_host   *)
(* and later _hmac_secret without it.  _StopServer sends SIGTERM and does  *)
(* not wait for the process to exit.  JediHTTP processes belong to the     *)
(* environment: a process binds its port or dies, may crash, and exits     *)
(* some time after SIGTERM; it answers a request whose HMAC was made with  *)
(* its own secret and rejects any other with HTTP 401.                     *)
(***************************************************************************)
EXTENDS Naturals, Sequences, FiniteSets

CONSTANTS
  Threads,       \* server threads: lifecycle subcommands and requests
  Ports,         \* loopback ports GetUnusedLocalhostPort may return
  MaxSpawns,     \* bound on the number of JediHTTP processes ever spawned
  KeepLogfiles,  \* user option server_keep_logfiles
  None           \* Python's None

ASSUME /\ MaxSpawns \in Nat \ {0}
       /\ Cardinality(Ports) >= MaxSpawns
       /\ KeepLogfiles \in BOOLEAN
       /\ None \notin Ports \cup Threads

VARIABLES
  handle,   \* _jedihttp_phandle: index of the process in procs, or None
  port,     \* _jedihttp_port, or None
  host,     \* _jedihttp_host: the port the URL names (never reset to None)
  secret,   \* _hmac_secret: os.urandom(16), abstracted to a fresh number
  stdout,   \* _logfile_stdout (never reset)
  stderr,   \* _logfile_stderr (never reset)
  files,    \* log files that exist in the temp directory
  procs,    \* every JediHTTP process spawned so far: [port, secret, st]
  lock,     \* owner of _server_lock, or None
  pc,       \* per-thread position inside an operation
  reqHost,  \* per-thread: host read by _GetResponse (line 191)
  reqKey,   \* per-thread: secret the request was signed with (line 212)
  reply     \* per-thread: outcome of the thread's last request

vars == <<handle, port, host, secret, stdout, stderr, files, procs, lock, pc,
          reqHost, reqKey, reply>>

(* Process states: spawned, listening, received SIGTERM, exited.           *)
ProcStates == {"starting", "serving", "terminating", "dead"}

(* Outcome of a request: not yet sent, answered, HTTP 401 for a bad HMAC   *)
(* (raise_for_status raises HTTPError), ConnectionError.                   *)
Replies == {"none", "ok", "rejected", "refused"}

\* LOG_FILENAME_FORMAT: jedihttp_{port}_{std}.log
LogFile(p, std) == <<p, std>>
LogFiles(p) == {LogFile(p, "stdout"), LogFile(p, "stderr")}

Spawned == DOMAIN procs

HeldPorts == {procs[i].port : i \in {j \in Spawned : procs[j].st \in {"serving", "terminating"}}}

Listener(p) == {i \in Spawned : procs[i].port = p /\ procs[i].st = "serving"}

\* ServerIsRunning: bool( self._jedihttp_port ) and ProcessIsRunning( handle )
ServerIsRunning == port # None /\ handle # None /\ procs[handle].st # "dead"

(* Type invariant: every field of the completer and of the processes has  *)
(* the kind of value the code stores in it.                                *)
TypeOK ==
  /\ handle \in Spawned \cup {None}
  /\ port \in Ports \cup {None}
  /\ host \in Ports
  /\ secret \in 1..MaxSpawns
  /\ stdout \in {LogFile(p, "stdout") : p \in Ports}
  /\ stderr \in {LogFile(p, "stderr") : p \in Ports}
  /\ files \subseteq UNION {LogFiles(p) : p \in Ports}
  /\ procs \in Seq([port : Ports, secret : 1..MaxSpawns, st : ProcStates])
  /\ Len(procs) <= MaxSpawns
  /\ lock \in Threads \cup {None}
  /\ pc \in [Threads -> {"idle", "stop", "start", "spawn", "readHost", "sign",
                          "send"}]
  /\ reqHost \in [Threads -> Ports \cup {None}]
  /\ reqKey \in [Threads -> (1..MaxSpawns) \cup {None}]
  /\ reply \in [Threads -> Replies]

-----------------------------------------------------------------------------
(* _StopServer: SIGTERM the process if there is a handle and forget it;    *)
(* delete the log files unless they are kept.  The paths are not reset.    *)
\* Mutant: the handle is dropped without terminate().
StopServerNoTerminate ==
  /\ procs' = procs
  /\ handle' = None
  /\ port' = None
  /\ files' = IF KeepLogfiles THEN files ELSE files \ {stdout, stderr}

StopServer ==
  /\ procs' = IF handle # None
              THEN [procs EXCEPT ![handle].st =
                      IF @ = "dead" THEN "dead" ELSE "terminating"]
              ELSE procs
  /\ handle' = None
  /\ port' = None
  /\ files' = IF KeepLogfiles THEN files ELSE files \ {stdout, stderr}

(* Response of the process listening on port p to a request signed with   *)
(* secret s: CreateRequestHmac on both sides agrees iff the secrets do.    *)
Deliver(p, s) ==
  IF Listener(p) = {} THEN "refused"
  ELSE IF \E i \in Listener(p) : procs[i].secret = s THEN "ok"
  ELSE "rejected"

-----------------------------------------------------------------------------
\* Mutant: the restart goes straight to _StartServer without _StopServer.
RestartServerNoStop(t) ==
  /\ pc[t] = "idle"
  /\ lock = None
  /\ Len(procs) < MaxSpawns
  /\ lock' = t
  /\ pc' = [pc EXCEPT ![t] = "start"]
  /\ UNCHANGED <<handle, port, files, procs, host, secret, stdout, stderr,
                 reqHost, reqKey, reply>>

(* RestartServer: under the lock, _StopServer then _StartServer.  A        *)
(* missing python binary raises before anything changes and is left out.   *)
RestartServer(t) ==
  /\ pc[t] = "idle"
  /\ lock = None
  /\ Len(procs) < MaxSpawns
  /\ lock' = t
  /\ StopServer
  /\ pc' = [pc EXCEPT ![t] = "start"]
  /\ UNCHANGED <<host, secret, stdout, stderr, reqHost, reqKey, reply>>

(* _StartServer, first part: a free port and the host URL built from it.   *)
StartPort(t) ==
  /\ pc[t] = "start"
  /\ \E p \in Ports \ HeldPorts :
       /\ port' = p
       /\ host' = p
  /\ pc' = [pc EXCEPT ![t] = "spawn"]
  /\ UNCHANGED <<handle, secret, stdout, stderr, files, procs, lock, reqHost, reqKey, reply>>

(* _StartServer, second part: a fresh secret written to the secret file,   *)
(* the log files opened and JediHTTP spawned; RestartServer then releases  *)
(* the lock.                                                               *)
\* Mutant: the new handle off by one.
StartSpawnOffByOne(t) ==
  /\ pc[t] = "spawn"
  /\ secret' = Len(procs) + 1
  /\ stdout' = LogFile(port, "stdout")
  /\ stderr' = LogFile(port, "stderr")
  /\ files' = files \cup LogFiles(port)
  /\ procs' = Append(procs, [port |-> port, secret |-> Len(procs) + 1,
                             st |-> "starting"])
  /\ handle' = Len(procs) + 2
  /\ pc' = [pc EXCEPT ![t] = "idle"]
  /\ lock' = None
  /\ UNCHANGED <<port, host, reqHost, reqKey, reply>>

StartSpawn(t) ==
  /\ pc[t] = "spawn"
  /\ secret' = Len(procs) + 1
  /\ stdout' = LogFile(port, "stdout")
  /\ stderr' = LogFile(port, "stderr")
  /\ files' = files \cup LogFiles(port)
  /\ procs' = Append(procs, [port |-> port, secret |-> Len(procs) + 1,
                             st |-> "starting"])
  /\ handle' = Len(procs) + 1
  /\ pc' = [pc EXCEPT ![t] = "idle"]
  /\ lock' = None
  /\ UNCHANGED <<port, host, reqHost, reqKey, reply>>

(* Shutdown (also the StopServer subcommand): ServerIsRunning under the    *)
(* lock, which is released before _StopServer takes it again.              *)
Shutdown(t) ==
  /\ pc[t] = "idle"
  /\ lock = None
  /\ ServerIsRunning
  /\ pc' = [pc EXCEPT ![t] = "stop"]
  /\ UNCHANGED <<handle, port, host, secret, stdout, stderr, files, procs, lock,
                 reqHost, reqKey, reply>>

ShutdownStop(t) ==
  /\ pc[t] = "stop"
  /\ lock = None
  /\ StopServer
  /\ pc' = [pc EXCEPT ![t] = "idle"]
  /\ UNCHANGED <<host, secret, stdout, stderr, lock, reqHost, reqKey, reply>>

-----------------------------------------------------------------------------
(* Requests: ServerIsReady first checks ServerIsRunning under the lock;    *)
(* completions and subcommands go straight to _GetResponse.                *)
ServerIsReady(t) ==
  /\ pc[t] = "idle"
  /\ lock = None
  /\ ServerIsRunning
  /\ pc' = [pc EXCEPT ![t] = "readHost"]
  /\ UNCHANGED <<handle, port, host, secret, stdout, stderr, files, procs, lock,
                 reqHost, reqKey, reply>>

Request(t) ==
  /\ pc[t] = "idle"
  /\ pc' = [pc EXCEPT ![t] = "readHost"]
  /\ UNCHANGED <<handle, port, host, secret, stdout, stderr, files, procs, lock,
                 reqHost, reqKey, reply>>

(* _GetResponse: url = urljoin( self._jedihttp_host, handler ).            *)
ReadHost(t) ==
  /\ pc[t] = "readHost"
  /\ reqHost' = [reqHost EXCEPT ![t] = host]
  /\ pc' = [pc EXCEPT ![t] = "sign"]
  /\ UNCHANGED <<handle, port, host, secret, stdout, stderr, files, procs, lock,
                 reqKey, reply>>

(* _ExtraHeaders: the HMAC header is made with self._hmac_secret as it is  *)
(* now.                                                                    *)
Sign(t) ==
  /\ pc[t] = "sign"
  /\ reqKey' = [reqKey EXCEPT ![t] = secret]
  /\ pc' = [pc EXCEPT ![t] = "send"]
  /\ UNCHANGED <<handle, port, host, secret, stdout, stderr, files, procs, lock,
                 reqHost, reply>>

(* requests.request POSTs to the URL built earlier; raise_for_status.  The *)
(* url and headers are locals of _GetResponse and die with the call.       *)
Send(t) ==
  /\ pc[t] = "send"
  /\ reply' = [reply EXCEPT ![t] = Deliver(reqHost[t], reqKey[t])]
  /\ pc' = [pc EXCEPT ![t] = "idle"]
  /\ reqHost' = [reqHost EXCEPT ![t] = None]
  /\ reqKey' = [reqKey EXCEPT ![t] = None]
  /\ UNCHANGED <<handle, port, host, secret, stdout, stderr, files, procs, lock>>

-----------------------------------------------------------------------------
(* Environment: the JediHTTP processes.                                    *)
EnvUnchanged == UNCHANGED <<handle, port, host, secret, stdout, stderr, files,
                            lock, pc, reqHost, reqKey, reply>>

Bind(i) ==
  /\ procs[i].st = "starting"
  /\ procs' = [procs EXCEPT ![i].st =
                 IF procs[i].port \in HeldPorts THEN "dead" ELSE "serving"]
  /\ EnvUnchanged

Crash(i) ==
  /\ procs[i].st \in {"starting", "serving"}
  /\ procs' = [procs EXCEPT ![i].st = "dead"]
  /\ EnvUnchanged

Exit(i) ==
  /\ procs[i].st = "terminating"
  /\ procs' = [procs EXCEPT ![i].st = "dead"]
  /\ EnvUnchanged

-----------------------------------------------------------------------------
(* JediCompleter.__init__ calls _StartServer.                              *)
Init ==
  /\ \E p \in Ports :
       /\ port = p
       /\ host = p
       /\ stdout = LogFile(p, "stdout")
       /\ stderr = LogFile(p, "stderr")
       /\ files = LogFiles(p)
       /\ procs = <<[port |-> p, secret |-> 1, st |-> "starting"]>>
  /\ secret = 1
  /\ handle = 1
  /\ lock = None
  /\ pc = [t \in Threads |-> "idle"]
  /\ reqHost = [t \in Threads |-> None]
  /\ reqKey = [t \in Threads |-> None]
  /\ reply = [t \in Threads |-> "none"]

ThreadNext(t) ==
  \/ RestartServer(t) \/ StartPort(t) \/ StartSpawn(t)
  \/ Shutdown(t) \/ ShutdownStop(t)
  \/ ServerIsReady(t) \/ Request(t) \/ ReadHost(t) \/ Sign(t) \/ Send(t)

EnvNext(i) == Bind(i) \/ Crash(i) \/ Exit(i)

Next ==
  \/ \E t \in Threads : ThreadNext(t)
  \/ \E i \in Spawned : EnvNext(i)

(* Threads in the middle of an operation are scheduled eventually; a      *)
(* process that received SIGTERM exits (JediHTTP keeps the default         *)
(* handler).                                                               *)
Fairness ==
  /\ \A t \in Threads :
       WF_vars(StartPort(t) \/ StartSpawn(t) \/ ShutdownStop(t) \/ ReadHost(t) \/ Sign(t) \/ Send(t))
  /\ \A i \in 1..MaxSpawns : WF_vars(i \in Spawned /\ Exit(i))

Spec == Init /\ [][Next]_vars /\ Fairness

-----------------------------------------------------------------------------
(* Properties.                                                             *)

(* Every engine the completer lets go of eventually exits: _StopServer     *)
(* terminates the process before it drops the handle, on every path        *)
(* (RestartServer, Shutdown, the StopServer subcommand).                   *)
ReleasedEngineExits ==
  \A i \in 1..MaxSpawns :
    (i \in Spawned /\ handle # i /\ procs[i].st # "dead")
      ~> (i \in Spawned /\ procs[i].st = "dead")

(* Refinement mapping to the lifecycle every supervisor promises: the      *)
(* completer's engine is the process its handle names, a process that has *)
(* not died is alive until SIGTERM makes it terminating, and a Start is in *)
(* progress while a thread is between StartPort and StartSpawn.            *)
AbstractState(st) == IF st \in {"starting", "serving"} THEN "alive" ELSE st

EL == INSTANCE EngineLifecycle
        WITH MaxEngines <- MaxSpawns,
             engines <- [i \in Spawned |-> AbstractState(procs[i].st)],
             owned <- handle,
             starting <- \E t \in Threads : pc[t] \in {"start", "spawn"}

(* JediCompleter implements the engine lifecycle: it owns one JediHTTP at  *)
(* a time, spawns a new one only after _StopServer released the old one,  *)
(* never takes a released one back, and every Start it begins completes;  *)
(* the unlocked requests and the unlocked gap in Shutdown never change the *)
(* lifecycle.                                                              *)
ImplementsEngineLifecycle == EL!Spec

(* A request reaches an engine only with that engine's own secret: no      *)
(* request is ever rejected with HTTP 401.  About _GetResponse reading     *)
(* _jedihttp_host and _hmac_secret without _server_lock while              *)
(* RestartServer may replace both, and may reuse the port.                 *)
RequestSignedForRecipient ==
  \A t \in Threads : reply[t] # "rejected"

=============================================================================
