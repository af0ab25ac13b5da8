-------------------------- MODULE PadawanSupervisor --------------------------
(***************************************************************************)
(* Lifecycle of the Padawan.php engine owned by PHPCompleter               *)
(* (src/ycmd/completers/php/php_completer.py).                             *)
(*                                                                         *)
(* The completer keeps a process handle, the engine's host/port and the    *)
(* paths of two log files, all guarded by one RLock (_padawan_lock).       *)
(* Threads of the server run the StopServer / RestartServer subcommands    *)
(* and Shutdown.  _StopServer sends /kill over HTTP (a ConnectionError is  *)
(* swallowed), waits at most 5 s for the process to exit (a timeout is     *)
(* logged and swallowed) and then always runs _CleanUp, which forgets the  *)
(* handle.  _SendRequest's requests.post has no timeout (the TODO at line *)
(* 115): a request to a Padawan that accepts it and never answers blocks   *)
(* the caller.  An HTTP error or an 'error' reply raises out of            *)
(* _StopServer before _CleanUp.  The Padawan processes are modelled as     *)
(* part of the environment: a spawned process binds its port or dies, may  *)
(* crash, may hang (keep its port and accept requests without answering),  *)
(* and exits some time after it has received /kill.                        *)
(***************************************************************************)
EXTENDS Naturals, Sequences, FiniteSets

CONSTANTS
  Threads,       \* server threads that run lifecycle subcommands
  Ports,         \* loopback ports GetUnusedLocalhostPort may return
  MaxSpawns,     \* bound on the number of Padawan processes ever spawned
  KeepLogfiles,  \* user option server_keep_logfiles
  None           \* Python's None

ASSUME /\ MaxSpawns \in Nat \ {0}
       \* a free port always exists: at most MaxSpawns - 1 processes hold one
       /\ Cardinality(Ports) >= MaxSpawns
       /\ KeepLogfiles \in BOOLEAN
       /\ None \notin Ports \cup Threads

VARIABLES
  handle,   \* _padawan_handle: index of the spawned process in procs, or None
  host,     \* _padawan_host and _padawan_port: the engine's port, or None
  stdout,   \* _padawan_stdout: path of the stdout log, or None
  stderr,   \* _padawan_stderr: path of the stderr log, or None
  files,    \* log files that exist in the shared temp directory
  procs,    \* every Padawan process spawned so far: [port, st]
  lock,     \* owner of _padawan_lock, or None
  pc,       \* per-thread position inside a lifecycle subcommand
  restart,  \* per-thread: TRUE when _StopServer was called by _RestartServer
  health    \* per-thread: what the thread's last ServerIsHealthy saw

vars == <<handle, host, stdout, stderr, files, procs, lock, pc, restart, health>>

(* Process states: spawned but not yet listening, listening, listening    *)
(* but never answering, told to exit by /kill and shutting down, exited.  *)
ProcStates == {"starting", "serving", "hung", "exiting", "dead"}

(* Result of ServerIsHealthy: none yet, False, or True together with       *)
(* whether the process that answered was the completer's own engine.       *)
HealthResults == {"none", "unhealthy", "ownEngine", "otherEngine"}

\* SERVER_LOGFILE_FORMAT: padawan_{port}_{std}.log
LogFile(p, std) == <<p, std>>
LogFiles(p) == {LogFile(p, "stdout"), LogFile(p, "stderr")}

Spawned == DOMAIN procs

\* ports held by a live process; GetUnusedLocalhostPort never returns them
HeldPorts ==
  {procs[i].port : i \in {j \in Spawned : procs[j].st \in {"serving", "hung", "exiting"}}}

\* the process, if any, that accepts connections on port p
Listener(p) == {i \in Spawned : procs[i].port = p /\ procs[i].st \in {"serving", "hung"}}

\* requests.post to port p returns: no process accepts it and never answers
Answers(p) == \A i \in Listener(p) : procs[i].st # "hung"

\* utils.ProcessIsRunning( self._padawan_handle )
ServerIsRunning == handle # None /\ procs[handle].st # "dead"

(* Type invariant: every field of the completer and of the processes has  *)
(* the kind of value the code stores in it.                                *)
TypeOK ==
  /\ handle \in Spawned \cup {None}
  /\ host \in Ports \cup {None}
  /\ stdout \in {LogFile(p, "stdout") : p \in Ports} \cup {None}
  /\ stderr \in {LogFile(p, "stderr") : p \in Ports} \cup {None}
  /\ files \subseteq UNION {LogFiles(p) : p \in Ports}
  /\ procs \in Seq([port : Ports, st : ProcStates])
  /\ Len(procs) <= MaxSpawns
  /\ lock \in Threads \cup {None}
  /\ pc \in [Threads -> {"idle", "kill", "wait", "start", "healthy"}]
  /\ restart \in [Threads -> BOOLEAN]
  /\ health \in [Threads -> HealthResults]

-----------------------------------------------------------------------------
(* _StartServer: pick a free port, open both log files for writing and     *)
(* spawn the server.  Returns the primed values of the engine fields.      *)
\* Mutant: the new handle off by one.
StartServerOffByOne(p) ==
  /\ host' = p
  /\ stdout' = LogFile(p, "stdout")
  /\ stderr' = LogFile(p, "stderr")
  /\ files' = files \cup LogFiles(p)
  /\ procs' = Append(procs, [port |-> p, st |-> "starting"])
  /\ handle' = Len(procs) + 2

StartServer(p) ==
  /\ host' = p
  /\ stdout' = LogFile(p, "stdout")
  /\ stderr' = LogFile(p, "stderr")
  /\ files' = files \cup LogFiles(p)
  /\ procs' = Append(procs, [port |-> p, st |-> "starting"])
  /\ handle' = Len(procs) + 1

(* _CleanUp: forget the handle and the port; unless the user keeps log     *)
(* files, delete them.  The second branch resets _padawan_stdout, not      *)
(* _padawan_stderr, as the code does.                                      *)
\* Mutant: only the stdout log is deleted.
CleanUpLogsStdoutOnly ==
  IF KeepLogfiles
  THEN UNCHANGED <<stdout, stderr, files>>
  ELSE /\ files' = files \ ({stdout} \ {None})
       /\ stdout' = None
       /\ UNCHANGED stderr

CleanUpLogs ==
  IF KeepLogfiles
  THEN UNCHANGED <<stdout, stderr, files>>
  ELSE /\ files' = files \ ({stdout, stderr} \ {None})
       /\ stdout' = None
       /\ UNCHANGED stderr

CleanUp ==
  /\ handle' = None
  /\ host' = None
  /\ CleanUpLogs

(* WaitUntilProcessIsTerminated( handle, timeout = 5 ): returns once the   *)
(* process has exited, or raises RuntimeError (logged, swallowed) when the *)
(* timeout expires while it is still alive.                                *)
\* Mutant: the wait has no timeout.
WaitWithoutTimeout(h) == procs[h].st = "dead"

WaitTimeout(h) == procs[h].st # "dead"
WaitUntilProcessIsTerminated(h) == procs[h].st = "dead" \/ WaitTimeout(h)

(* After _CleanUp: _StopServer returns; under _RestartServer the thread    *)
(* goes on to _StartServer still holding the lock.                         *)
AfterStop(t) ==
  IF restart[t]
  THEN /\ pc' = [pc EXCEPT ![t] = "start"]
       /\ UNCHANGED lock
  ELSE /\ pc' = [pc EXCEPT ![t] = "idle"]
       /\ lock' = None

-----------------------------------------------------------------------------
(* Thread t enters _StopServer (the StopServer subcommand or Shutdown), or *)
(* _RestartServer, which calls _StopServer then _StartServer under the     *)
(* same reentrant lock.  If the process is not running, _CleanUp runs at   *)
(* once.                                                                   *)
StopServer(t, isRestart) ==
  /\ pc[t] = "idle"
  /\ lock = None
  /\ isRestart => Len(procs) < MaxSpawns
  /\ restart' = [restart EXCEPT ![t] = isRestart]
  /\ IF ServerIsRunning
     THEN /\ pc' = [pc EXCEPT ![t] = "kill"]
          /\ lock' = t
          /\ UNCHANGED <<handle, host, stdout, stderr, files>>
     ELSE /\ CleanUp
          /\ IF isRestart
             THEN /\ pc' = [pc EXCEPT ![t] = "start"]
                  /\ lock' = t
             ELSE UNCHANGED <<pc, lock>>
  /\ UNCHANGED <<procs, health>>

(* self._SendRequest( '/kill' ) (lines 125-132, 170-173): the request      *)
(* reaches whatever process listens on the port, which then exits and     *)
(* aborts the connection; with no listener the ConnectionError is          *)
(* swallowed too.  A hung listener never answers: the thread stays here,   *)
(* holding the lock.                                                       *)
SendKill(t) ==
  /\ pc[t] = "kill"
  /\ Answers(host)
  /\ procs' = [i \in Spawned |->
                 IF i \in Listener(host) THEN [procs[i] EXCEPT !.st = "exiting"]
                 ELSE procs[i]]
  /\ pc' = [pc EXCEPT ![t] = "wait"]
  /\ UNCHANGED <<handle, host, stdout, stderr, files, lock, restart, health>>

(* A Padawan that answers /kill with an HTTP error or an 'error' field     *)
(* (lines 133-136): the RuntimeError or HTTPError is not a ConnectionError *)
(* and leaves _StopServer, and _RestartServer, before _CleanUp; the with   *)
(* statement releases the lock and the handle is kept.                     *)
SendKillError(t) ==
  /\ pc[t] = "kill"
  /\ Listener(host) # {}
  /\ Answers(host)
  /\ pc' = [pc EXCEPT ![t] = "idle"]
  /\ lock' = None
  /\ UNCHANGED <<handle, host, stdout, stderr, files, procs, restart, health>>

(* The wait ends, by exit or by timeout; _CleanUp runs in either case.     *)
WaitAndCleanUp(t) ==
  /\ pc[t] = "wait"
  /\ WaitUntilProcessIsTerminated(handle)
  /\ CleanUp
  /\ AfterStop(t)
  /\ UNCHANGED <<procs, restart, health>>

(* _StartServer within _RestartServer; the lock is released afterwards.    *)
Restart(t) ==
  /\ pc[t] = "start"
  /\ \E p \in Ports \ HeldPorts : StartServer(p)
  /\ pc' = [pc EXCEPT ![t] = "idle"]
  /\ lock' = None
  /\ UNCHANGED <<restart, health>>

(* ServerIsHealthy (also ServerIsReady), without the lock: False if the    *)
(* handle's process is not running, else /healthy is sent.                 *)
ServerIsHealthy(t) ==
  /\ pc[t] = "idle"
  /\ IF ServerIsRunning
     THEN /\ pc' = [pc EXCEPT ![t] = "healthy"]
          /\ UNCHANGED health
     ELSE /\ health' = [health EXCEPT ![t] = "unhealthy"]
          /\ UNCHANGED pc
  /\ UNCHANGED <<handle, host, stdout, stderr, files, procs, lock, restart>>

(* _SendRequest( '/healthy' ) to _padawan_host as it is now.  With no host *)
(* (after _CleanUp) requests raises, with no listener a ConnectionError:   *)
(* False.  A listening Padawan answers {"error": "Unknown command"}, which *)
(* _SendRequest raises as RuntimeError and ServerIsHealthy takes for True. *)
SendHealthy(t) ==
  /\ pc[t] = "healthy"
  /\ host # None => Answers(host)
  /\ health' = [health EXCEPT ![t] =
       IF host = None \/ Listener(host) = {} THEN "unhealthy"
       ELSE IF handle \in Listener(host) THEN "ownEngine" ELSE "otherEngine"]
  /\ pc' = [pc EXCEPT ![t] = "idle"]
  /\ UNCHANGED <<handle, host, stdout, stderr, files, procs, lock, restart>>

-----------------------------------------------------------------------------
(* Environment: the Padawan processes.                                     *)

\* the server binds its port; it dies if a live process already holds it
Bind(i) ==
  /\ procs[i].st = "starting"
  /\ procs' = [procs EXCEPT ![i].st =
                 IF procs[i].port \in HeldPorts THEN "dead" ELSE "serving"]
  /\ UNCHANGED <<handle, host, stdout, stderr, files, lock, pc, restart, health>>

\* a listening server stops answering (busy or stuck), keeping its port
Hang(i) ==
  /\ procs[i].st = "serving"
  /\ procs' = [procs EXCEPT ![i].st = "hung"]
  /\ UNCHANGED <<handle, host, stdout, stderr, files, lock, pc, restart, health>>

\* the server crashes on its own
Crash(i) ==
  /\ procs[i].st \in {"starting", "serving", "hung"}
  /\ procs' = [procs EXCEPT ![i].st = "dead"]
  /\ UNCHANGED <<handle, host, stdout, stderr, files, lock, pc, restart, health>>

\* a server that received /kill exits
Exit(i) ==
  /\ procs[i].st = "exiting"
  /\ procs' = [procs EXCEPT ![i].st = "dead"]
  /\ UNCHANGED <<handle, host, stdout, stderr, files, lock, pc, restart, health>>

-----------------------------------------------------------------------------
(* PHPCompleter.__init__ calls _StartServer on some free port.             *)
Init ==
  /\ lock = None
  /\ pc = [t \in Threads |-> "idle"]
  /\ restart = [t \in Threads |-> FALSE]
  /\ health = [t \in Threads |-> "none"]
  /\ \E p \in Ports :
       /\ host = p
       /\ stdout = LogFile(p, "stdout")
       /\ stderr = LogFile(p, "stderr")
       /\ files = LogFiles(p)
       /\ procs = <<[port |-> p, st |-> "starting"]>>
       /\ handle = 1

ThreadNext(t) ==
  \/ StopServer(t, FALSE)
  \/ StopServer(t, TRUE)
  \/ SendKill(t)
  \/ SendKillError(t)
  \/ WaitAndCleanUp(t)
  \/ Restart(t)
  \/ ServerIsHealthy(t)
  \/ SendHealthy(t)

EnvNext(i) == Bind(i) \/ Hang(i) \/ Crash(i) \/ Exit(i)

Next ==
  \/ \E t \in Threads : ThreadNext(t)
  \/ \E i \in Spawned : EnvNext(i)

(* A running thread is scheduled eventually (the GIL is released between   *)
(* bytecodes and on I/O); the OS eventually lets a killed process exit.    *)
Fairness ==
  /\ \A t \in Threads : WF_vars(SendKill(t) \/ SendKillError(t) \/ WaitAndCleanUp(t) \/ Restart(t) \/ SendHealthy(t))
  /\ \A i \in 1..MaxSpawns : WF_vars(i \in Spawned /\ Exit(i))

Spec == Init /\ [][Next]_vars /\ Fairness

-----------------------------------------------------------------------------
(* Properties.                                                             *)

(* Log files of engines that are gone do not pile up: when no lifecycle    *)
(* subcommand is in progress and the user does not keep log files, the     *)
(* only log files of this completer on disk are those of its current       *)
(* engine.  About _CleanUp deleting both logs although it resets only      *)
(* _padawan_stdout, across any number of stops and restarts.               *)
NoStaleLogFiles ==
  (~KeepLogfiles /\ lock = None) =>
     files \subseteq (IF handle = None THEN {} ELSE LogFiles(host))

(* Every StopServer, Shutdown or RestartServer call returns and releases   *)
(* the lock, whatever the engine does: spec section 4.2 says Stop waits up *)
(* to a bounded timeout and section 5 that network calls to an engine      *)
(* have connect and read timeouts.  About the /kill request of _StopServer *)
(* (line 172), which _SendRequest posts with no timeout.                   *)
StopAlwaysReturns ==
  \A t \in Threads : (pc[t] \in {"kill", "wait", "start"}) ~> (pc[t] = "idle")

(* Once /kill has been answered or refused, the stop, or the restart,      *)
(* returns and releases the lock, even when the engine never exits: the   *)
(* 5 s timeout of WaitUntilProcessIsTerminated (line 176) and the          *)
(* swallowed RuntimeError bound the rest of _StopServer, also when the     *)
(* engine was killed before it listened and so never got /kill.            *)
StopReturnsOnceKillAnswered ==
  \A t \in Threads : (pc[t] = "wait") ~> (pc[t] = "idle")

(* Every engine the completer lets go of eventually exits: a process that  *)
(* is no longer the completer's handle does not keep running.  About       *)
(* _StopServer dropping the handle in _CleanUp whatever /kill and the      *)
(* wait achieved.                                                          *)
ReleasedEngineExits ==
  \A i \in 1..MaxSpawns :
    (i \in Spawned /\ handle # i /\ procs[i].st # "dead")
      ~> (i \in Spawned /\ procs[i].st = "dead")

(* A True from ServerIsHealthy comes from the completer's own engine: the   *)
(* process that answered /healthy is the one _padawan_handle names.  About *)
(* the unlocked check of the handle followed by a request to the port,     *)
(* while a restart may hand the port of an engine that was killed before   *)
(* it listened to its successor.                                           *)
HealthyMeansOwnEngine == \A t \in Threads : health[t] # "otherEngine"

=============================================================================
