------------------------------ MODULE YcmdClient ------------------------------
(***************************************************************************)
(* The startup benchmark of src/startup.py: the main loop starts ycmd,     *)
(* waits until it is ready and shuts it down, Starts times over.           *)
(*                                                                         *)
(* YcmdClient.Start draws a fresh secret, picks a free port               *)
(* (GetUnusedLocalhostPort) and spawns ycmd, then _WaitUntilReady probes   *)
(* GET /ready until ycmd answers, checking a deadline before each probe:   *)
(* a ConnectionError (refused, or the 1 ms connect timeout) is retried     *)
(* after a short sleep; any other error leaves Start, and the benchmark    *)
(* with it.                                                                *)
(*                                                                         *)
(* Each ycmd is a process of its own: it binds its port and serves, or     *)
(* dies; once asked to shut down it stops listening and exits.  Another    *)
(* program may take a port between GetUnusedLocalhostPort closing its      *)
(* socket and ycmd binding it.  Time is counted in sleeps: elapsed is the  *)
(* time waited since Start, saturating just past the Timeout.  A ycmd     *)
(* asked to shut down is taken to release its port at once.               *)
(***************************************************************************)
EXTENDS Naturals, Sequences, FiniteSets, SecuredChannel

CONSTANTS
  Ports,       \* the loopback ports GetUnusedLocalhostPort may return
  MaxStarts,   \* Start calls of the main loop: the warm-up and 2 * runs
  Timeout,     \* _WaitUntilReady's timeout, in sleeps
  MaxForeign,  \* bound on the ports other programs take
  None

VARIABLES
  pc,        \* where the benchmark is: "idle", "check", "probe", "sleep",
             \* "shutdown", "done", or "failed" (an exception escaped)
  starts,    \* Start calls so far
  port,      \* self._port
  secret,    \* self._hmac_secret (the i-th Start draws secret i)
  elapsed,   \* time waited in _WaitUntilReady, in sleeps
  servers,   \* every ycmd spawned: its port, secret and state
  foreign    \* ports bound by other programs

vars == <<pc, starts, port, secret, elapsed, servers, foreign>>

ServerStates == {"starting", "serving", "dead"}

TypeOK ==
  /\ pc \in {"idle", "check", "probe", "sleep", "shutdown", "done", "failed"}
  /\ starts \in 0..MaxStarts
  /\ port \in Ports \cup {None}
  /\ secret \in 0..MaxStarts
  /\ elapsed \in 0..Timeout + 1
  /\ servers \in Seq([port : Ports, secret : 1..MaxStarts, st : ServerStates])
  /\ foreign \subseteq Ports

\* the ycmd processes listening on port p
Listening(p) ==
  {i \in DOMAIN servers : servers[i].port = p /\ servers[i].st = "serving"}

BoundPorts ==
  foreign \cup {servers[i].port : i \in {j \in DOMAIN servers : servers[j].st # "dead"}}

\* __init__ lines 96-102
Init ==
  /\ pc = "idle"
  /\ starts = 0
  /\ port = None
  /\ secret = 0
  /\ elapsed = 0
  /\ servers = <<>>
  /\ foreign = {}

\* a plausible slip: one Start more than the main loop's runs
StartOffByOne ==
  /\ pc = "idle"
  /\ starts <= MaxStarts
  /\ \E p \in Ports \ BoundPorts :
       /\ port' = p
       /\ servers' = Append(servers, [port |-> p, secret |-> starts + 1, st |-> "starting"])
  /\ secret' = starts + 1
  /\ starts' = starts + 1
  /\ elapsed' = 0
  /\ pc' = "check"
  /\ UNCHANGED foreign

(* Start lines 105-130, with GetUnusedLocalhostPort lines 85-91: a fresh   *)
(* secret, a port no socket holds now, ycmd spawned; then the wait.        *)
Start ==
  /\ pc = "idle"
  /\ starts < MaxStarts
  /\ \E p \in Ports \ BoundPorts :
       /\ port' = p
       /\ servers' = Append(servers, [port |-> p, secret |-> starts + 1, st |-> "starting"])
  /\ secret' = starts + 1
  /\ starts' = starts + 1
  /\ elapsed' = 0
  /\ pc' = "check"
  /\ UNCHANGED foreign

\* a plausible slip: the deadline never tested
CheckNoDeadline ==
  /\ pc = "check"
  /\ pc' = "probe"
  /\ UNCHANGED <<starts, port, secret, elapsed, servers, foreign>>

\* _WaitUntilReady lines 143-146: past the deadline, RuntimeError escapes
Check ==
  /\ pc = "check"
  /\ pc' = IF elapsed > Timeout THEN "failed" ELSE "probe"
  /\ UNCHANGED <<starts, port, secret, elapsed, servers, foreign>>

\* the request signature _ExtraHeaders (lines 179-188) sends for GET /ready
ReadyHmac(s) == CreateRequestHmac("GET", "/ready", "", s)

(* A probe: _WaitUntilReady lines 147-153 with _IsReady (134-137) and      *)
(* _Request (156-176).  Nothing listening is a ConnectionError, and so is  *)
(* the 1 ms connect timeout to a listener: both are retried after the      *)
(* sleep.                                                                  *)
ProbeRefused ==
  /\ pc = "probe"
  /\ pc' = "sleep"
  /\ UNCHANGED <<starts, port, secret, elapsed, servers, foreign>>

(* ycmd answers: it checks the request's HMAC against its own secret and  *)
(* says it is ready, and Start returns; on a bad HMAC it answers 401,      *)
(* which raise_for_status raises, and Start fails.                         *)
ProbeAnswered ==
  /\ pc = "probe"
  /\ \E i \in Listening(port) :
       pc' = IF ReadyHmac(secret) = ReadyHmac(servers[i].secret)
             THEN "shutdown" ELSE "failed"
  /\ UNCHANGED <<starts, port, secret, elapsed, servers, foreign>>

\* another program on the port answers an HTTP error, which escapes Start
ProbeForeign ==
  /\ pc = "probe"
  /\ port \in foreign
  /\ pc' = "failed"
  /\ UNCHANGED <<starts, port, secret, elapsed, servers, foreign>>

\* ycmd accepts but answers after READ_TIMEOUT: ReadTimeout escapes Start
ProbeReadTimeout ==
  /\ pc = "probe"
  /\ Listening(port) # {}
  /\ pc' = "failed"
  /\ UNCHANGED <<starts, port, secret, elapsed, servers, foreign>>

\* the finally clause, line 153
Sleep ==
  /\ pc = "sleep"
  /\ elapsed' = IF elapsed > Timeout THEN elapsed ELSE elapsed + 1
  /\ pc' = "check"
  /\ UNCHANGED <<starts, port, secret, servers, foreign>>

(* The main loop lines 213-227: after Start, PostRequest( 'shutdown' )    *)
(* (lines 160-161) to the same location; ycmd exits.  If nothing listens  *)
(* the ConnectionError ends the benchmark.                                 *)
Shutdown ==
  /\ pc = "shutdown"
  /\ \/ \E i \in Listening(port) :
          /\ servers' = [servers EXCEPT ![i].st = "dead"]
          /\ pc' = "idle"
     \/ /\ Listening(port) = {}
        /\ pc' = "failed"
        /\ UNCHANGED servers
  /\ UNCHANGED <<starts, port, secret, elapsed, foreign>>

\* lines 221-236: the averages are printed and the benchmark ends
Finish ==
  /\ pc = "idle"
  /\ starts = MaxStarts
  /\ pc' = "done"
  /\ UNCHANGED <<starts, port, secret, elapsed, servers, foreign>>

ClientNext ==
  Start \/ Check \/ ProbeRefused \/ ProbeAnswered \/ ProbeForeign
    \/ ProbeReadTimeout \/ Sleep \/ Shutdown \/ Finish

(* ycmd binds its port and serves, unless another program took the port,  *)
(* in which case it dies; it may also die on its own.                      *)
Bind(i) ==
  /\ servers[i].st = "starting"
  /\ servers' = [servers EXCEPT ![i].st =
                    IF servers[i].port \in foreign THEN "dead" ELSE "serving"]
  /\ UNCHANGED <<pc, starts, port, secret, elapsed, foreign>>

Crash(i) ==
  /\ servers[i].st \in {"starting", "serving"}
  /\ servers' = [servers EXCEPT ![i].st = "dead"]
  /\ UNCHANGED <<pc, starts, port, secret, elapsed, foreign>>

\* another program binds a free port
TakePort ==
  /\ Cardinality(foreign) < MaxForeign
  /\ \E p \in Ports \ BoundPorts : foreign' = foreign \cup {p}
  /\ UNCHANGED <<pc, starts, port, secret, elapsed, servers>>

EnvNext == TakePort \/ \E i \in DOMAIN servers : Bind(i) \/ Crash(i)

Next == ClientNext \/ EnvNext

(* The benchmark is a running program: each of its steps, once enabled,   *)
(* is taken.  Nothing is assumed of ycmd or of other programs.             *)
Spec == Init /\ [][Next]_vars /\ WF_vars(ClientNext)

-----------------------------------------------------------------------------
(* The benchmark ends, by finishing or by an exception, whatever ycmd does: *)
(* ycmd may never bind, die, or lose its port, and _WaitUntilReady still   *)
(* gives up, because it tests its deadline before every probe and every    *)
(* probe's failure either escapes or costs a sleep.                        *)
BenchmarkTerminates == <>(pc \in {"done", "failed"})

====
