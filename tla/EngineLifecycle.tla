---------------------------- MODULE EngineLifecycle ----------------------------
(***************************************************************************)
(* What an engine supervisor promises about the subprocesses it launches  *)
(* (spec sections 4 and 5): it owns at most one engine at a time; Start    *)
(* launches a fresh engine only once the previous one has been stopped;    *)
(* Stop releases the owned engine after asking it to exit and is a no-op   *)
(* when nothing is owned; an engine, once released, is never owned again.  *)
(* Engines may crash on their own; an engine that was asked to exit        *)
(* eventually does.                                                        *)
(*                                                                         *)
(* engines[i] is the state of the i-th engine ever launched: "alive" (up   *)
(* or still starting), "terminating" (asked to exit) or "dead".  Threads,  *)
(* ports, secrets, log files and requests are not visible at this level.  *)
(***************************************************************************)
EXTENDS Naturals, Sequences

CONSTANTS
  MaxEngines,  \* bound on the number of engines ever launched
  None         \* no engine owned

VARIABLES
  engines,   \* state of every engine launched so far
  owned,     \* index of the engine the supervisor owns, or None
  starting   \* a Start is in progress: stopped, not yet launched

vars == <<engines, owned, starting>>

EngineStates == {"alive", "terminating", "dead"}

TypeOK ==
  /\ engines \in Seq(EngineStates)
  /\ owned \in DOMAIN engines \cup {None}
  /\ starting \in BOOLEAN

\* the supervisor's first engine is launched by its constructor
Init ==
  /\ engines = <<"alive">>
  /\ owned = 1
  /\ starting = FALSE

(* Stop: the owned engine, if any, is asked to exit and released.  An      *)
(* engine that already died stays dead.                                    *)
Release ==
  /\ engines' = IF owned # None /\ engines[owned] = "alive"
                THEN [engines EXCEPT ![owned] = "terminating"]
                ELSE engines
  /\ owned' = None

Stop ==
  /\ ~starting
  /\ Release
  /\ UNCHANGED starting

(* Restart: Stop, then begin a Start under the same exclusive lock.        *)
Restart ==
  /\ ~starting
  /\ Len(engines) < MaxEngines
  /\ Release
  /\ starting' = TRUE

(* The Start in progress launches a fresh engine, which becomes owned.     *)
Launch ==
  /\ starting
  /\ owned = None
  /\ engines' = Append(engines, "alive")
  /\ owned' = Len(engines) + 1
  /\ starting' = FALSE

\* an engine dies on its own, owned or not
Crash(i) ==
  /\ engines[i] = "alive"
  /\ engines' = [engines EXCEPT ![i] = "dead"]
  /\ UNCHANGED <<owned, starting>>

\* an engine asked to exit does so
Exit(i) ==
  /\ engines[i] = "terminating"
  /\ engines' = [engines EXCEPT ![i] = "dead"]
  /\ UNCHANGED <<owned, starting>>

Next ==
  \/ Stop \/ Restart \/ Launch
  \/ \E i \in DOMAIN engines : Crash(i) \/ Exit(i)

(* A Start that has begun completes, and every engine asked to exit        *)
(* eventually exits.                                                       *)
Spec ==
  /\ Init /\ [][Next]_vars
  /\ WF_vars(Launch)
  /\ \A i \in 1..MaxEngines : WF_vars(i \in DOMAIN engines /\ Exit(i))

====
