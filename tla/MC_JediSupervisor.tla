-------------------------- MODULE MC_JediSupervisor --------------------------
(* Model of JediSupervisor for TLC: two server threads, three ports, the   *)
(* initial engine plus two restarts.                                       *)
EXTENDS JediSupervisor

CONSTANTS t1, t2, p1, p2, p3

MC_Threads == {t1, t2}
MC_Ports == {p1, p2, p3}

(* The outcome of a thread's last request feeds no guard, and no property *)
(* of the lifecycle run reads it: states differing only in it are merged.  *)
MC_LifecycleView == <<handle, port, host, secret, stdout, stderr, files, procs,
                      lock, pc, reqHost, reqKey>>
=============================================================================
