------------------------ MODULE MC_PadawanSupervisor ------------------------
(* Model of PadawanSupervisor for TLC: two server threads, three ports,    *)
(* the initial engine plus two restarts.                                   *)
EXTENDS PadawanSupervisor

CONSTANTS t1, t2, p1, p2, p3

MC_Threads == {t1, t2}
MC_Ports == {p1, p2, p3}

(* The result of a thread's last health check feeds no guard; the runs     *)
(* that do not check it merge states that differ only in it.               *)
MC_LifecycleView == <<handle, host, stdout, stderr, files, procs, lock, pc,
                      restart>>
=============================================================================
