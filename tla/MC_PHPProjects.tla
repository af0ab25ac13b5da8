---------------------------- MODULE MC_PHPProjects ----------------------------
(* Instance of PHPProjects: two request threads, three files, two with     *)
(* their composer.json in root r1 and one in root r2.                      *)
EXTENDS PHPProjects, TLC

CONSTANTS t1, t2, f1, f2, f3, r1, r2

MC_Threads == {t1, t2}
MC_Files == {f1, f2, f3}
MC_Roots == {r1, r2}
MC_FileRoot == (f1 :> r1) @@ (f2 :> r1) @@ (f3 :> r2)

====
