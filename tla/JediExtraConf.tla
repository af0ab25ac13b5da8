---------------------------- MODULE JediExtraConf ----------------------------
(***************************************************************************)
(* JediCompleter's extra conf handling on FileReadyToParse                 *)
(* (src/ycmd/completers/python/jedi_completer.py, lines 485-537).          *)
(*                                                                         *)
(* The first parse for which a .ycm_extra_conf.py is found stores that     *)
(* module in _extra_conf for good; every parse then calls its              *)
(* PythonSettings( client_data ) and, when the result is a dictionary with *)
(* a list under 'additional_sources', stores the list, which every later   *)
(* request sends to JediHTTP as 'modules'.  The first parse with no extra  *)
(* conf raises a one-time warning.                                         *)
(*                                                                         *)
(* Files are named by their folder on the chain of module ProjectRoot.     *)
(* conf[d] says how the extra conf of folder d behaves (None: folder d has *)
(* no extra conf); the list an extra conf returns is named by its folder.  *)
(***************************************************************************)
EXTENDS Naturals

CONSTANTS
  Depth,  \* depth of the deepest folder
  None    \* Python's None, and the initial empty list of sources

PR == INSTANCE ProjectRoot

Folders == PR!Folders

(* An extra conf without PythonSettings, or whose PythonSettings returns   *)
(* no dictionary, a dictionary without 'additional_sources', a non-list    *)
(* under that key, or a proper list.                                       *)
ConfKinds == {"noPythonSettings", "notDict", "noSources", "notList", "ok"}

Outcomes == {"none", "ok", "warning", "noPythonSettings", "badSettings"}

VARIABLES
  conf,        \* behaviour of each folder's extra conf, None if it has none
  extra_conf,  \* JediCompleter._extra_conf: folder of the stored module
  warned,      \* JediCompleter._no_extra_conf_file_warning_posted
  sources,     \* JediCompleter._additional_sources: whose list, None for []
  outcome      \* how the last OnFileReadyToParse ended

vars == <<conf, extra_conf, warned, sources, outcome>>

TypeOK ==
  /\ conf \in [Folders -> ConfKinds \cup {None}]
  /\ extra_conf \in Folders \cup {None}
  /\ warned \in BOOLEAN
  /\ sources \in Folders \cup {None}
  /\ outcome \in Outcomes

\* extra_conf_store.ModuleForSourceFile( filepath )
ModuleForSourceFile(f) == PR!ModuleForSourceFile(f, {d \in Folders : conf[d] # None})

(* _SetSettings lines 508-530: the result of the stored module's           *)
(* PythonSettings is validated and each failure raises RuntimeError, which *)
(* leaves _additional_sources as it was; a list replaces it.               *)
SetSettings(ec) ==
  \/ /\ conf[ec] \in {"notDict", "noSources", "notList"}
     /\ outcome' = "badSettings"
     /\ UNCHANGED sources
  \/ /\ conf[ec] = "ok"
     /\ outcome' = "ok"
     /\ sources' = ec

(* _SetExtraConf lines 486-504: with no extra conf found, the first call   *)
(* sets the flag and raises the warning; any later one falls through to    *)
(* hasattr( None, 'PythonSettings' ) and raises "No PythonSettings".  An   *)
(* extra conf with PythonSettings is stored.                               *)
SetExtraConf(f) ==
  LET ec == ModuleForSourceFile(f) IN
  \/ /\ ec = None /\ ~warned
     /\ warned' = TRUE
     /\ outcome' = "warning"
     /\ UNCHANGED <<extra_conf, sources>>
  \/ /\ (ec = None /\ warned) \/ (ec # None /\ conf[ec] = "noPythonSettings")
     /\ outcome' = "noPythonSettings"
     /\ UNCHANGED <<extra_conf, warned, sources>>
  \/ /\ ec # None /\ conf[ec] # "noPythonSettings"
     /\ extra_conf' = ec
     /\ SetSettings(ec)
     /\ UNCHANGED warned

(* OnFileReadyToParse lines 533-537: _SetExtraConf only while no module is *)
(* stored, then _SetSettings with the stored one.                          *)
OnFileReadyToParse(f) ==
  /\ \/ /\ extra_conf = None
        /\ SetExtraConf(f)
     \/ /\ extra_conf # None
        /\ SetSettings(extra_conf)
        /\ UNCHANGED <<extra_conf, warned>>
  /\ UNCHANGED conf

\* JediCompleter.__init__ lines 75-77; any set of extra confs on disk.
Init ==
  /\ conf \in [Folders -> ConfKinds \cup {None}]
  /\ extra_conf = None
  /\ warned = FALSE
  /\ sources = None
  /\ outcome = "none"

Next == \E f \in Folders : OnFileReadyToParse(f)

Spec == Init /\ [][Next]_vars

====
