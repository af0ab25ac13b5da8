---------------------------- MODULE PythonSettings ----------------------------
(***************************************************************************)
(* PythonSettings (src/ycmd/completers/python/settings.py): the settings   *)
(* of a file are those of its project root, found by                       *)
(* GetProjectRootForFile and memoised per file name when a root is found,  *)
(* then resolved by the root's .ycm_extra_conf.py hook PythonSettings()    *)
(* and memoised per root when they say do_cache.                           *)
(*                                                                         *)
(* Files are named by their folder on the chain of module ProjectRoot      *)
(* (None stands for a missing file name).  The filesystem (marker files)  *)
(* and the behaviour of each folder's extra conf hook are fixed for a run; *)
(* extra_conf_store.ModuleForSourceFile( root ) is the nearest extra conf  *)
(* at or above the root.  The settings are abstracted to the folder whose  *)
(* hook produced them (None for the defaults) and do_cache.                *)
(***************************************************************************)
EXTENDS Naturals, FiniteSets, Sequences, TLC

CONSTANTS
  Depth,        \* depth of the deepest folder
  MaxRequests,  \* bound on the SettingsForFile calls
  None          \* Python's None

PR == INSTANCE ProjectRoot

Folders == PR!Folders
Keys == Folders \cup {None}

(* What the hook PythonSettings( client_data ) of an extra conf does:      *)
(* the module has no such function (AttributeError), it returns a falsy    *)
(* value, or it returns settings without or with do_cache = False.         *)
HookKinds == {"noPythonSettings", "falsy", "cache", "nocache"}

Settings == [src : Folders \cup {None}, do_cache : BOOLEAN]

\* the default settings of _GetSettingsForProjectRoot (lines 69-74)
Default == [src |-> None, do_cache |-> TRUE]

VARIABLES
  markers,                 \* marker files in each folder
  hook,                    \* behaviour of each folder's extra conf hook
  project_root_for_file,   \* PythonSettings._project_root_for_file
  settings_for_project_root, \* PythonSettings._settings_for_project_root
  hookCalls,               \* PythonSettings() invocations per project root
  requests                 \* SettingsForFile calls per project root

vars == <<markers, hook, project_root_for_file, settings_for_project_root,
          hookCalls, requests>>

TypeOK ==
  /\ markers \in [Folders -> SUBSET PR!Candidates]
  /\ hook \in [Folders -> HookKinds]
  /\ DOMAIN project_root_for_file \subseteq Keys
  /\ \A f \in DOMAIN project_root_for_file : project_root_for_file[f] \in Folders
  /\ DOMAIN settings_for_project_root \subseteq Keys
  /\ \A r \in DOMAIN settings_for_project_root :
       settings_for_project_root[r] \in Settings
  /\ hookCalls \in [Keys -> 0..MaxRequests]
  /\ requests \in [Keys -> 0..MaxRequests]

\* the folders with a .ycm_extra_conf.py
Confs == {d \in Folders : ".ycm_extra_conf.py" \in markers[d]}

\* extra_conf_store.ModuleForSourceFile( project_root )
ModuleForSourceFile(root) == PR!ModuleForSourceFile(root, Confs)

(* _GetSettingsForProjectRoot lines 67-94: the defaults, unless the root's *)
(* extra conf hook returns settings, merged over them by UpdateDictionary. *)
GetSettingsForProjectRoot(root) ==
  LET conf == ModuleForSourceFile(root) IN
  IF root = None \/ conf = None THEN Default
  ELSE CASE hook[conf] \in {"noPythonSettings", "falsy"} -> Default
         [] hook[conf] = "cache"   -> [src |-> conf, do_cache |-> TRUE]
         [] hook[conf] = "nocache" -> [src |-> conf, do_cache |-> FALSE]

\* whether _GetSettingsForProjectRoot calls the hook for this root
InvokesHook(root) == root # None /\ ModuleForSourceFile(root) # None

\* the memoised root of file f, else the one GetProjectRootForFile finds
RootOf(f) ==
  IF f \in DOMAIN project_root_for_file THEN project_root_for_file[f]
  ELSE PR!GetProjectRootForFile(f, markers)

\* Mutant: a search that found no root memoises None as well.
MemoiseRootNone(f) ==
  IF f \notin DOMAIN project_root_for_file
  THEN (f :> RootOf(f)) @@ project_root_for_file
  ELSE project_root_for_file

\* GetProjectRootForFile line 103: only a root that was found is memoised.
MemoiseRoot(f) ==
  IF f \notin DOMAIN project_root_for_file /\ RootOf(f) # None
  THEN (f :> RootOf(f)) @@ project_root_for_file
  ELSE project_root_for_file

\* Mutant: the do_cache test of line 62 dropped.
CacheSettingsAlways(root, s) == (root :> s) @@ settings_for_project_root

\* SettingsForFile lines 62-63: settings are memoised when they say do_cache.
CacheSettings(root, s) ==
  IF s.do_cache THEN (root :> s) @@ settings_for_project_root
  ELSE settings_for_project_root

(* SettingsForFile( filename ) lines 50-64: the root, then the memoised    *)
(* settings of the root, else _GetSettingsForProjectRoot.  Hook errors are *)
(* not raised.                                                             *)
SettingsForFile(f) ==
  LET root == RootOf(f)
      cached == root \in DOMAIN settings_for_project_root
      s == IF cached THEN settings_for_project_root[root]
           ELSE GetSettingsForProjectRoot(root)
      hooked == ~cached /\ InvokesHook(root)
  IN
  /\ requests[root] < MaxRequests
  /\ project_root_for_file' = MemoiseRoot(f)
  /\ settings_for_project_root' = CacheSettings(root, s)
  /\ hookCalls' = IF hooked THEN [hookCalls EXCEPT ![root] = @ + 1] ELSE hookCalls
  /\ requests' = [requests EXCEPT ![root] = @ + 1]
  /\ UNCHANGED <<markers, hook>>

\* PythonSettings.__init__: both memos empty; any filesystem and hooks.
Init ==
  /\ markers \in [Folders -> SUBSET PR!Candidates]
  /\ hook \in [Folders -> HookKinds]
  /\ project_root_for_file = <<>>
  /\ settings_for_project_root = <<>>
  /\ hookCalls = [k \in Keys |-> 0]
  /\ requests = [k \in Keys |-> 0]

Next == \E f \in Keys : SettingsForFile(f)

Spec == Init /\ [][Next]_vars

-----------------------------------------------------------------------------
\* whether the settings the root resolves to allow caching
Cacheable(root) == GetSettingsForProjectRoot(root).do_cache

\* highest, lowest element of a nonempty set of numbers
Highest(S) == CHOOSE x \in S : \A y \in S : y <= x
Lowest(S) == CHOOSE x \in S : \A y \in S : x <= y

(* The project root Python settings intend for a file in folder f: among   *)
(* the candidates present in some folder at or above f, the one of highest *)
(* priority, and the nearest folder containing it; None when no folder     *)
(* holds one.                                                              *)
PriorityRoot(f) ==
  LET cands == PR!PROJECT_ROOT_CANDIDATES
      present == {c \in 1..Len(cands) : \E k \in 0..f : cands[c] \in markers[k]}
  IN IF present = {} THEN None
     ELSE Highest({k \in 0..f : cands[Lowest(present)] \in markers[k]})

(* Every file's project root, memoised or searched afresh, is the nearest  *)
(* folder holding the highest-priority marker found anywhere above it, so  *)
(* a .ycm_extra_conf.py or setup.py further up wins over a nearer          *)
(* __init__.py.  About the order of the two nested loops of                *)
(* GetProjectRootForFile and their early return, and the memo never        *)
(* disagreeing with a fresh search.                                        *)
ProjectRootIsPriorityRoot == \A f \in Folders : RootOf(f) = PriorityRoot(f)

(* The settings hook of a root whose settings allow caching runs at most   *)
(* once across all calls, and the hook of a root whose settings disable    *)
(* caching runs on every call for that root (spec 7, SettingsForFile).     *)
HookCallsAsSpecified ==
  \A r \in Folders :
    /\ Cacheable(r) => hookCalls[r] <= 1
    /\ ~Cacheable(r) => hookCalls[r] = requests[r]

====
