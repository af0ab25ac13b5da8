----------------------------- MODULE PHPProjects -----------------------------
(***************************************************************************)
(* PHPCompleter's project container and the index generation of each      *)
(* project (src/ycmd/completers/php/php_project_container.py,             *)
(* php_project.py and the callers in php_completer.py).                    *)
(*                                                                         *)
(* Request threads call, without any lock:                                 *)
(*  - a completion request: _SendRequest -> _TranslateRequestForPadawan   *)
(*    -> PHPProjectContainer.GetProject( filepath );                       *)
(*  - the GenerateIndex subcommand: GetProject, then                       *)
(*    PHPProject.GenerateIndex(), which spawns a padawan CLI process;      *)
(*  - GetProgress: a loop over the container's projects calling            *)
(*    PHPProject.GetProgress -> GetIndexingPercentage.                     *)
(* A thread runs a Python statement that reads or writes one dictionary   *)
(* or attribute as one step.  The CLI processes are the environment: a    *)
(* running one may exit at any time.  _FindComposerFolder is FileRoot      *)
(* (its search is the operator of module ProjectRoot).                     *)
(***************************************************************************)
EXTENDS Naturals, Sequences, FiniteSets

CONSTANTS
  Threads,      \* request threads of the server
  Files,        \* normalised file paths requests name
  Roots,        \* project roots
  FileRoot,     \* _FindComposerFolder, as a function from Files to Roots
  MaxProjects,  \* bound on the PHPProject objects ever constructed
  MaxIndexers,  \* bound on the padawan CLI processes ever spawned
  None          \* Python's None

ASSUME /\ FileRoot \in [Files -> Roots]
       /\ MaxProjects \in Nat /\ MaxIndexers \in Nat
       /\ None \notin Roots

VARIABLES
  filepaths,  \* PHPProjectContainer._filepaths: file -> root, None if absent
  projects,   \* PHPProjectContainer._projects: root -> object, None if absent
  objs,       \* every PHPProject constructed: [root, cli, output]
  clis,       \* every padawan CLI spawned: "running" or "exited"
  pc,         \* per-thread position
  op,         \* per-thread request being served
  file,       \* per-thread filepath argument
  root,       \* per-thread local project_root of GetProject
  proj,       \* per-thread project being indexed or polled
  todo,       \* per-thread roots the GetProgress loop has yet to visit
  size,       \* per-thread size of _projects when the loop started
  fault       \* per-thread exception the last request raised, or "none"

vars == <<filepaths, projects, objs, clis, pc, op, file, root, proj, todo,
          size, fault>>

Obj == [root : Roots, cli : Nat \cup {None}, output : BOOLEAN]

Faults == {"none", "KeyError", "AttributeError", "RuntimeError"}

\* the keys of _projects
Keys == {r \in Roots : projects[r] # None}

TypeOK ==
  /\ filepaths \in [Files -> Roots \cup {None}]
  /\ projects \in [Roots -> (1..MaxProjects) \cup {None}]
  /\ objs \in Seq(Obj) /\ Len(objs) <= MaxProjects
  /\ \A o \in 1..Len(objs) : objs[o].cli \in (1..Len(clis)) \cup {None}
  /\ clis \in Seq({"running", "exited"}) /\ Len(clis) <= MaxIndexers
  /\ pc \in [Threads -> {"idle", "getProject", "checkProject", "insert",
                         "tempFile", "spawn", "progress", "pollCheck",
                         "pollReset"}]
  /\ op \in [Threads -> {"complete", "index", "progress"}]
  /\ file \in [Threads -> Files \cup {None}]
  /\ root \in [Threads -> Roots \cup {None}]
  /\ proj \in [Threads -> (1..MaxProjects) \cup {None}]
  /\ todo \in [Threads -> SUBSET Roots]
  /\ size \in [Threads -> 0..Cardinality(Roots)]
  /\ fault \in [Threads -> Faults]

\* threads inside a call that may still construct a PHPProject or spawn a CLI
MayConstruct == {t \in Threads : pc[t] \in {"getProject", "checkProject", "insert"}}
MaySpawn == {t \in Threads : op[t] = "index" /\ pc[t] # "idle"}

(* The call of thread t returns: its locals (project_root, the project,    *)
(* the loop's iterator) go out of scope.                                   *)
Finish(t) ==
  /\ pc' = [pc EXCEPT ![t] = "idle"]
  /\ root' = [root EXCEPT ![t] = None]
  /\ proj' = [proj EXCEPT ![t] = None]
  /\ todo' = [todo EXCEPT ![t] = {}]
  /\ size' = [size EXCEPT ![t] = 0]
  /\ file' = [file EXCEPT ![t] = None]

-----------------------------------------------------------------------------
(* GetProject returns object o: the caller either sends its completion     *)
(* request (not modelled further) or, for _GenerateIndex, goes on to       *)
(* PHPProject.GenerateIndex.                                               *)
Return(t, o) ==
  \/ /\ op[t] = "index"
     /\ proj' = [proj EXCEPT ![t] = o]
     /\ root' = [root EXCEPT ![t] = None]
     /\ file' = [file EXCEPT ![t] = None]
     /\ pc' = [pc EXCEPT ![t] = "tempFile"]
     /\ UNCHANGED <<todo, size>>
  \/ /\ op[t] = "complete"
     /\ Finish(t)

\* A request for file f arrives: a completion or the GenerateIndex subcommand.
Request(t) ==
  /\ pc[t] = "idle"
  /\ Len(objs) + Cardinality(MayConstruct) < MaxProjects
  /\ \E f \in Files, o \in {"complete", "index"} :
       /\ o = "index" => Len(clis) + Cardinality(MaySpawn) < MaxIndexers
       /\ op' = [op EXCEPT ![t] = o]
       /\ file' = [file EXCEPT ![t] = f]
  /\ pc' = [pc EXCEPT ![t] = "getProject"]
  /\ fault' = [fault EXCEPT ![t] = "none"]
  /\ UNCHANGED <<filepaths, projects, objs, clis, root, proj, todo, size>>

(* GetProject lines 44-52: a cached file path returns _projects[ root ],   *)
(* a KeyError if that root has no project yet; otherwise the root is       *)
(* searched for and cached before any project exists for it.             *)
GetProjectLookup(t) ==
  LET f == file[t] IN
  /\ pc[t] = "getProject"
  /\ \/ /\ filepaths[f] # None
        /\ projects[filepaths[f]] # None
        /\ Return(t, projects[filepaths[f]])
        /\ UNCHANGED <<filepaths, fault>>
     \/ /\ filepaths[f] # None
        /\ projects[filepaths[f]] = None
        /\ fault' = [fault EXCEPT ![t] = "KeyError"]
        /\ Finish(t)
        /\ UNCHANGED filepaths
     \/ /\ filepaths[f] = None
        /\ filepaths' = [filepaths EXCEPT ![f] = FileRoot[f]]
        /\ root' = [root EXCEPT ![t] = FileRoot[f]]
        /\ pc' = [pc EXCEPT ![t] = "checkProject"]
        /\ UNCHANGED <<proj, todo, size, fault, file>>
  /\ UNCHANGED <<projects, objs, clis, op>>

\* GetProject lines 54-56: an existing project for the root is returned.
CheckProject(t) ==
  /\ pc[t] = "checkProject"
  /\ \/ /\ projects[root[t]] # None
        /\ Return(t, projects[root[t]])
     \/ /\ projects[root[t]] = None
        /\ pc' = [pc EXCEPT ![t] = "insert"]
        /\ UNCHANGED <<root, proj, todo, size, file>>
  /\ UNCHANGED <<filepaths, projects, objs, clis, op, fault>>

\* Mutant: the new project is returned but never stored in _projects.
InsertNotStored(t) ==
  /\ pc[t] = "insert"
  /\ objs' = Append(objs, [root |-> root[t], cli |-> None, output |-> FALSE])
  /\ Return(t, Len(objs) + 1)
  /\ UNCHANGED <<filepaths, projects, clis, op, fault>>

(* GetProject lines 58-62: PHPProject( project_root ) is stored under the  *)
(* root, replacing one another thread may have stored meanwhile.           *)
Insert(t) ==
  /\ pc[t] = "insert"
  /\ objs' = Append(objs, [root |-> root[t], cli |-> None, output |-> FALSE])
  /\ projects' = [projects EXCEPT ![root[t]] = Len(objs) + 1]
  /\ Return(t, Len(objs) + 1)
  /\ UNCHANGED <<filepaths, clis, op, fault>>

(* PHPProject.GenerateIndex lines 64-69: a new temporary output file is    *)
(* named and stored in _padawan_cli_output.                                *)
TempFile(t) ==
  /\ pc[t] = "tempFile"
  /\ objs' = [objs EXCEPT ![proj[t]].output = TRUE]
  /\ pc' = [pc EXCEPT ![t] = "spawn"]
  /\ UNCHANGED <<filepaths, projects, clis, op, file, root, proj, todo, size,
                 fault>>

\* Mutant: the handle is stored one slot past the spawned process.
SpawnOffByOne(t) ==
  /\ pc[t] = "spawn"
  /\ clis' = Append(clis, "running")
  /\ objs' = [objs EXCEPT ![proj[t]].cli = Len(clis) + 2]
  /\ Finish(t)
  /\ UNCHANGED <<filepaths, projects, op, fault>>

(* GenerateIndex lines 72-76: the padawan CLI is spawned and its handle    *)
(* replaces _padawan_cli_phandle, whether or not the previous CLI of the   *)
(* project is still running.                                               *)
Spawn(t) ==
  /\ pc[t] = "spawn"
  /\ clis' = Append(clis, "running")
  /\ objs' = [objs EXCEPT ![proj[t]].cli = Len(clis) + 1]
  /\ Finish(t)
  /\ UNCHANGED <<filepaths, projects, op, fault>>

(* PHPCompleter.GetProgress: iteration over GetProjects(), the live view   *)
(* of _projects.values(), starts.                                          *)
GetProgress(t) ==
  /\ pc[t] = "idle"
  /\ op' = [op EXCEPT ![t] = "progress"]
  /\ todo' = [todo EXCEPT ![t] = Keys]
  /\ size' = [size EXCEPT ![t] = Cardinality(Keys)]
  /\ fault' = [fault EXCEPT ![t] = "none"]
  /\ pc' = [pc EXCEPT ![t] = "progress"]
  /\ UNCHANGED <<filepaths, projects, objs, clis, file, root, proj>>

(* One step of the for loop: CPython raises RuntimeError when the          *)
(* dictionary changed size during iteration; otherwise the loop ends or    *)
(* reads the current value of the next key.                                *)
ProgressNext(t) ==
  /\ pc[t] = "progress"
  /\ \/ /\ Cardinality(Keys) # size[t]
        /\ fault' = [fault EXCEPT ![t] = "RuntimeError"]
        /\ Finish(t)
     \/ /\ Cardinality(Keys) = size[t]
        /\ todo[t] = {}
        /\ Finish(t)
        /\ UNCHANGED fault
     \/ /\ Cardinality(Keys) = size[t]
        /\ \E r \in todo[t] :
             /\ todo' = [todo EXCEPT ![t] = @ \ {r}]
             /\ proj' = [proj EXCEPT ![t] = projects[r]]
        /\ pc' = [pc EXCEPT ![t] = "pollCheck"]
        /\ UNCHANGED <<root, size, fault, file>>
  /\ UNCHANGED <<filepaths, projects, objs, clis, op>>

(* GetIndexingPercentage lines 80-92: no output file gives None; then      *)
(* _padawan_cli_phandle.poll(), an AttributeError while the handle is      *)
(* still None; an exited CLI goes on to line 84; a running one gives the   *)
(* last "Progress:" of the output file.                                    *)
PollCheck(t) ==
  LET o == objs[proj[t]] IN
  /\ pc[t] = "pollCheck"
  /\ \/ /\ ~o.output
        /\ pc' = [pc EXCEPT ![t] = "progress"]
        /\ UNCHANGED <<root, proj, todo, size, fault, file>>
     \/ /\ o.output /\ o.cli = None
        /\ fault' = [fault EXCEPT ![t] = "AttributeError"]
        /\ Finish(t)
     \/ /\ o.output /\ o.cli # None
        /\ clis[o.cli] = "exited"
        /\ pc' = [pc EXCEPT ![t] = "pollReset"]
        /\ UNCHANGED <<root, proj, todo, size, fault, file>>
     \/ /\ o.output /\ o.cli # None
        /\ clis[o.cli] = "running"
        /\ pc' = [pc EXCEPT ![t] = "progress"]
        /\ UNCHANGED <<root, proj, todo, size, fault, file>>
  /\ UNCHANGED <<filepaths, projects, objs, clis, op>>

(* GetIndexingPercentage lines 84-85: the output file is forgotten and 100 *)
(* is reported, once.                                                      *)
PollReset(t) ==
  /\ pc[t] = "pollReset"
  /\ objs' = [objs EXCEPT ![proj[t]].output = FALSE]
  /\ pc' = [pc EXCEPT ![t] = "progress"]
  /\ UNCHANGED <<filepaths, projects, clis, op, file, root, proj, todo, size,
                 fault>>

\* Environment: a padawan CLI finishes generating the index.
CliExit(i) ==
  /\ clis[i] = "running"
  /\ clis' = [clis EXCEPT ![i] = "exited"]
  /\ UNCHANGED <<filepaths, projects, objs, pc, op, file, root, proj, todo,
                 size, fault>>

\* PHPProjectContainer.__init__: both dictionaries empty.
Init ==
  /\ filepaths = [f \in Files |-> None]
  /\ projects = [r \in Roots |-> None]
  /\ objs = <<>>
  /\ clis = <<>>
  /\ pc = [t \in Threads |-> "idle"]
  /\ op = [t \in Threads |-> "complete"]
  /\ file = [t \in Threads |-> None]
  /\ root = [t \in Threads |-> None]
  /\ proj = [t \in Threads |-> None]
  /\ todo = [t \in Threads |-> {}]
  /\ size = [t \in Threads |-> 0]
  /\ fault = [t \in Threads |-> "none"]

ThreadNext(t) ==
  \/ Request(t) \/ GetProjectLookup(t) \/ CheckProject(t) \/ Insert(t)
  \/ TempFile(t) \/ Spawn(t)
  \/ GetProgress(t) \/ ProgressNext(t) \/ PollCheck(t) \/ PollReset(t)

Next ==
  \/ \E t \in Threads : ThreadNext(t)
  \/ \E i \in 1..Len(clis) : CliExit(i)

Spec == Init /\ [][Next]_vars

-----------------------------------------------------------------------------
(* Whenever no request is in flight, every file path GetProject cached     *)
(* resolves to a stored project, so no later call can raise KeyError.      *)
QuiescentCacheConsistent ==
  (\A t \in Threads : pc[t] = "idle") =>
    \A f \in Files : filepaths[f] # None => projects[filepaths[f]] # None

(* GetProject never raises: a file path found in _filepaths has its        *)
(* project in _projects (line 48).                                         *)
GetProjectNeverRaises == \A t \in Threads : fault[t] # "KeyError"

(* PHPCompleter.GetProgress never raises while indexing is requested       *)
(* concurrently.                                                           *)
GetProgressNeverRaises ==
  \A t \in Threads : op[t] = "progress" => fault[t] = "none"

====
