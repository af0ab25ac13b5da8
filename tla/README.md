# TLA+ models of ycmd's engine supervisors and project-root search

This directory holds TLA+ models of parts of ycmd (`src/ycmd`) and the TLC configurations that
check them. Each module is translated from the Python source. `PROJECT.json` maps every
definition to the lines it models, lists the runs, the mutants that show each property can fail,
the findings, and the hazards of the code that are hard to test.

## The system and its parts

ycmd is an HTTP server. Its request handlers run on several threads and call language
*completers*. Two completers supervise an external *engine* process, which is a server of its own:

* **PHPCompleter** (`completers/php/php_completer.py`) runs Padawan.php. Its lifecycle is
  `_StartServer`, `_StopServer` (POST `/kill`, then a 5 s bounded wait), `_CleanUp`,
  `_RestartServer` and `Shutdown`, all under the reentrant `_padawan_lock`. The log files are
  named after the port (`SERVER_LOGFILE_FORMAT`), and `_CleanUp` deletes them unless
  `server_keep_logfiles` is set.
* **JediCompleter** (`completers/python/jedi_completer.py`) runs JediHTTP. `_StartServer` picks a
  free port (`startup.GetUnusedLocalhostPort`), publishes the port and host, generates a fresh
  HMAC secret, and spawns the process with the secret in a temporary file. `_StopServer` sends
  SIGTERM and does not wait. Every request (`_GetResponse`) builds its URL from `_jedihttp_host`
  and signs its body with `_hmac_secret` (`_ExtraHeaders`). JediHTTP rejects a bad signature
  with 401. These reads do not take `_server_lock`.
* **Project-root search.**
  * `PythonSettings.GetProjectRootForFile` (`completers/python/settings.py`) walks the parent
    folders looking for `PROJECT_ROOT_CANDIDATES`.
  * `PHPProjectContainer._FindComposerFolder` (`completers/php/php_project_container.py`) looks
    for `composer.json`.

  Both choose which settings and which Padawan project serve a file.
* **PHP projects** (`completers/php/php_project_container.py`, `php_project.py`).
  `PHPProjectContainer.GetProject` maps a file to its composer root (`_filepaths`) and the root
  to a `PHPProject` (`_projects`), with no lock. `PHPProject.GenerateIndex` spawns a padawan CLI
  that writes the index. `PHPCompleter.GetProgress` loops over every project and polls its CLI.
* **Python settings** (`completers/python/settings.py`). `SettingsForFile` memoises the root of
  each file and the settings of each root. A root's settings come from the `PythonSettings` hook
  of the nearest `.ycm_extra_conf.py`, and are memoised unless they say `do_cache: False`.
* **Jedi extra conf** (`jedi_completer.py`, `OnFileReadyToParse`). The first extra conf found is
  stored for good. Its `PythonSettings` result is validated, and its `additional_sources` are
  sent to JediHTTP as `modules` with every request.
* **Location subcommands** (`jedi_completer.py`: `GetSubcommandsMap`, `_GoTo*`, `_GetDoc`,
  `_GoToReferences`, `_RefactorRename`, `_BuildRange`, `_BuildGoToResponse`) turn ycmd's byte
  columns into Jedi's columns and back.
* **The startup benchmark** (`src/startup.py`). `YcmdClient.Start` draws a fresh HMAC secret,
  picks a port with `GetUnusedLocalhostPort`, spawns ycmd and polls `GET /ready` in
  `_WaitUntilReady` until ycmd answers or a deadline passes. Every request is signed with
  `CreateRequestHmac`. The main loop repeats Start and a `shutdown` request.
* Parts not yet modelled are listed as `not_modelled` in `PROJECT.json`:
  * the other response builders;
  * `RequestWrap`.

How the parts interact: the handler threads call completer methods concurrently, and each
completer shares its engine state (handle, port, host, secret, log paths) between those threads.
The engine is a separate OS process. It may not yet be listening, it may crash, and it exits only
when asked. The project-root search decides which engine state and settings a request uses.

## Modules

| Module | Models | State ↔ code |
|---|---|---|
| `PadawanSupervisor` | PHPCompleter lifecycle | See below |
| `JediSupervisor` | JediCompleter lifecycle and requests | See below |
| `ProjectRoot` | Both root searches as operators | See below |
| `PHPProjects` | Project container, indexing, progress | See below |
| `PythonSettings` | The two memos of `PythonSettings` | See below |
| `JediExtraConf` | `OnFileReadyToParse`, `_SetExtraConf`, `_SetSettings` | See below |
| `EngineLifecycle` | Abstract engine supervisor (spec 4, 5) | See below |
| `JediLocations` | Columns of JediCompleter's location subcommands | See below |
| `SecuredChannel` | `CreateHmac`, `CreateRequestHmac` | See below |
| `YcmdClient` | The startup benchmark: main loop, `Start`, `_WaitUntilReady` | See below |
| `MC_*` | TLC instances | Model values for threads and ports |

**`PadawanSupervisor`**
* `handle`, `host`, `stdout`, `stderr` and `lock` are the `_padawan_*` fields.
* `files` is the set of log files on disk.
* `procs` is the sequence of every Padawan process ever spawned (port, state).
* `pc` is where each thread is inside `_StopServer`/`_RestartServer`.
* Actions: `StopServer`, `SendKill`, `SendKillError`, `WaitAndCleanUp`, `Restart`
  (= `_StartServer` after a stop).
* `_SendRequest` posts with no timeout, so a request to a hung Padawan never returns. `SendKill`
  and `SendHealthy` are enabled only when the port's listener answers (`Answers`). `SendKill`
  covers a `/kill` that is answered, or refused because nothing listens. `SendKillError` covers
  an HTTP error or an `error` reply (lines 133-136), which leaves `_StopServer` before `_CleanUp`
  and keeps the handle.
* `ServerIsHealthy` is two unlocked actions: `ServerIsHealthy` checks `_ServerIsRunning`
  (lines 208-214) and `SendHealthy` posts `/healthy` to `_padawan_host` (216-221). `health`
  records whose engine answered: the completer's own, another (an orphan on the same port),
  or none.
* Environment: `Bind`, `Hang` (a listening Padawan stops answering but keeps its port), `Crash`,
  `Exit`.

**`JediSupervisor`**
* `handle`, `port`, `host`, `secret`, the log paths and `lock` are the `_jedihttp_*`,
  `_hmac_secret` and `_logfile_*` fields.
* `procs` records each JediHTTP process with the secret it was given.
* `reqHost`, `reqKey` and `reply` are a request's local URL, signature and outcome.
* `_StartServer` is two actions, `StartPort` (lines 156-159) and `StartSpawn` (160-181), so that
  an unlocked reader can run between them.
* `_GetResponse` is `ReadHost` → `Sign` → `Send`.
* `ImplementsEngineLifecycle` is the refinement. The mapping sends the i-th spawned process
  to engine i (starting or serving is "alive"), `_jedihttp_phandle` to the owned engine, and
  "a thread is between `_StopServer` and `_StartServer` of a restart" to `starting`.

**`EngineLifecycle`**
* `engines` holds the state of each engine ever launched (alive, terminating, dead), `owned`
  the index of the one the supervisor holds, `starting` whether a restart has stopped the old
  engine and not yet launched the new one.
* `Stop`, `Restart`, `Launch`, `Crash` and `Exit`. A released engine is never owned again, and
  there is at most one owned engine. The fairness says a begun start completes and a
  terminating engine exits.
* It is written from the spec (sections 4 and 5), so its definitions are `spec_modelled`.

**`JediLocations`**
* One line of text, given as the UTF-8 width of each character (1 or 2 bytes); what each
  JediHTTP handler answers for each name (`jedi`); the cursor's byte column; the subcommand and
  its arguments. `Init` enumerates them, and nothing changes afterwards.
* `Response` is `GetSubcommandsMap`. Each subcommand is an operator of the code's, down to
  `_GetDefinitionsList`, `_BuildGoToResponse` and `_BuildRange`. A raised exception is the record
  `[error |-> message]`.
* JediHTTP (`JediReply`) is modelled from what ycmd relies on: Jedi counts 0-based characters,
  has nothing at the end of the line, and rejects a column past it.
**`ProjectRoot`**
* `GetProjectRootForFile` is a `RECURSIVE` scan in the code's loop order: candidates outside,
  folders inside.
* `FindComposerFolder` is a recursive walk.
* Folders are a chain `0..Depth`, where 0 is the filesystem root and `d` is the file's folder.

**`PHPProjects`**
* `filepaths` and `projects` are the container's dictionaries. A project is an index into
  `objs`, whose entries hold the root, the CLI handle and whether `_padawan_cli_output` is set.
* `clis` holds every padawan CLI process ever spawned (running or exited).
* `pc`, `op`, `file`, `root`, `proj`, `todo` and `size` are a request thread's position and locals.
  `Finish` clears the locals when the call returns.
* `GetProject` is three actions, one per dictionary step: `GetProjectLookup` (lines 44-52),
  `CheckProject` (54-56) and `Insert` (58-62).
* `GenerateIndex` is `TempFile` (64-69) then `Spawn` (71-76).
* `GetProgress` is `GetProgress`, then `ProgressNext` per step of the loop over the live
  `_projects.values()` view, then `PollCheck` / `PollReset` (`GetIndexingPercentage`).
  A change in the dictionary's size during the loop raises `RuntimeError`, as CPython does.
* `fault` records the exception a thread's request raised. `CliExit` is the CLI finishing.
* `FileRoot` (a constant) is the composer root of each file; `ProjectRoot` models the search.

**`PythonSettings`**
* `project_root_for_file` and `settings_for_project_root` are the two memos, as partial
  functions. `markers` and `hook` (how each folder's extra conf hook behaves) are chosen by `Init`.
* `SettingsForFile` is one atomic action. Two request threads could interleave its dictionary
  reads and writes; that is not modelled. The worst such a race does is call a cacheable hook
  twice, because both writes store the same settings.
* `hookCalls` and `requests` count the hook calls and the calls per root.

**`JediExtraConf`**
* `extra_conf`, `warned` and `sources` are `_extra_conf`, `_no_extra_conf_file_warning_posted`
  and `_additional_sources`. `conf` says how each folder's extra conf behaves.
* `OnFileReadyToParse` is one action that calls `SetExtraConf` or `SetSettings`. `outcome`
  records how it ended: ok, the warning, or the exception raised.
* No run checks this module. Its one invariant said the stored sources came from a validated
  list, but that only restated `_SetSettings`'s checks, so it was dropped. The behaviours worth
  stating are each reached by one or two sequential calls (see "Not modelled").

**`SecuredChannel`**
* `CreateHmac` and `CreateRequestHmac` are operators, with HMAC-SHA256 idealised: a digest is a
  record of its content and key.
* `SecureBytesEqual` is not modelled. Nothing in `startup.py` calls it. The file runs on
  Python 2 only (`from urlparse import`, line 15): there `bytes` is `str`, the type check lets
  `str` through, and `x ^ y` on two one-character strings raises `TypeError` for any two
  non-empty strings of equal length.

**`YcmdClient`**
* `pc` is where the benchmark is. `port` and `secret` are `_port` and `_hmac_secret`. `elapsed`
  is the time waited since Start, counted in sleeps and saturating just past `Timeout`.
* `servers` holds every ycmd spawned (port, secret, state). `foreign` holds the ports other
  programs took.
* `Start` is lines 105-130. `_WaitUntilReady` is `Check` (the deadline), one probe action per
  outcome, and `Sleep` (the `finally`). The probe outcomes are:
  * `ProbeRefused`: nothing listens, or the 1 ms connect timeout. It is retried.
  * `ProbeAnswered`: ycmd verifies the HMAC and answers. A bad HMAC answers 401, which
    `raise_for_status` raises.
  * `ProbeForeign`: another program answers an HTTP error. It escapes.
  * `ProbeReadTimeout`: `ReadTimeout` escapes.
* `Shutdown` is the main loop's `PostRequest( 'shutdown' )`, and `Finish` is its end.
* Environment: `Bind`, `Crash`, `TakePort`.

Each of the engine processes is modelled from what the supervisor code relies on (it binds its
port unless the port is taken, it may crash, and it exits after `/kill` or SIGTERM). The engines'
code is not in this repository, so those definitions are marked `spec_modelled` in `PROJECT.json`.

## Runs

| Run | Expect | What it shows |
|---|---|---|
| `padawan_lifecycle` (`MC_PadawanSupervisor.cfg`) | pass | `NoStaleLogFiles`: whenever no stop or restart is in progress, the log files on disk are exactly those of the current engine (none if there is none), if logs are not kept. `StopReturnsOnceKillAnswered`: once `/kill` has been answered or refused, every stop or restart returns, even if the engine never exits, because of the 5 s wait timeout. |
| `padawan_stop_hang` (`MC_PadawanStopHang.cfg`) | violation | `StopAlwaysReturns` fails. A serving Padawan hangs while a thread is in `StopServer`. `/kill` is posted with no timeout, so the thread waits forever holding `_padawan_lock`, and every later stop, restart and shutdown waits behind it. Spec 4.2 bounds Stop, and spec 5 gives network calls a read timeout. |
| `padawan_orphan` (`MC_PadawanOrphan.cfg`) | violation | `ReleasedEngineExits` fails. A restart before Padawan listens makes `/kill` fail with connection refused (swallowed), and the wait times out (swallowed). `_CleanUp` forgets the process, which then serves forever beside its successor. |
| `padawan_healthy` (`MC_PadawanHealthy.cfg`) | violation | `HealthyMeansOwnEngine` fails. A restart abandons an engine that has not bound its port yet (its `/kill` is refused), and `GetUnusedLocalhostPort` hands the same free port to the successor. The orphan binds it first, and the unlocked `ServerIsHealthy` gets its answer while the completer's own engine is still starting. |
| `jedi_lifecycle` (`MC_JediSupervisor.cfg`) | pass | `ReleasedEngineExits`: every JediHTTP the completer lets go of was sent SIGTERM and eventually exits, across restarts, shutdowns and crashes. `ImplementsEngineLifecycle`: the completer implements `EngineLifecycle`. |
| `jedi_torn_request` (`MC_JediTornRequest.cfg`) | violation | `RequestSignedForRecipient` fails. A request reads the new host after `StartPort`, signs with the old secret before line 160 runs, and gets 401 from the new engine. |
| `php_projects` (`MC_PHPProjects.cfg`) | pass | `QuiescentCacheConsistent`: with two threads racing completions, `GenerateIndex` and `GetProgress`, every cached file path resolves to a stored project whenever no request is in flight. |
| `php_getproject_race` (`MC_PHPGetProjectRace.cfg`) | violation | `GetProjectNeverRaises` fails. One request caches the file's root at line 52; a second request for the file, before line 60 stores the project, raises `KeyError` at line 48. |
| `php_progress_race` (`MC_PHPProgressRace.cfg`) | violation | `GetProgressNeverRaises` fails. A request inserts a project while `GetProgress` iterates over the dictionary: `RuntimeError`. |
| `python_settings` (`MC_PythonSettings.cfg`) | pass | `HookCallsAsSpecified`: a cacheable root's hook runs at most once; a non-cacheable root's hook runs on every call. `ProjectRootIsPriorityRoot`: every file's root, memoised or searched, is the nearest folder holding the highest-priority marker present. Both hold for every filesystem and hook of depth 1. |
| `startup_client` (`MC_YcmdClient.cfg`) | pass | `BenchmarkTerminates`: the benchmark always ends, by finishing or by an exception, even if ycmd never binds, dies, or loses its port to another program. `_WaitUntilReady` tests its deadline before every probe. |
| `jedi_goto_columns` (`MC_JediLocations.cfg`) | violation | `SubcommandsLandOnDefinitions` fails. TLC's trace: renaming the name `é` gives a range that ends at byte column 2, inside the character, because `_BuildRange` adds the name's length in characters. The same mix-up sends a byte column as Jedi's character column: on `éa` with the cursor on `a`, GoTo asks about character 2, past the end. |

**Bounds**
* Two threads are enough for every two-party interleaving: stop against restart, request against
  restart.
* `MaxSpawns = 3` engines and three ports allow a restart while an old engine still holds its
  port, and a third spawn that may reuse a released port.
* `JediLocations` uses lines of up to `MaxChars = 2` characters of width 1 or 2, every answer
  JediHTTP's three handlers can give on them, and every subcommand. A two-byte character occurs
  before, under and after the cursor.

* PHP projects: two threads, three files on two composer roots (two files share a root, so
  the shared-root races happen), `MaxProjects = 3` so a duplicate project can be built, and
  `MaxIndexers = 2` so a second `GenerateIndex` can replace a running CLI.
* `PythonSettings` uses `Depth = 1` (every assignment of markers and hooks to two folders) and
  `MaxRequests = 2` calls per root, enough for a second call to hit or miss the memo. The run
  sets `CHECK_DEADLOCK FALSE`: it stops when the bound is reached, and a caller may stop calling.

* `YcmdClient` runs three Starts (the warm-up and one run of each kind of the main loop), so a
  later Start follows a shut-down ycmd. It has two ports, one of which another program may take,
  and `Timeout = 2` sleeps, so a wait can retry and still run out. The run sets
  `CHECK_DEADLOCK FALSE` because the benchmark process exits when it is done or when an
  exception escapes.

**Views.** The two passing supervisor runs give TLC a `VIEW` (`MC_LifecycleView`) that leaves out
history variables no guard reads (`reply`, and Padawan's `health`). States that differ only there
have the same successors and satisfy the same properties of those runs, so the view loses no
behaviour. `padawan_healthy` checks `health` and runs without a view.

**Fairness**
* Weak fairness on a thread's steps inside a call: `SendKill`, `SendKillError`, `WaitAndCleanUp`, `Restart`,
  `StartPort`, `StartSpawn`, `ShutdownStop`, `ReadHost`, `Sign` and `Send`. A Python thread that
  has entered a method keeps being scheduled, and the bounded wait always returns. Weak
  fairness does not make a request to a hung Padawan return, because that step is never
  enabled. This is how `padawan_stop_hang` blocks.
* Weak fairness on an engine's `Exit` once it has been asked to exit. Padawan's `/kill` handler
  and JediHTTP's SIGTERM handler terminate.
* No fairness on `Bind` or `Crash`, and none on the client calls that start an operation. The
  user may never send another request.
* `YcmdClient`: weak fairness on the benchmark's own steps (`ClientNext`), since it is a running
  program. None on ycmd or other programs, so `BenchmarkTerminates` holds because of the
  deadline alone.

## Not modelled, and why

* Divergences seen while modelling that no run states, because a single call reaches them and a
  unit test would do:
  * `GetProjectRootForFile` returns `None`, not the file's folder, when no marker exists.
  * Its candidate-major loop prefers a far `.ycm_extra_conf.py` to a near `__init__.py`, where
    spec 4.3 walks nearest first. `ProjectRootIsPriorityRoot` states what the code does.
  * `_FindComposerFolder` never tests the file's own folder for `composer.json`.
  * A `PythonSettings` hook that is missing or returns nothing gives the defaults and a log
    line, not the configuration error of spec 4.3. The tests expect the defaults.
  * The first extra conf `JediCompleter` stores serves every later file, including files of
    other projects.
  * A second `GenerateIndex` on a project overwrites the handle of a padawan CLI that is still
    running. The first CLI is no longer tracked, and `GetProgress` never reports it. Two
    sequential calls reach this; `PHPProjects` models the steps.
  * After the one-time "no extra conf" warning, every parse of a file with no extra conf
    raises `No PythonSettings in .ycm_extra_conf.py` (`JediExtraConf` reaches it in two
    calls).
* The global extra conf, extra-conf whitelisting, and hooks whose result depends on
  `client_data` are not modelled. Each hook behaves the same on every call.

* Completion data (`_GetExtraData`, `ComputeCandidatesInner`), `DebugInfo` and PHPCompleter's
  completion conversion reshape data with no control of interest. `_GetExtraData` also drops a
  column of 0, since 0 is falsy (one unit test would show it).
* A Padawan `ServerIsHealthy` sent to a hung engine also blocks its request thread forever. The
  model has that step, but no run states it, because `padawan_stop_hang` already shows the
  missing timeout.
* `DebugInfo`, JediCompleter's `ServerIsHealthy` and the missing-binary error paths do not
  change the state the properties are about.
* HMAC-SHA256 is idealised: a signature verifies if and only if the secrets are equal. The
  `bytes` type checks of the HMAC helpers are left out, because every caller passes bytes.
* In the supervisor modules, `GetUnusedLocalhostPort`'s race with processes outside ycmd is not
  modelled; only ports of the completer's own engines are taken. `YcmdClient` models it
  (`TakePort`).
* Two behaviours of `startup.py` are modelled but not stated by a run:
  * When `_WaitUntilReady` raises, Start does not terminate the ycmd it spawned, which keeps
    running after the benchmark exits.
  * A `ReadTimeout` escapes up to 30 s after the 10 s deadline, instead of the startup
    `RuntimeError`. `elapsed` does not count time past the deadline.
* `RemoveBytecode`, argument parsing and the timing arithmetic of the benchmark are I/O and
  reporting.
* File-system I/O, logging and JSON encoding are left out.

## Plan for the next modules

1. `RequestWrap`: its lazy, memoised column conversions.
2. `TwoPadawanServers`: two completers sharing the temp directory. The stale `_padawan_stderr`
   deletes the other's log.
3. `PadawanSupervisor` refining `EngineLifecycle`. It cannot today, because of the orphan
   (`padawan_orphan`).
