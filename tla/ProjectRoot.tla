----------------------------- MODULE ProjectRoot -----------------------------
(***************************************************************************)
(* The two project-root searches of the code, as operators over one chain  *)
(* of folders: folder k is the ancestor of depth k of the file's folder,   *)
(* 0 is the filesystem root and dir, the depth of the file's own folder,   *)
(* is the nearest.  A filesystem is a function from folders to the marker  *)
(* files they contain.                                                     *)
(*  - PythonSettings.GetProjectRootForFile                                 *)
(*    (src/ycmd/completers/python/settings.py): for each candidate in      *)
(*    priority order, the nearest folder containing it; None if there is   *)
(*    none, or no file name.                                               *)
(*  - PHPProjectContainer._FindComposerFolder                              *)
(*    (src/ycmd/completers/php/php_project_container.py): the first folder *)
(*    above the file's folder containing composer.json, else the file's    *)
(*    own folder.                                                          *)
(***************************************************************************)
EXTENDS Naturals, Sequences

CONSTANTS
  Depth,   \* depth of the deepest folder a file may be in
  None     \* Python's None

Folders == 0..Depth

\* PROJECT_ROOT_CANDIDATES, from highest to lowest priority
PROJECT_ROOT_CANDIDATES ==
  <<".ycm_extra_conf.py", "setup.py", "__main__.py", "__init__.py">>

Candidates == {PROJECT_ROOT_CANDIDATES[c] : c \in 1..Len(PROJECT_ROOT_CANDIDATES)}

\* utils.PathsToAllParentFolders: the file's folder first, then each parent
PathsToAllParentFolders(dir) == [i \in 1..dir + 1 |-> dir + 1 - i]

\* Mutant: the two loops swapped, folders outermost.
GetProjectRootFolderFirst(dir, markers) ==
  IF dir = None THEN None
  ELSE LET parents == PathsToAllParentFolders(dir)
           RECURSIVE Scan(_, _)
           Scan(i, c) ==
             IF i > Len(parents) THEN None
             ELSE IF c > Len(PROJECT_ROOT_CANDIDATES) THEN Scan(i + 1, 1)
             ELSE IF PROJECT_ROOT_CANDIDATES[c] \in markers[parents[i]]
                  THEN parents[i]
             ELSE Scan(i, c + 1)
       IN Scan(1, 1)

(* GetProjectRootForFile( filename ): dir = None stands for a missing file *)
(* name.  The outer loop runs over the candidates, the inner one over the  *)
(* folders, nearest first.                                                 *)
GetProjectRootForFile(dir, markers) ==
  IF dir = None THEN None
  ELSE LET parents == PathsToAllParentFolders(dir)
           RECURSIVE Scan(_, _)
           Scan(c, i) ==
             IF c > Len(PROJECT_ROOT_CANDIDATES) THEN None
             ELSE IF i > Len(parents) THEN Scan(c + 1, 1)
             ELSE IF PROJECT_ROOT_CANDIDATES[c] \in markers[parents[i]]
                  THEN parents[i]
             ELSE Scan(c, i + 1)
       IN Scan(1, 1)

(* _FindComposerFolder( filepath ): os.path.split strips the last folder   *)
(* before composer.json is looked for, so the search starts at the parent  *)
(* of the file's folder; splitting the root yields an empty folder name    *)
(* and the file's folder is returned.                                      *)
FindComposerFolder(dir, composer) ==
  LET RECURSIVE Walk(_)
      Walk(path) ==
        IF path = 0 THEN dir
        ELSE IF composer[path - 1] THEN path - 1
        ELSE Walk(path - 1)
  IN Walk(dir)

(* extra_conf_store.ModuleForSourceFile: the extra conf of the nearest    *)
(* folder at or above dir that has one (confs is the set of folders with a *)
(* .ycm_extra_conf.py), None if there is none.                             *)
ModuleForSourceFile(dir, confs) ==
  LET above == {d \in confs : d <= dir}
  IN IF above = {} THEN None ELSE CHOOSE d \in above : \A e \in above : e <= d

=============================================================================
