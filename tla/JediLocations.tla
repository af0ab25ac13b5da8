---------------------------- MODULE JediLocations ----------------------------
(***************************************************************************)
(* Column numbers on the way from a JediCompleter subcommand to JediHTTP   *)
(* and back (src/ycmd/completers/python/jedi_completer.py).                *)
(*                                                                         *)
(* ycmd's column_num is the 1-based byte offset of the cursor in the UTF-8 *)
(* encoded line (spec section 2); Jedi counts 0-based characters.          *)
(* _TranslateRequestForJediHTTP sends column_num - 1 as 'col', and the     *)
(* response builders return Jedi's 'column' + 1 as column_num.             *)
(*                                                                         *)
(* The text is one line, given as the UTF-8 length of each character (1    *)
(* for ASCII, 2 for a character such as e-acute).  Every character is a    *)
(* one-character name, and jedi[h][c] is the set of characters where       *)
(* JediHTTP's handler h finds the definitions (or usages) of the name at   *)
(* character c.  Init fixes the line, the engine's answers, the cursor and *)
(* the subcommand with its arguments; nothing changes afterwards.  A       *)
(* raised exception is the record [error |-> message]; every other answer  *)
(* is a record too, so that answers can be compared.                       *)
(***************************************************************************)
EXTENDS Naturals, Sequences, SequencesExt

CONSTANTS
  MaxChars,  \* bound on the length of the line, in characters
  None       \* Python's None

\* UTF-8 lengths of a character: ASCII, or a two-byte one
Widths == {1, 2}

\* the JediHTTP handlers the subcommands use
Handlers == {"/gotodefinition", "/gotoassignment", "/usages"}

\* GetSubcommandsMap, less StopServer and RestartServer (JediSupervisor)
Subcommands ==
  {"GoToDefinition", "GoToDeclaration", "GoTo", "GetDoc", "GoToReferences",
   "RefactorRename"}

VARIABLES
  line,     \* UTF-8 length of each character of the current line
  jedi,     \* JediHTTP: handler -> character -> characters it answers with
  cursor,   \* request_data[ 'column_num' ]: 1-based byte offset
  command,  \* the subcommand requested
  args      \* its arguments

vars == <<line, jedi, cursor, command, args>>

\* the 0-based characters of the line
Chars == 0..Len(line) - 1

\* 1-based byte offset of the 0-based character c (c = Len(line): the end)
ByteColumn(c) == 1 + FoldLeft(+, 0, SubSeq(line, 1, c))

Raised(r) == "error" \in DOMAIN r

\* _TranslateRequestForJediHTTP lines 219-235: Jedi's columns start at 0.
TranslateRequestForJediHTTP(column_num) ==
  [line |-> 1, col |-> column_num - 1, source_path |-> "file"]

(* JediHTTP: the definitions of the name at character col, in source order *)
(* (each one a one-character name whose docstring names it); a col at the  *)
(* end of the line has none, and Jedi rejects a col past the end, which    *)
(* JediHTTP answers with an HTTP error that raise_for_status raises.       *)
JediReply(handler, request) ==
  LET Def(d) == [module_path |-> "file", line |-> 1, column |-> d,
                 name |-> <<d>>, docstring |-> d,
                 in_builtin_module |-> FALSE, is_keyword |-> FALSE]
      found == SetToSortSeq(jedi[handler][request.col], <)
  IN CASE request.col \in Chars ->
            [definitions |-> [i \in DOMAIN found |-> Def(found[i])]]
       [] request.col = Len(line) -> [definitions |-> <<>>]
       [] OTHER -> [error |-> "500 Server Error"]

(* _GetDefinitionsList lines 420-427: any failure of the request becomes   *)
(* one RuntimeError.                                                       *)
GetDefinitionsList(handler, column_num) ==
  LET response == JediReply(handler, TranslateRequestForJediHTTP(column_num))
  IN IF Raised(response)
     THEN [error |-> "Cannot follow nothing. Put your cursor on a valid name."]
     ELSE response

(* _BuildGoToResponse lines 430-455: one definition is a location, or an   *)
(* error for a builtin; several are a list, builtins as descriptions.      *)
BuildGoToResponse(definitions) ==
  LET Loc(d) == [filepath |-> d.module_path, line_num |-> d.line,
                 column_num |-> d.column + 1]
  IN IF Len(definitions) = 1
     THEN LET d == definitions[1] IN
          IF d.in_builtin_module
          THEN IF d.is_keyword
               THEN [error |-> "Cannot get the definition of Python keywords."]
               ELSE [error |-> "Builtin modules cannot be displayed."]
          ELSE Loc(d)
     ELSE [list |-> [i \in 1..Len(definitions) |->
             IF definitions[i].in_builtin_module
             THEN [description |-> "Builtin"] ELSE Loc(definitions[i])]]

(* _GoToDefinition 298-303, _GoToDeclaration 306-311 and _GoToReferences  *)
(* 338-342: the definitions from one handler, none being an error.         *)
GoToFrom(handler, none, column_num) ==
  LET r == GetDefinitionsList(handler, column_num)
  IN CASE Raised(r) -> r
       [] r.definitions = <<>> -> [error |-> none]
       [] OTHER -> BuildGoToResponse(r.definitions)

GoToDefinition(column_num) ==
  GoToFrom("/gotodefinition", "Can't jump to definition.", column_num)

GoToDeclaration(column_num) ==
  GoToFrom("/gotoassignment", "Can't jump to declaration.", column_num)

GoToReferences(column_num) ==
  GoToFrom("/usages", "Can't find references.", column_num)

\* _GoTo lines 314-325: the definition, else the declaration
GoTo(column_num) ==
  CASE ~Raised(GoToDefinition(column_num)) -> GoToDefinition(column_num)
    [] ~Raised(GoToDeclaration(column_num)) -> GoToDeclaration(column_num)
    [] OTHER -> [error |-> "Can't jump to definition or declaration."]

(* _GetDoc lines 328-335 with _BuildDetailedInfoResponse 458-460: the     *)
(* docstrings of the definitions, joined (the join is left out).           *)
GetDoc(column_num) ==
  LET r == GetDefinitionsList("/gotodefinition", column_num)
  IN IF Raised(r) THEN [error |-> "Can't find a definition."]
     ELSE [detailed_info |-> [i \in 1..Len(r.definitions) |->
                                r.definitions[i].docstring]]

(* _BuildRange lines 345-356: the end column adds the name's length in     *)
(* characters to the start column.                                         *)
BuildRange(definition) ==
  LET Loc(c) == [line_num |-> definition.line, column_num |-> c,
                 filepath |-> definition.module_path]
  IN [start |-> Loc(definition.column + 1),
      end |-> Loc(definition.column + 1 + Len(definition.name))]

(* _RefactorRename lines 359-417: one FixIt at the cursor, with a chunk    *)
(* replacing every usage.                                                  *)
RefactorRename(column_num, arguments) ==
  LET r == GetDefinitionsList("/usages", column_num)
  IN CASE Len(arguments) # 1 ->
            [error |-> "Please specify a new name to rename it to."]
       [] Raised(r) -> r
       [] r.definitions = <<>> -> [error |-> "Can't find references."]
       [] OTHER ->
            [fixits |-> <<[location |-> [line_num |-> 1, column_num |-> column_num,
                                         filepath |-> "file"],
                           chunks |-> [i \in 1..Len(r.definitions) |->
                             [replacement_text |-> arguments[1],
                              range |-> BuildRange(r.definitions[i])]]]>>]

\* GetSubcommandsMap lines 276-295: the subcommand's answer
Response ==
  CASE command = "GoToDefinition"  -> GoToDefinition(cursor)
    [] command = "GoToDeclaration" -> GoToDeclaration(cursor)
    [] command = "GoTo"            -> GoTo(cursor)
    [] command = "GetDoc"          -> GetDoc(cursor)
    [] command = "GoToReferences"  -> GoToReferences(cursor)
    [] command = "RefactorRename"  -> RefactorRename(cursor, args)

Init ==
  /\ line \in BoundedSeq(Widths, MaxChars) \ {<<>>}
  /\ jedi \in [Handlers -> [Chars -> SUBSET Chars]]
  /\ cursor \in {ByteColumn(c) : c \in Chars}
  /\ command \in Subcommands
  /\ args \in {<<>>, <<"new_name">>}

Next == UNCHANGED vars

Spec == Init /\ [][Next]_vars

-----------------------------------------------------------------------------
\* the characters a subcommand should answer about for the name at c
Target(c) ==
  LET Found(h) == jedi[h][c] IN
  CASE command \in {"GoToDefinition", "GetDoc"} -> Found("/gotodefinition")
    [] command = "GoToDeclaration" -> Found("/gotoassignment")
    [] command = "GoTo" -> IF Found("/gotodefinition") # {}
                           THEN Found("/gotodefinition")
                           ELSE Found("/gotoassignment")
    [] command \in {"GoToReferences", "RefactorRename"} -> Found("/usages")

\* the characters whose byte column is col (none if col splits a character)
CharAt(col) == {d \in 0..Len(line) : ByteColumn(d) = col}

\* the characters an answer names: by location, or by docstring
Answers(r) ==
  CASE "column_num" \in DOMAIN r -> CharAt(r.column_num)
    [] "list" \in DOMAIN r ->
         UNION {CharAt(r.list[i].column_num) : i \in DOMAIN r.list}
    [] "detailed_info" \in DOMAIN r -> Range(r.detailed_info)
    [] "fixits" \in DOMAIN r ->
         UNION {CharAt(ch.range.start.column_num) : ch \in Range(r.fixits[1].chunks)}
    [] OTHER -> {}

\* a rename chunk's range spans exactly one name, in byte columns
SpansOneName(chunk) ==
  \E d \in Chars : /\ chunk.range.start.column_num = ByteColumn(d)
                   /\ chunk.range.end.column_num = ByteColumn(d + 1)

(* Every subcommand answers about the definitions (or usages) JediHTTP     *)
(* has for the name under the cursor, in the byte columns of the wire      *)
(* format: when there are some, the answer is no error, names exactly      *)
(* those, and a rename replaces exactly those names.  The request's column *)
(* must be converted to Jedi's character column and the answer back to     *)
(* byte columns, each exactly once (spec section 2).  About the -1 of      *)
(* _TranslateRequestForJediHTTP, the +1 of _BuildGoToResponse and          *)
(* _BuildRange, and the name length _BuildRange adds, on lines with        *)
(* multi-byte characters.                                                  *)
SubcommandsLandOnDefinitions ==
  \A c \in Chars :
    /\ cursor = ByteColumn(c)
    /\ Target(c) # {}
    /\ command = "RefactorRename" => Len(args) = 1
    => /\ ~Raised(Response)
       /\ Answers(Response) = Target(c)
       /\ "fixits" \in DOMAIN Response =>
            \A ch \in Range(Response.fixits[1].chunks) : SpansOneName(ch)

====
