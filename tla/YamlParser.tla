----------------------------- MODULE YamlParser -----------------------------
(***************************************************************************)
(* The YAML parser (yaml_parser.c): lines of keys and values, nested by    *)
(* indentation; a key without a value opens a section.  Each value is      *)
(* reported under the path of keys the parser has at that moment.  The key *)
(* of a line is the number of the line, a path a sequence of keys; keys    *)
(* hold no dot and paths fit their buffer.                                 *)
(***************************************************************************)
EXTENDS Integers, Sequences

CONSTANTS
  MaxLines,    \* bound on the lines of a document
  MaxIndent    \* bound on the indentation of a line

ASSUME YamlAssumption == {MaxLines, MaxIndent} \subseteq Nat

VARIABLES
  ymDocument,  \* history: the lines parsed so far
  ymLevel,     \* indent_level
  ymPath,      \* path
  ymReported,  \* what the callback was given for the last line, or NoPath
  ymError      \* the parser has returned YAML_ERROR_SYNTAX

ymVars == <<ymDocument, ymLevel, ymPath, ymReported, ymError>>

Line == [indent : 0..MaxIndent, kind : {"section", "value", "comment", "broken"}]
NoPath == <<>>

YmInit ==
  /\ ymDocument = <<>>
  /\ ymLevel = 0
  /\ ymPath = NoPath
  /\ ymReported = NoPath
  /\ ymError = FALSE

(* yaml_parse_string and yaml_parse_buffer, up to the first line. *)
BeginParse ==
  /\ ymDocument # <<>>
  /\ ymDocument' = <<>>
  /\ ymLevel' = 0
  /\ ymPath' = NoPath
  /\ ymReported' = NoPath
  /\ ymError' = FALSE

(* Mutant: a line further out goes up one level only. *)
UpdatedPath_OneUp(indent) ==
  IF indent < ymLevel /\ Len(ymPath) > 0
  THEN SubSeq(ymPath, 1, Len(ymPath) - 1) ELSE ymPath

(* yaml_update_path: one key is taken off for each level left, and all of  *)
(* them when there are more levels than keys after the first.              *)
UpdatedPath(indent) ==
  LET up == ymLevel - indent
  IN  IF up <= 0 THEN ymPath
      ELSE IF up < Len(ymPath) THEN SubSeq(ymPath, 1, Len(ymPath) - up)
      ELSE NoPath

(* yaml_parse_line: comments and empty lines change nothing; a line that   *)
(* has no separator ends the parse after the path was updated.             *)
ParseLine(line) ==
  LET path == UpdatedPath(line.indent)
      full == Append(path, Len(ymDocument) + 1)
  IN  /\ ~ymError
      /\ Len(ymDocument) < MaxLines
      /\ ymDocument' = Append(ymDocument, line)
      /\ ymError' = (line.kind = "broken")
      /\ ymLevel' = IF line.kind = "comment" THEN ymLevel ELSE line.indent
      /\ ymPath' = CASE line.kind = "comment" -> ymPath
                     [] line.kind = "section" -> full
                     [] OTHER -> path
      /\ ymReported' = IF line.kind = "value" THEN full ELSE NoPath

YmNext == BeginParse \/ \E line \in Line : ParseLine(line)

-----------------------------------------------------------------------------
YmTypeOK ==
  /\ ymDocument \in Seq(Line) /\ Len(ymDocument) <= MaxLines
  /\ ymLevel \in 0..MaxIndent
  /\ ymPath \in Seq(1..MaxLines)
  /\ ymReported \in Seq(1..MaxLines)
  /\ ymError \in BOOLEAN

Keys == {i \in DOMAIN ymDocument : ymDocument[i].kind \in {"section", "value"}}

(* The key after i, if there is one. *)
Following(i) == {j \in Keys : j > i /\ \A k \in Keys : k > i => j <= k}

(* Every section is followed by a key one level further in, every value by *)
(* one that is not further in, and the first key is not indented.          *)
WellIndented ==
  /\ \A i \in Keys : (\A j \in Keys : i <= j) => ymDocument[i].indent = 0
  /\ \A i \in Keys : \A j \in Following(i) :
       IF ymDocument[i].kind = "section"
       THEN ymDocument[j].indent = ymDocument[i].indent + 1
       ELSE ymDocument[j].indent <= ymDocument[i].indent

(* The keys that enclose a line: those less indented than all that follow. *)
Encloses(i, j) ==
  i < j /\ \A k \in Keys : i < k /\ k <= j => ymDocument[k].indent > ymDocument[i].indent

(* The keys that enclose a key, from the outermost, and the key itself. *)
IsPathOf(path, j) ==
  /\ \A a, b \in DOMAIN path : a < b => path[a] < path[b]
  /\ {path[a] : a \in DOMAIN path} = {i \in Keys : i = j \/ Encloses(i, j)}

(***************************************************************************)
(* In a document of which every section has contents, each value is        *)
(* reported under the keys that enclose it, whatever levels it returns     *)
(* from and wherever comments stand.  A section without contents keeps its *)
(* key in the path of what follows it.                                     *)
(***************************************************************************)
PathsAreParents ==
  ymReported # NoPath /\ WellIndented =>
    IsPathOf(ymReported, Len(ymDocument))
=============================================================================
