------------------------------- MODULE LogTail -------------------------------
(***************************************************************************)
(* The log viewer's content path (celery_root/components/web/views/logs.py):*)
(* the logs view clamps the requested line count and normalises the       *)
(* severity, _read_tail reads the selected file backwards in chunks until  *)
(* it holds more newlines than requested lines or has read _MAX_BYTES, and *)
(* _filter_by_severity keeps the lines of records of the chosen severity.  *)
(*                                                                         *)
(* A file is a sequence of lines, each a severity tag (the level marker     *)
(* _detect_severity finds in it, or NoLevel for a traceback or continuation *)
(* line) and a byte length without its newline.  The logging handler      *)
(* writes whole lines, each ended by a newline.  Positions are byte        *)
(* offsets; a line cut by the read keeps only its end and loses its level   *)
(* marker, which the log format puts at the start of the line.             *)
(*                                                                         *)
(* Before reading, the view lists the log directory, groups its files by   *)
(* the component their name encodes, and selects a component and a file   *)
(* from the "component" and "file" parameters.  A file name is a record:   *)
(* the component stem (DefaultStem for the prefix-only name) and whether   *)
(* it is a rotated backup.  Only the file being written (Active) has its   *)
(* content modelled; reading any other file reads an empty file.           *)
(***************************************************************************)
EXTENDS Naturals, Sequences, FiniteSets, SequencesExt

CONSTANTS
  Severities,   \* _SEVERITY_OPTIONS names the model uses
  NoLevel,      \* _detect_severity found no marker
  LineLens,     \* byte lengths a line may have
  Chunk,        \* _CHUNK_SIZE
  MaxBytes,     \* _MAX_BYTES
  MaxLines,     \* _MAX_LINES
  DefaultLines, \* _DEFAULT_LINES
  BadRequest,   \* a "lines" parameter int() rejects
  Requests,     \* values of the "lines" parameter
  SevParams,    \* values of the "severity" parameter
  MaxFileLines, \* bound on the lines written
  DefaultStem,  \* stem of the prefix-only name "<prefix>.log"
  CompOrder,    \* the component names in Python's sorted() order
  Dirs,         \* log directories: sets of [name, mtime], mtimes distinct
  Active,       \* the name of the file the handler writes
  FileParams,   \* values of the "file" parameter (NoName: absent)
  CompParams,   \* values of the "component" parameter (NoComp: absent)
  NoName, NoComp, None

Line == [tag : Severities \cup {NoLevel}, len : LineLens]

VARIABLES
  dir,    \* the log directory's files
  file,   \* the content of the file being written
  view    \* the latest response: the file it read and what it returned

vars == <<dir, file, view>>

(* Byte size of a sequence of lines, each with its newline. *)
Size(f) == FoldLeft(LAMBDA acc, ln : acc + ln.len + 1, 0, f)
(* Offsets of the first byte and of the newline of line i. *)
Start(f, i) == Size(SubSeq(f, 1, i - 1))
End(f, i) == Size(SubSeq(f, 1, i)) - 1
(* data.count(b"\n") for data = the bytes from offset c to the end. *)
NewlinesFrom(f, c) == Cardinality({i \in 1..Len(f) : End(f, i) >= c})

(* The read loop of _read_tail with "< lines" for "<= lines". *)
RECURSIVE ReadLoopLt(_, _, _, _)
ReadLoopLt(f, lines, cursor, total) ==
  IF cursor > 0 /\ NewlinesFrom(f, cursor) < lines /\ total < MaxBytes
  THEN LET rs == IF Chunk < cursor THEN Chunk ELSE cursor
       IN ReadLoopLt(f, lines, cursor - rs, total + rs)
  ELSE cursor
(* The read loop of _read_tail: from the end of the file, read chunks of   *)
(* _CHUNK_SIZE bytes (the last one shorter) while the data holds at most   *)
(* "lines" newlines and fewer than _MAX_BYTES bytes were read; the result  *)
(* is the offset the data starts at.                                       *)
RECURSIVE ReadLoop(_, _, _, _)
ReadLoop(f, lines, cursor, total) ==
  IF cursor > 0 /\ NewlinesFrom(f, cursor) <= lines /\ total < MaxBytes
  THEN LET rs == IF Chunk < cursor THEN Chunk ELSE cursor
       IN ReadLoop(f, lines, cursor - rs, total + rs)
  ELSE cursor

(* text.splitlines() of the bytes from offset c: one piece per line that   *)
(* ends at or after c; the first is a fragment when c is inside it, and an *)
(* empty string when c is its newline.                                     *)
Pieces(f, c) ==
  LET first == Len(f) - NewlinesFrom(f, c) + 1
  IN [j \in 1..NewlinesFrom(f, c) |->
        LET i == first + j - 1
        IN [i |-> i, whole |-> Start(f, i) >= c, empty |-> End(f, i) = c]]

LastN(s, k) == IF Len(s) <= k THEN s ELSE SubSeq(s, Len(s) - k + 1, Len(s))

(* _read_tail(path, lines): "" for lines <= 0; otherwise lines is capped at *)
(* _MAX_LINES, the loop runs, and the last "lines" pieces are returned.    *)
ReadTail(f, lines) ==
  IF lines <= 0 THEN <<>>
  ELSE LET k == IF lines < MaxLines THEN lines ELSE MaxLines
       IN LastN(Pieces(f, ReadLoop(f, k, Size(f), 0)), k)

(* _detect_severity of a piece: a fragment has lost its level marker. *)
Detect(f, p) == IF p.whole THEN f[p.i].tag ELSE NoLevel

(* `not content`: the joined pieces are "" when there is none or only an    *)
(* empty one.                                                              *)
NoContent(ps) == ps = <<>> \/ (Len(ps) = 1 /\ ps[1].empty)

(* _filter_by_severity remembering a marker only on lines it keeps. *)
FilterKeepLastOnMatch(f, ps, minimum) ==
  IF NoContent(ps) \/ minimum = "" THEN ps
  ELSE LET step(acc, p) ==
             LET d == Detect(f, p)
             IN IF d # NoLevel
                THEN IF d = minimum THEN [kept |-> Append(acc.kept, p), last |-> d]
                     ELSE acc
                ELSE IF acc.last = minimum THEN [acc EXCEPT !.kept = Append(@, p)]
                     ELSE acc
       IN FoldLeft(step, [kept |-> <<>>, last |-> NoLevel], ps).kept
(* _filter_by_severity(content, minimum): unchanged when there is no       *)
(* content or no severity; otherwise a line with a marker sets last_level  *)
(* and is kept when its marker is the chosen one, and a line without one   *)
(* is kept when last_level is the chosen one.                              *)
FilterBySeverity(f, ps, minimum) ==
  IF NoContent(ps) \/ minimum = "" THEN ps
  ELSE LET step(acc, p) ==
             LET d == Detect(f, p)
             IN IF d # NoLevel
                THEN [kept |-> IF d = minimum THEN Append(acc.kept, p) ELSE acc.kept,
                      last |-> d]
                ELSE IF acc.last = minimum THEN [acc EXCEPT !.kept = Append(@, p)]
                     ELSE acc
       IN FoldLeft(step, [kept |-> <<>>, last |-> NoLevel], ps).kept

(* _normalize_severity: a known option name, otherwise "". *)
NormalizeSeverity(v) == IF v \in Severities THEN v ELSE ""

(* The view's line count without the _MAX_LINES clamp. *)
ClampLinesNoMax(req) ==
  LET n == IF req = BadRequest THEN DefaultLines ELSE req
  IN IF n < 1 THEN 1 ELSE n
(* The view's line count: the default when int() fails, then clamped to    *)
(* 1.._MAX_LINES.                                                          *)
ClampLines(req) ==
  LET n == IF req = BadRequest THEN DefaultLines ELSE req
  IN IF n < 1 THEN 1 ELSE IF n > MaxLines THEN MaxLines ELSE n

(* _component_from_filename: "default" for the prefix-only name, None for  *)
(* its rotated backups (they do not start with "<prefix>-"), otherwise the  *)
(* text between "<prefix>-" and the first ".log".  An absent "file"         *)
(* parameter is "", which names no component.                               *)
ComponentFromFilename(n) ==
  CASE n = NoName            -> None
    [] n.stem # DefaultStem  -> n.stem
    [] n.rot                 -> None
    [] OTHER                 -> "default"

(* _list_log_files and _group_log_files with the mtime sort ascending. *)
GroupLogFilesAsc(d) ==
  LET comps == {ComponentFromFilename(f.name) : f \in d} \ {None}
  IN [c \in comps |-> SetToSortSeq({f \in d : ComponentFromFilename(f.name) = c},
                                    LAMBDA x, y : x.mtime < y.mtime)]
(* _list_log_files and _group_log_files: the files of the directory (none  *)
(* when it is missing), each component's files newest first by mtime;      *)
(* files whose name has no component are skipped.                          *)
GroupLogFiles(d) ==
  LET comps == {ComponentFromFilename(f.name) : f \in d} \ {None}
  IN [c \in comps |-> SetToSortSeq({f \in d : ComponentFromFilename(f.name) = c},
                                    LAMBDA x, y : x.mtime > y.mtime)]

(* sorted(grouped_files.keys()). *)
SortedComponents(g) == SelectSeq(CompOrder, LAMBDA c : c \in DOMAIN g)

(* The selection of logs(): the component parameter, else the component of *)
(* the file parameter, else the first component; within it the named file, *)
(* else its newest file.  The result is <<component, file name, error>>.   *)
Select(g, fp, cp) ==
  LET comps == SortedComponents(g)
      sc0 == IF cp # NoComp THEN cp ELSE ComponentFromFilename(fp)
      sc == IF sc0 \in {NoComp, None} /\ comps # <<>> THEN comps[1] ELSE sc0
      cf == IF sc \in DOMAIN g THEN g[sc] ELSE <<>>
      named == SelectSeq(cf, LAMBDA f : f.name = fp)
      path == CASE named # <<>> -> named[1].name
                [] cf # <<>>    -> cf[1].name
                [] OTHER        -> NoName
  IN IF sc \in {NoComp, None} THEN <<sc, NoName, FALSE>>
     ELSE <<sc, path, path = NoName>>

NoView == [file |-> <<>>, lines |-> 0, sev |-> "", pieces |-> <<>>, kept |-> <<>>,
           capped |-> FALSE, read |-> 0, fp |-> NoName, cp |-> NoComp, comp |-> None,
           path |-> NoName, error |-> FALSE]

Init ==
  /\ dir \in Dirs
  /\ file = <<>>
  /\ view = NoView

(* The logging handler appends a whole line to the file. *)
Write(ln) ==
  /\ Len(file) < MaxFileLines
  /\ file' = Append(file, ln)
  /\ UNCHANGED <<dir, view>>

(* logs(request): list and group the files, select the component and file, *)
(* clamp the line count, normalise the severity, and, when a file is       *)
(* selected, read its tail and filter it.  "capped" records that the read  *)
(* stopped having read _MAX_BYTES bytes before the start of the file,      *)
(* "read" how many bytes the loop read.                                    *)
Logs(req, sevParam, fp, cp) ==
  LET s == Select(GroupLogFiles(dir), fp, cp)
      f == IF s[2] = Active THEN file ELSE <<>>
      lines == ClampLines(req)
      sev == NormalizeSeverity(sevParam)
      pieces == ReadTail(f, lines)
      c == ReadLoop(f, lines, Size(f), 0)
  IN view' = [file |-> f, lines |-> lines, sev |-> sev, pieces |-> pieces,
              kept |-> FilterBySeverity(f, pieces, sev),
              capped |-> c > 0 /\ Size(f) - c >= MaxBytes, read |-> Size(f) - c,
              fp |-> fp, cp |-> cp, comp |-> s[1], path |-> s[2], error |-> s[3]]
     /\ UNCHANGED <<dir, file>>

Next ==
  \/ \E ln \in Line : Write(ln)
  \/ \E req \in Requests, sv \in SevParams, fp \in FileParams, cp \in CompParams :
       Logs(req, sv, fp, cp)

Spec == Init /\ [][Next]_vars

-----------------------------------------------------------------------------
Piece == [i : 1..MaxFileLines, whole : BOOLEAN, empty : BOOLEAN]

(* Type invariant. *)
TypeOK ==
  /\ file \in Seq(Line) /\ Len(file) <= MaxFileLines
  /\ view.pieces \in Seq(Piece) /\ view.kept \in Seq(Piece)
  /\ view.lines \in 0..MaxLines

(* The tail is the end of the file: the pieces are consecutive lines up to *)
(* the last one, all whole but possibly the first; unless the read stopped *)
(* at _MAX_BYTES, the first is whole too and there are as many as the     *)
(* requested count allows; and the read never goes more than a chunk past *)
(* _MAX_BYTES, however long the lines are.                                 *)
TailIsLastLines ==
  LET f == view.file
      ps == view.pieces
  IN /\ view.read < MaxBytes + Chunk
     /\ \A j \in 1..Len(ps) : ps[j].i = Len(f) - Len(ps) + j
     /\ \A j \in 2..Len(ps) : ps[j].whole
     /\ ~view.capped =>
           /\ Len(ps) = IF Len(f) < view.lines THEN Len(f) ELSE view.lines
           /\ \A j \in 1..Len(ps) : ps[j].whole

(* Severity of the record line i belongs to: the marker of the nearest     *)
(* line at or above it in the file that has one.                           *)
RecordLevel(f, i) ==
  LET hs == {h \in 1..i : f[h].tag # NoLevel}
  IN IF hs = {} THEN NoLevel ELSE f[CHOOSE h \in hs : \A g \in hs : g <= h].tag

(* With a severity chosen, the filtered tail holds exactly the lines, from *)
(* the first one whose marker is visible, whose record in the file has     *)
(* that severity: a traceback line is kept with its record's header and    *)
(* dropped with it.  Empty pieces render as nothing and are ignored.        *)
FilterKeepsRecords ==
  LET f == view.file
      ps == view.pieces
      marked == {j \in 1..Len(ps) : Detect(f, ps[j]) # NoLevel}
      inTail(p) == \E j \in marked : ps[j].i <= p.i
      nonEmpty(s) == SelectSeq(s, LAMBDA p : ~p.empty)
  IN view.sev # "" =>
       nonEmpty(view.kept) =
         nonEmpty(SelectSeq(ps, LAMBDA p : inTail(p) /\ RecordLevel(f, p.i) = view.sev))

(* The file the page shows is a file of the directory whose name encodes   *)
(* the component the page shows: the file the request named when it is    *)
(* one of them, otherwise the one modified last.  And a request that names *)
(* neither a component nor a file of one is shown a file whenever the     *)
(* directory holds a file of some component.                               *)
SelectionFollowsRequest ==
  LET files(c) == {f \in dir : ComponentFromFilename(f.name) = c}
      newest(c) == CHOOSE f \in files(c) : \A g \in files(c) : g.mtime <= f.mtime
  IN /\ view.path # NoName =>
          LET F == files(view.comp)
          IN view.path = IF \E f \in F : f.name = view.fp THEN view.fp
                         ELSE newest(view.comp).name
     /\ view # NoView /\ view.cp = NoComp /\ ComponentFromFilename(view.fp) = None
        /\ (\E f \in dir : ComponentFromFilename(f.name) # None)
        => view.path # NoName
=============================================================================
