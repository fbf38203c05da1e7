------------------------------ MODULE DiffParser ------------------------------
(***************************************************************************)
(* parse_diff() of kenjutsu/diff/parser.py reading what git diff writes,   *)
(* line by line.  git is external: it knows the line that it is at in the  *)
(* old and in the new file, and writes file headers, hunk headers with     *)
(* their counts, and the lines of the hunks.  What it means is kept in     *)
(* history variables, and the parser's result is compared with it.         *)
(***************************************************************************)
EXTENDS Naturals, Sequences, FiniteSets, SequencesExt

CONSTANTS MaxFiles, \* bound: files of a diff
          MaxLines, \* bound: lines in the hunks of a diff
          MaxCount, \* bound: old or new lines of a hunk
          MaxGap,   \* bound: unchanged lines between hunks
          MaxCutLines \* bound: lines in the hunks of a diff of which a line is cut

ParserAssumption == {MaxFiles, MaxLines, MaxCount, MaxGap, MaxCutLines} \subseteq Nat

VARIABLES files,   \* the blocks read so far, the last one still growing
          cursor,  \* old_lineno and new_lineno of _parse_hunks()
          git,     \* lines git has passed in both files, and has left in the hunk
          changes, \* history: what happened to each file
          written, \* history: the lines git wrote for each file, truly numbered
          cut      \* history: the file a line of which splitlines() cut, or 0

vars == <<files, cursor, git, changes, written, cut>>

\* A path as the parser has it: its pieces between each " b/" in it, and what is
\* around it: nothing, the tab that git writes after a name with a space, quotes
\* (a name with a byte that is not ASCII), or quotes with the prefix inside.
Paths == [pieces: Seq({"dir", "path", "renamed"}),
          around: {"", "tab", "quotes", "quotes a/", "quotes b/"}]
NoPath == [pieces |-> <<>>, around |-> "none"]

\* A line number of 0 is None: a line that is not in that file.
HunkLine == [type: {"add", "delete", "context"}, old: Nat, new: Nat]
Hunk == [old_start: Nat, old_count: Nat, new_start: Nat, new_count: Nat, lines: Seq(HunkLine)]

\* A block and the loop that reads its next line: the header's, in no hunk yet, in
\* a hunk, or none.
Block == [old: Paths \cup {NoPath}, new: Paths \cup {NoPath},
          from: Paths \cup {NoPath}, to: Paths \cup {NoPath},
          mode: {"header", "hunks", "hunk", "binary"}, hunks: Seq(Hunk)]

\* What happened to a file, and what its name is like: one with " b/" in it is
\* "split", one that git quotes is "quoted".  Of a binary file git writes the same
\* lines whether it was modified, added or deleted; of an empty one that was added
\* or deleted, as many as of a new mode.
WithHunks == {"modified", "added", "deleted", "moved"}
Renames == {"renamed", "moved", "binary_moved"}
Kinds == WithHunks \cup Renames \cup
         {"binary", "empty"}
Changes == [kind: Kinds, name: {"plain", "split", "quoted"}]

TypeOK ==
    /\ files \in Seq(Block)
    /\ cursor \in [old: Nat, new: Nat]
    /\ git \in [old: Nat, new: Nat, oldLeft: 0 .. MaxCount, newLeft: 0 .. MaxCount]
    /\ changes \in Seq(Changes)
    /\ written \in Seq(Seq(HunkLine)) /\ Len(written) = Len(changes)
    /\ cut \in Nat

Init ==
    /\ files = <<>> /\ changes = <<>> /\ written = <<>> /\ cut = 0
    /\ cursor = [old |-> 0, new |-> 0]
    /\ git = [old |-> 0, new |-> 0, oldLeft |-> 0, newLeft |-> 0]

-----------------------------------------------------------------------------
\* Mutated forms of the operators below, for the sensitivity checks.
Renamed_Ignored(b) == b
Moved_Together(kind) ==
    IF kind = "marker" THEN cursor ELSE [old |-> cursor.old + 1, new |-> cursor.new + 1]

-----------------------------------------------------------------------------
\* What git writes before the hunks of a file; the lines that the parser does not
\* look at (index, modes, similarity) are left out, and NoPath is a path that a
\* line does not have.
Line(kind, old, new) == [kind |-> kind, old |-> old, new |-> new]

Pieces(change, last) == IF change.name = "split" THEN <<"dir", last>> ELSE <<last>>
Before(change) == Pieces(change, "path")
After(change) == Pieces(change, IF change.kind \in Renames THEN "renamed" ELSE "path")
Path(pieces, around) == [pieces |-> pieces, around |-> around]

\* The path before and after the change, in a line that puts `quotes` around a name
\* that is quoted and `space` around one with a space in it.
Around(change, quotes, space) ==
    IF change.name = "quoted" THEN quotes ELSE IF change.name = "split" THEN space ELSE ""
Old(change, quotes, space) == Path(Before(change), Around(change, quotes, space))
New(change, quotes, space) == Path(After(change), Around(change, quotes, space))

GitHeader(change) ==
    LET first == Line("diff", Old(change, "quotes a/", ""), New(change, "quotes b/", ""))
        from == Line("from", Old(change, "quotes", ""), NoPath)
        to == Line("to", NoPath, New(change, "quotes", ""))
        minus == Line("---", IF change.kind = "added" THEN NoPath
                             ELSE Old(change, "quotes a/", "tab"), NoPath)
        plus == Line("+++", NoPath, IF change.kind = "deleted" THEN NoPath
                                    ELSE New(change, "quotes b/", "tab"))
        binary == Line("Binary files", NoPath, NoPath)
    IN  IF change.kind \in {"modified", "added", "deleted"} THEN <<first, minus, plus>>
        ELSE IF change.kind = "renamed" THEN <<first, from, to>>
        ELSE IF change.kind = "moved" THEN <<first, from, to, minus, plus>>
        ELSE IF change.kind = "binary_moved" THEN <<first, from, to, binary>>
        ELSE IF change.kind = "empty" THEN <<first>>
        ELSE <<first, binary>>

\* The loop of parse_diff() over the lines of a block, one line of it.
NewBlock == [old |-> NoPath, new |-> NoPath, from |-> NoPath, to |-> NoPath,
             mode |-> "header", hunks |-> <<>>]

\* "^diff --git a/(.+) b/(.+)$" is greedy: the new path is what follows the last
\* " b/" of the line, the old path all before it.  Quoted paths do not match.
Fallback(b, line) ==
    LET pieces == line.old.pieces \o line.new.pieces
    IN  IF line.old.around = "" /\ line.new.around = ""
        THEN [b EXCEPT !.old = Path(Front(pieces), ""), !.new = Path(<<Last(pieces)>>, "")]
        ELSE b

ReadHeader(b, line) ==
    IF line.kind = "diff" THEN Fallback(b, line)
    ELSE [b EXCEPT !.old = IF line.kind = "---" THEN line.old ELSE @,
                   !.new = IF line.kind = "+++" THEN line.new ELSE @,
                   !.from = IF line.kind = "from" THEN line.old ELSE @,
                   !.to = IF line.kind = "to" THEN line.new ELSE @,
                   !.mode = IF line.kind = "+++" THEN "hunks"
                            ELSE IF line.kind = "Binary files" THEN "binary" ELSE @]

\* Rename metadata overrides the paths of the other lines.
Renamed(b) ==
    [b EXCEPT !.old = IF b.from = NoPath THEN @ ELSE b.from,
              !.new = IF b.to = NoPath THEN @ ELSE b.to]

\* `block[n]` is the block after n of its lines.
ReadBlock(lines) ==
    LET block[n \in 0 .. Len(lines)] ==
          IF n = 0 THEN NewBlock ELSE ReadHeader(block[n - 1], lines[n])
    IN  Renamed(block[Len(lines)])

\* git has no lines left of the current hunk, and of a file with hunks has
\* written one.
Between ==
    /\ git.oldLeft = 0 /\ git.newLeft = 0
    /\ changes # <<>> /\ Last(changes).kind \in WithHunks => Last(written) # <<>>

\* git begins the diff of a file, and the parser reads its header.
ReadFile ==
    /\ Between
    /\ Len(changes) < MaxFiles
    /\ \E change \in Changes :
         /\ files' = Append(files, ReadBlock(GitHeader(change)))
         /\ changes' = Append(changes, change)
    /\ written' = Append(written, <<>>)
    /\ git' = [old |-> 0, new |-> 0, oldLeft |-> 0, newLeft |-> 0]
    /\ UNCHANGED <<cursor, cut>>

\* A hunk of no lines on one side is at the line before it.
StartOf(passed, count) == IF count = 0 THEN passed ELSE passed + 1

\* The counts of a hunk: an added file has no old lines, a deleted file no new.
Counts == {c \in [old: 0 .. MaxCount, new: 0 .. MaxCount] :
             /\ c.old + c.new > 0
             /\ Last(changes).kind = "added" => c.old = 0
             /\ Last(changes).kind = "deleted" => c.new = 0}

\* "@@ -s,c +s,c @@": _parse_hunks() opens a hunk and sets its counters to the
\* starts; a block whose header is not read to its end has no hunks.
Opens(start, count) ==
    IF Last(files).mode \in {"hunks", "hunk"}
    THEN /\ cursor' = start
         /\ files' = [files EXCEPT
              ![Len(files)].mode = "hunk",
              ![Len(files)].hunks = Append(@, [old_start |-> start.old, old_count |-> count.old,
                                               new_start |-> start.new, new_count |-> count.new,
                                               lines |-> <<>>])]
    ELSE UNCHANGED <<files, cursor>>

\* git writes the header of a hunk.
ReadHunkHeader ==
    /\ changes # <<>> /\ Last(changes).kind \in WithHunks
    /\ git.oldLeft = 0 /\ git.newLeft = 0
    /\ Last(changes).kind \in {"added", "deleted"} => Last(written) = <<>>
    /\ \E gap \in IF Last(changes).kind \in {"added", "deleted"} THEN {0} ELSE 0 .. MaxGap, c \in Counts :
         /\ Len(FlattenSeq(written)) + c.old + c.new <= IF cut = 0 THEN MaxLines ELSE MaxCutLines
         /\ git' = [old |-> git.old + gap, new |-> git.new + gap,
                    oldLeft |-> c.old, newLeft |-> c.new]
         /\ Opens([old |-> StartOf(git.old + gap, c.old), new |-> StartOf(git.new + gap, c.new)], c)
    /\ UNCHANGED <<changes, written, cut>>

\* What _parse_hunks() makes of a line: nothing of "\ No newline at end of file"
\* and of a line it does not know.
Parsed(kind) ==
    IF kind = "marker" THEN <<>>
    ELSE <<[type |-> kind,
            old |-> IF kind = "add" THEN 0 ELSE cursor.old,
            new |-> IF kind = "delete" THEN 0 ELSE cursor.new]>>

\* The counters after a line.
Moved(kind) ==
    IF kind = "marker" THEN cursor
    ELSE [old |-> IF kind = "add" THEN cursor.old ELSE cursor.old + 1,
          new |-> IF kind = "delete" THEN cursor.new ELSE cursor.new + 1]

InHunk == files # <<>> /\ Last(files).mode = "hunk"

\* The lines of a hunk are read while one is open, and passed over otherwise.
Reads(kind) ==
    LET f == Len(files)
        h == Len(files[f].hunks)
    IN  IF InHunk
        THEN /\ files' = [files EXCEPT ![f].hunks[h].lines = @ \o Parsed(kind)]
             /\ cursor' = Moved(kind)
        ELSE UNCHANGED <<files, cursor>>

\* A line of a hunk: git passes it in the files that have it.
ReadLine ==
    \E kind \in {"add", "delete", "context"} :
        LET old == IF kind = "add" THEN 0 ELSE 1
            new == IF kind = "delete" THEN 0 ELSE 1
        IN  /\ git.oldLeft >= old /\ git.newLeft >= new
            /\ git' = [old |-> git.old + old, new |-> git.new + new,
                       oldLeft |-> git.oldLeft - old, newLeft |-> git.newLeft - new]
            /\ written' = [written EXCEPT ![Len(written)] = Append(@,
                  [type |-> kind, old |-> old * (git.old + 1), new |-> new * (git.new + 1)])]
            /\ Reads(kind)
            /\ UNCHANGED <<changes, cut>>

\* "\ No newline at end of file" after the last line of a file.
ReadMarker ==
    /\ written # <<>> /\ Last(written) # <<>>
    /\ Reads("marker")
    /\ UNCHANGED <<git, changes, written, cut>>

\* splitlines() cuts at form feeds and other separators that git does not take
\* for the end of a line, and the rest of the line is read as a line of its own:
\* as a line of the hunk (an empty rest is a context line), as the header of a
\* hunk, as that of a file of any name, or, when it only begins with "diff --git",
\* as the end of the hunk.  One line of a diff is cut.
ReadRest ==
    /\ InHunk /\ cut = 0
    /\ Len(FlattenSeq(written)) + git.oldLeft + git.newLeft <= MaxCutLines
    /\ \/ \E kind \in {"add", "delete", "context", "marker"} : Reads(kind)
       \/ Opens([old |-> 1, new |-> 1], [old |-> 1, new |-> 1])
       \/ \E change \in {c \in Changes : c.kind = "modified"} :
            /\ files' = Append(files, ReadBlock(<<GitHeader(change)[1]>>))
            /\ UNCHANGED cursor
       \/ /\ files' = [files EXCEPT ![Len(files)].mode = "hunks"]
          /\ UNCHANGED cursor
    /\ cut' = Len(files)
    /\ UNCHANGED <<git, changes, written>>

Next == ReadFile \/ ReadHunkHeader \/ ReadLine \/ ReadMarker \/ ReadRest

Spec == Init /\ [][Next]_vars

-----------------------------------------------------------------------------
\* The properties of PatchFile and Hunk.
IsNewFile(b) == b.old = NoPath /\ b.new # NoPath
IsDeletedFile(b) == b.old # NoPath /\ b.new = NoPath
IsRename(b) == b.old # NoPath /\ b.new # NoPath /\ b.old # b.new
CanonicalPath(b) == IF b.new # NoPath THEN b.new ELSE b.old
IsDeletionOnly(h) == \A i \in DOMAIN h.lines : h.lines[i].type # "add"
LastOfRange(h) == h.new_start + (IF h.new_count = 0 THEN 0 ELSE h.new_count - 1)

\* _apply_deletion_omission(): of each hunk and of each file one or none is kept.
KeptHunks(b) ==
    FlattenSeq([h \in DOMAIN b.hunks |->
                  IF IsDeletionOnly(b.hunks[h]) THEN <<>> ELSE <<b.hunks[h]>>])
KeptFiles ==
    FlattenSeq([f \in DOMAIN files |-> IF IsDeletedFile(files[f]) THEN <<>> ELSE <<files[f]>>])

LinesOf(hunks) == FlattenSeq([h \in DOMAIN hunks |-> hunks[h].lines])

-----------------------------------------------------------------------------
\* The lines of a file are the lines git wrote, with their true numbers in both
\* files, across hunks, files, counts of 0 and markers.
TrueLines(f) == LinesOf(files[f].hunks) = written[f]

\* All lines of the diff are; not so when splitlines() cuts one.
LinesTrue == Len(files) = Len(written) /\ \A f \in DOMAIN files : TrueLines(f)
NumbersTrue == cut = 0 => LinesTrue

\* A hunk that is read to its end has as many lines as its header says, and
\* new_line_range is the range of their numbers in the new file.
RangesTrue ==
    \A f \in DOMAIN files : \A h \in DOMAIN files[f].hunks :
        LET hunk == files[f].hunks[h]
            News == {hunk.lines[i].new : i \in DOMAIN hunk.lines} \ {0}
            closed == \/ f < Len(files) \/ h < Len(files[f].hunks)
                      \/ git.oldLeft + git.newLeft = 0
        IN  cut = 0 /\ closed =>
              /\ hunk.new_count > 0 => News = hunk.new_start .. LastOfRange(hunk)
              /\ hunk.old_count = Cardinality({i \in DOMAIN hunk.lines : hunk.lines[i].old # 0})

\* The diff says of what kind a file is: it has "---" and "+++" lines or rename
\* lines (not for binary and empty files and new modes), and these do not quote
\* one path with two prefixes.
Told(change) ==
    /\ change.kind \in WithHunks \cup Renames
    /\ change.kind = "modified" => change.name # "quoted"

\* A new, deleted or renamed file is recognised where the diff tells it, and where
\* it does not, no file is taken for a new or a deleted one.
TrueKind(b, change) ==
    /\ Told(change) =>
         /\ IsNewFile(b) <=> change.kind = "added"
         /\ IsDeletedFile(b) <=> change.kind = "deleted"
         /\ IsRename(b) <=> change.kind \in Renames
    /\ IsNewFile(b) => change.kind = "added"
    /\ IsDeletedFile(b) => change.kind = "deleted"

\* The path of a file with a plain name is its path after the change.
TruePath(b, change) ==
    change.name = "plain" => CanonicalPath(b) = Path(After(change), "")

\* Every file has its kind and its path, unless a line is cut.
KindsTrue ==
    cut = 0 => \A f \in DOMAIN files :
                 TrueKind(files[f], changes[f]) /\ TruePath(files[f], changes[f])

Additions(lines) ==
    FlattenSeq([i \in DOMAIN lines |-> IF lines[i].type = "add" THEN <<lines[i]>> ELSE <<>>])
KeptLines == FlattenSeq([f \in DOMAIN KeptFiles |-> LinesOf(KeptHunks(KeptFiles[f]))])

\* Leaving out deletions (include_deletions=False) loses no line that was added.
NoAdditionLost == cut = 0 => Additions(KeptLines) = Additions(FlattenSeq(written))

\* A line that is cut spoils nothing before it: the files before its own have
\* their lines, and these and its own their kinds and paths, whatever its rest is
\* read as and whatever comes after it.
CutContained ==
    cut # 0 => /\ \A f \in 1 .. cut - 1 : TrueLines(f)
               /\ \A f \in 1 .. cut :
                    TrueKind(files[f], changes[f]) /\ TruePath(files[f], changes[f])

\* What a caller of parse_diff() gets is true to what git wrote: everywhere, if no
\* line is cut, and else before the cut.
DiffTrue == NumbersTrue /\ RangesTrue /\ KindsTrue /\ NoAdditionLost /\ CutContained
==============================================================================
