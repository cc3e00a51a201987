---------------------------- MODULE PatchPolicy ----------------------------
(***************************************************************************)
(* The deterministic gate of verifier.py: a patch, as attempts.py collects  *)
(* it with `git diff`, is read line by line for the files it touches        *)
(* (scan_patch) and these are held against the task's scope                 *)
(* (verify_patch_before_apply).                                            *)
(*                                                                          *)
(* A line is what the reader can tell about it: its first character, the    *)
(* form it starts with, and the names and counts it holds.  A deleted line  *)
(* whose text starts with "-- " has the form of a file header, and a line   *)
(* of a file that holds a form feed comes as two lines (str.splitlines).    *)
(* The marker "empty" is that of a line without a character, "end" that of  *)
(* git's note that a file ends without a newline.                          *)
(***************************************************************************)
EXTENDS Naturals, Sequences, FiniteSets, SequencesExt

CONSTANTS
    Names,      \* paths of the repository, as sequences of their parts
    Spaced,     \* those whose name holds " b/"
    Halves,     \* renames whose header also splits into two equal names, and that name
    Decoy,      \* a path that only occurs inside files
    Scopes,     \* what allowed_paths of a task may be, as sets of paths
    Whole,      \* "*"
    Forbidden,  \* forbidden_paths
    EditLists   \* bound: the lists of changes a patch is of

VARIABLES
    edits,                        \* what the worker changed
    patch, position,              \* its lines, and the one that is read next
    pendingHeader,                \* whether a header was not readable
    remainingOld, remainingNew,   \* the counts of a hunk
    scanned, problems,            \* the files found
    report

scanVars == <<edits, patch, position, pendingHeader, remainingOld, remainingNew,
              scanned, problems, report>>

-----------------------------------------------------------------------------
(***************************************************************************)
(* What git prints.                                                        *)
(***************************************************************************)
GitLine(marker, form, paths, counts) ==
    [marker |-> marker, form |-> form, paths |-> paths, counts |-> counts]

Text(marker, form) == GitLine(marker, form, <<Decoy>>, <<1, 1>>)

\* One line of a file, as the lines of a patch it becomes.
Context  == <<Text(" ", "text")>>
Added    == {<<Text("+", "text")>>, <<Text("+", "new")>>}
Removed  == {<<Text("-", "text")>>, <<Text("-", "old")>>}
Unended  == <<Text("end", "text")>>

\* What the rest of a broken line may look like.
Rests == {Text("m", "text"), Text("-", "old"), Text("empty", "text"), Text("end", "text"),
          GitLine("d", "git", <<Decoy, Decoy>>, <<>>),
          GitLine("@", "hunk", <<>>, <<1, 1>>), GitLine("@", "hunk", <<>>, <<>>),
          GitLine("d", "combined", <<Decoy>>, <<>>), GitLine("d", "combined", <<>>, <<>>)}

Broken == {<<Text(" ", "text"), rest>> : rest \in Rests}

Items == {Context, Unended} \cup Added \cup Removed \cup Broken

\* The note follows a line of the file.
WellNoted(hunk) ==
    \A i \in DOMAIN hunk : hunk[i] = Unended => i > 1 /\ hunk[i - 1] # Unended

Change(kind, from, to, hunk) == [kind |-> kind, from |-> from, to |-> to, hunk |-> hunk]

\* What may stand in the hunk of a change.
LinesFor(kind) ==
    CASE kind = "add"    -> Added \cup {Unended}
      [] kind = "delete" -> Removed \cup {Unended}
      [] OTHER           -> Items

\* A change of mode and a file that is renamed or empty have no hunk.
Changes ==
    {c \in [kind : {"edit", "add", "delete", "rename"}, from : Names, to : Names, hunk : Seq(Items)] :
        /\ c.kind = "rename" <=> c.from # c.to
        /\ ToSet(c.hunk) \subseteq LinesFor(c.kind)
        /\ WellNoted(c.hunk)}

Side(hunk, markers) == Cardinality({i \in DOMAIN hunk : hunk[i][1].marker \in markers})

Printed(change) ==
    <<GitLine("d", "git", <<change.from, change.to>>, <<>>), GitLine("m", "text", <<>>, <<>>)>>
      \o IF change.hunk = <<>> THEN <<>>
         ELSE <<GitLine("-", "old", IF change.kind = "add" THEN <<>> ELSE <<change.from>>, <<>>),
                GitLine("+", "new", IF change.kind = "delete" THEN <<>> ELSE <<change.to>>, <<>>),
                GitLine("@", "hunk", <<>>, <<Side(change.hunk, {" ", "-"}), Side(change.hunk, {" ", "+"})>>)>>
              \o FlattenSeq(change.hunk)

ASSUME PatchConstants ==
    /\ \A list \in EditLists : list \in Seq(Changes)
    /\ \A names \in DOMAIN Halves : names[1] # names[2]

Touched == UNION {{edits[i].from, edits[i].to} : i \in DOMAIN edits}

PatchInit ==
    /\ edits \in EditLists
    /\ patch = FlattenSeq([i \in DOMAIN edits |-> Printed(edits[i])])
    /\ position = 1 /\ pendingHeader = FALSE /\ remainingOld = 0 /\ remainingNew = 0
    /\ scanned = {} /\ problems = FALSE
    /\ report = [done |-> FALSE, accepted |-> FALSE, allowed |-> {}, own |-> FALSE]

-----------------------------------------------------------------------------
(***************************************************************************)
(* scan_patch, one turn of its loop per action.                            *)
(***************************************************************************)
ThisLine == patch[position]

Scanning == ~report.done /\ position <= Len(patch)

\* _hunk_body_step
Step(marker) ==
    CASE marker \in {" ", "empty"} -> <<1, 1>>
      [] marker = "-" -> <<1, 0>>
      [] marker = "+" -> <<0, 1>>
      [] marker = "end" -> <<0, 0>>
      [] OTHER -> <<>>

Less(n, by) == IF n > by THEN n - by ELSE 0

\* Slip: the counts of a hunk are not followed.
InBodyNever == FALSE

\* A line of the hunk, as long as one side has lines left.
InBody == (remainingOld > 0 \/ remainingNew > 0) /\ Step(ThisLine.marker) # <<>>

Moves(n) == position' = position + n /\ UNCHANGED <<edits, patch, report>>

BodyLine ==
    /\ Scanning /\ InBody
    /\ remainingOld' = Less(remainingOld, Step(ThisLine.marker)[1])
    /\ remainingNew' = Less(remainingNew, Step(ThisLine.marker)[2])
    /\ Moves(1) /\ UNCHANGED <<pendingHeader, scanned, problems>>

\* Anything else ends the hunk.  A line that only begins like a hunk's has no
\* counts.
HunkHeader ==
    /\ Scanning /\ ~InBody /\ ThisLine.form = "hunk"
    /\ IF ThisLine.counts = <<>>
       THEN problems' = TRUE /\ remainingOld' = 0 /\ remainingNew' = 0
       ELSE /\ remainingOld' = ThisLine.counts[1] /\ remainingNew' = ThisLine.counts[2]
            /\ UNCHANGED problems
    /\ Moves(1) /\ UNCHANGED <<pendingHeader, scanned>>

\* _git_header_paths: two equal halves are taken for one name, even where the
\* header is that of a rename; else two names cannot be told apart when one
\* of them holds " b/".
Halved(paths) == paths \in DOMAIN Halves

Readable(paths) == paths[1] = paths[2] \/ Halved(paths) \/ ToSet(paths) \cap Spaced = {}

\* Slip: only the new name of a rename counts.
NamesOfNew(paths) == {paths[2]}

NamesOf(paths) == IF Halved(paths) THEN {Halves[paths]} ELSE ToSet(paths)

GitHeader ==
    /\ Scanning /\ ~InBody /\ ThisLine.form = "git"
    /\ problems' = (problems \/ pendingHeader)
    /\ pendingHeader' = ~Readable(ThisLine.paths)
    /\ scanned' = IF Readable(ThisLine.paths) THEN scanned \cup NamesOf(ThisLine.paths) ELSE scanned
    /\ remainingOld' = 0 /\ remainingNew' = 0
    /\ Moves(1)

\* The header of a combined diff names one path.
CombinedHeader ==
    /\ Scanning /\ ~InBody /\ ThisLine.form = "combined"
    /\ problems' = (problems \/ pendingHeader \/ ThisLine.paths = <<>>)
    /\ scanned' = scanned \cup ToSet(ThisLine.paths)
    /\ pendingHeader' = FALSE /\ remainingOld' = 0 /\ remainingNew' = 0
    /\ Moves(1)

OldAndNew == ThisLine.form = "old" /\ position < Len(patch) /\ patch[position + 1].form = "new"

\* _decode_path_token: /dev/null is no name.
FileHeader ==
    /\ Scanning /\ ~InBody /\ OldAndNew
    /\ LET named == ToSet(ThisLine.paths) \cup ToSet(patch[position + 1].paths) IN
       scanned' = scanned \cup named /\ problems' = (problems \/ named = {})
    /\ pendingHeader' = FALSE /\ remainingOld' = 0 /\ remainingNew' = 0
    /\ Moves(2)

OtherLine ==
    /\ Scanning /\ ~InBody /\ ThisLine.form \notin {"hunk", "git", "combined"} /\ ~OldAndNew
    /\ remainingOld' = 0 /\ remainingNew' = 0
    /\ Moves(1) /\ UNCHANGED <<pendingHeader, scanned, problems>>

-----------------------------------------------------------------------------
(***************************************************************************)
(* verify_patch_before_apply.                                              *)
(***************************************************************************)
UnreadPatch == problems \/ pendingHeader \/ (patch # <<>> /\ scanned = {})

\* _path_matches_prefix
Under(path, prefix) == IsPrefix(prefix, path)

InScope(path, allowed) == Whole \in allowed \/ \E prefix \in allowed : Under(path, prefix)

\* `own`: what is checked of the task alone, its id and its commands.
AcceptsPatch(allowed, own) ==
    /\ own /\ patch # <<>> /\ ~UnreadPatch
    /\ \A path \in scanned : \A prefix \in Forbidden : ~Under(path, prefix)
    /\ IF allowed = {} THEN scanned = {} ELSE \A path \in scanned : InScope(path, allowed)

VerifyPatch ==
    /\ ~report.done /\ position > Len(patch)
    /\ \E allowed \in Scopes, own \in BOOLEAN :
          report' = [done |-> TRUE, accepted |-> AcceptsPatch(allowed, own),
                     allowed |-> allowed, own |-> own]
    /\ UNCHANGED <<edits, patch, position, pendingHeader, remainingOld, remainingNew,
                   scanned, problems>>

-----------------------------------------------------------------------------
ScanNext == BodyLine \/ HunkHeader \/ GitHeader \/ CombinedHeader \/ FileHeader \/ OtherLine

PatchNext == ScanNext \/ VerifyPatch

PatchSpec == PatchInit /\ [][PatchNext]_scanVars

-----------------------------------------------------------------------------
Split == \E i \in DOMAIN edits : \E k \in DOMAIN edits[i].hunk : edits[i].hunk[k] \in Broken

HeaderNames(i) == <<edits[i].from, edits[i].to>>

Ambiguous == \E i \in DOMAIN edits : edits[i].hunk = <<>> /\ ~Readable(HeaderNames(i))

\* A rename whose header is read as one name; without a hunk nothing else of
\* the patch names its paths.
Halfway == \E i \in DOMAIN edits : Halved(HeaderNames(i))

Misread == \E i \in DOMAIN edits : edits[i].hunk = <<>> /\ Halved(HeaderNames(i))

(* Whatever stands in the files, the gate reads from git's patch the paths     *)
(* that were changed, unless the header of a rename without a hunk splits into *)
(* two equal names.  A rename without a hunk whose names cannot be told apart  *)
(* is refused, a file with a line separator of its own may be read as more     *)
(* than it is, as is a renamed and edited file whose header splits; every      *)
(* other patch is read exactly.                                               *)
ReadExactly ==
    report.done /\ patch # <<>> =>
        /\ UnreadPatch \/ Misread \/ Touched \subseteq scanned
        /\ ~Split /\ ~Ambiguous /\ ~Halfway => ~UnreadPatch /\ scanned = Touched

(* A patch is accepted only if every path it changes, on both sides of a      *)
(* rename, lies in the task's scope and outside what is forbidden, unless it  *)
(* is misread; and one that does, and is read exactly, is accepted.           *)
ScopeIsKept ==
    report.done =>
        LET kept == \A path \in Touched :
              /\ \E prefix \in report.allowed : prefix = Whole \/ IsPrefix(prefix, path)
              /\ \A prefix \in Forbidden : ~IsPrefix(prefix, path)
        IN /\ report.accepted /\ ~Misread => kept
           /\ kept /\ report.own /\ patch # <<>> /\ ~Split /\ ~Ambiguous /\ ~Halfway => report.accepted

(* verifier.py: a patch is read as git wrote it, and kept in its scope, but   *)
(* for a rename that its header hides.                                       *)
PatchesAreInScope == ReadExactly /\ ScopeIsKept
=============================================================================
