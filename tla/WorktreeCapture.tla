--------------------------- MODULE WorktreeCapture ---------------------------
(***************************************************************************)
(* A ticket's worktree, from its creation on, and capture(), which reads   *)
(* it with several Git commands and file by file while anybody may edit,   *)
(* stage, hide from Git or reconfigure.  The reader of status requests     *)
(* keeps a cache of the files it has read.                                 *)
(***************************************************************************)
EXTENDS Integers, FiniteSets

CONSTANTS
  Committed,  \* paths of the assigned base
  Added,      \* other paths that files may appear at
  Converted,  \* committed paths that a checkout converts
  Ignored,    \* paths Git is told to ignore
  MaxEdits    \* bound: things that happen to the worktree

ASSUME PathsAssumption ==
  Committed \intersect Added = {} /\ Converted \subseteq Committed

Paths == Committed \union Added

VARIABLES
  place,      \* the worktree: "missing", "unmarked" or "owned"
  preparing,  \* where createWorktree() and its caller are
  recorded,   \* the record has a checkout baseline: what is converted
  work,       \* per path, the bytes there and when they were written
  index,      \* per path, the staged blob
  hidden,     \* tracked paths Git is told to assume unchanged
  converts,   \* the configuration in force still converts
  edits,      \* number of things that happened
  capture,    \* the capture under way, or the last one
  files,      \* FileCache: per path, a stamp and the bytes read
  held        \* history: bytes each path has had since the capture began

treeVars == <<work, index, hidden, converts, edits>>
captureVars == <<place, preparing, recorded, treeVars, capture, files, held>>

Absent == [bytes |-> "absent", stamp |-> 0]
Blob(p) == IF p \in Committed THEN "base" ELSE "absent"
CheckedOut(p) == IF p \in Converted THEN "converted" ELSE Blob(p)
\* What staging these bytes stores.
Clean(bytes) == IF bytes = "converted" THEN "base" ELSE bytes

NoCapture == [phase |-> "none"]

CaptureInit ==
  /\ place = "missing" /\ preparing = "no" /\ recorded = FALSE
  /\ work = [p \in Paths |-> Absent] /\ index = [p \in Paths |-> "absent"]
  /\ hidden = {} /\ converts = TRUE /\ edits = 0
  /\ capture = NoCapture /\ files = [p \in Paths |-> Absent]
  /\ held = [p \in Paths |-> {}]

-----------------------------------------------------------------------------
(***************************************************************************)
(* prepare(): a crash or an error may come after each step.                *)
(***************************************************************************)
AddWorktree ==
  /\ place = "missing" /\ preparing = "no"
  /\ place' = "unmarked" /\ preparing' = "mark"
  /\ work' = [p \in Paths |-> [bytes |-> CheckedOut(p), stamp |-> 0]]
  /\ index' = [p \in Paths |-> Blob(p)]
  /\ UNCHANGED <<recorded, hidden, converts, edits, capture, files, held>>

MarkOwner ==
  /\ preparing = "mark"
  /\ place' = "owned" /\ preparing' = "record"
  /\ UNCHANGED <<recorded, treeVars, capture, files, held>>

RecordBaseline ==
  /\ preparing = "record"
  /\ recorded' = TRUE /\ preparing' = "no"
  /\ UNCHANGED <<place, treeVars, capture, files, held>>

\* A worktree that is there already is not created, nor its baseline, again.
PrepareFails ==
  /\ preparing # "no"
  /\ preparing' = "no"
  /\ UNCHANGED <<place, recorded, treeVars, capture, files, held>>

(***************************************************************************)
(* Anybody.                                                                *)
(***************************************************************************)
Disturbs ==
  /\ place = "owned" /\ preparing = "no" /\ edits < MaxEdits
  /\ edits' = edits + 1
  /\ UNCHANGED <<place, preparing, recorded, files>>
  /\ capture' = IF capture.phase \in {"none", "done"} THEN NoCapture
                ELSE [capture EXCEPT !.quiet = FALSE]

Edit(p) ==
  /\ Disturbs
  /\ \E bytes \in {"base", "converted", "edited", "absent"} \ {work[p].bytes} :
       /\ work' = [work EXCEPT ![p] = [bytes |-> bytes, stamp |-> edits']]
       /\ held' = [held EXCEPT ![p] = @ \union {bytes}]
  /\ UNCHANGED <<index, hidden, converts>>

Stage(p) ==
  /\ Disturbs
  /\ index' = [index EXCEPT ![p] = Clean(work[p].bytes)]
  /\ hidden' = hidden \ {p}
  /\ UNCHANGED <<work, converts, held>>

Hide(p) ==
  /\ Disturbs /\ index[p] # "absent"
  /\ hidden' = hidden \union {p}
  /\ UNCHANGED <<work, index, converts, held>>

Reconfigure ==
  /\ Disturbs
  /\ converts' = ~converts
  /\ UNCHANGED <<work, index, hidden, held>>

-----------------------------------------------------------------------------
(***************************************************************************)
(* capture()                                                               *)
(***************************************************************************)
\* Fault: what a checkout converts is asked when the capture is made.
ExpectedNow(p) == IF p \in Converted /\ converts THEN "converted" ELSE Blob(p)
\* The recorded baseline, or the raw blobs where there is none.
Expected(p) ==
  IF recorded /\ p \in Converted THEN "converted" ELSE Blob(p)

\* Ownership is checked first; a missing marker stops everything.
BeginCapture ==
  /\ place = "owned" /\ preparing = "no"
  /\ capture.phase \in {"none", "done"}
  /\ \E cached \in BOOLEAN :
       capture' = [phase |-> "index", cached |-> cached, quiet |-> TRUE]
  /\ held' = [p \in Paths |-> {work[p].bytes}]
  /\ UNCHANGED <<place, preparing, recorded, treeVars, files>>

ReadIndex ==
  /\ capture.phase = "index"
  /\ capture' = [phase |-> "others", cached |-> capture.cached,
                 quiet |-> capture.quiet,
                 tracked |-> {p \in Paths : index[p] # "absent"}]
  /\ UNCHANGED <<place, preparing, recorded, treeVars, files, held>>

Untracked ==
  {p \in Paths : work[p].bytes # "absent" /\ index[p] = "absent" /\ p \notin Ignored}
Staged == {p \in Paths : index[p] # Blob(p)}

ReadOthers ==
  /\ capture.phase = "others"
  /\ capture' = [phase |-> "diff", cached |-> capture.cached,
                 quiet |-> capture.quiet,
                 todo |-> Committed \union capture.tracked \union Untracked,
                 changes |-> Untracked]
  /\ UNCHANGED <<place, preparing, recorded, treeVars, files, held>>

ReadDiff ==
  /\ capture.phase = "diff"
  /\ capture' = [phase |-> "stat", cached |-> capture.cached,
                 quiet |-> capture.quiet, todo |-> capture.todo,
                 changes |-> capture.changes \union Staged, entries |-> {}]
  /\ UNCHANGED <<place, preparing, recorded, treeVars, files, held>>

Different(p, bytes) == bytes # Expected(p)

Takes(p, bytes) ==
  capture' =
    [phase |-> IF capture.todo = {p} THEN "done" ELSE "stat",
     cached |-> capture.cached, quiet |-> capture.quiet,
     todo |-> capture.todo \ {p},
     changes |-> IF Different(p, bytes) THEN capture.changes \union {p}
                                        ELSE capture.changes,
     entries |-> capture.entries \union {<<p, bytes>>}]

\* Fault: two edits within a tick of the clock leave the same stamp.
CoarseStamp(p) == work[p].stamp \div 2
Stamp(p) == work[p].stamp

\* lstat(): nothing there, the cached bytes, or a file to read.
StatFile(p) ==
  /\ capture.phase = "stat" /\ p \in capture.todo
  /\ IF work[p].bytes = "absent" THEN Takes(p, "absent")
     ELSE IF /\ capture.cached /\ files[p] # Absent
             /\ files[p].stamp = Stamp(p)
       THEN Takes(p, files[p].bytes)
     ELSE capture' = [phase |-> "read", path |-> p, stamp |-> Stamp(p),
                      cached |-> capture.cached, quiet |-> capture.quiet,
                      todo |-> capture.todo, changes |-> capture.changes,
                      entries |-> capture.entries]
  /\ UNCHANGED <<place, preparing, recorded, treeVars, files, held>>

\* The bytes are read, and kept with the stamp the file had before.  It may be
\* gone by then: the capture fails.
ReadFile(p) ==
  /\ capture.phase = "read" /\ capture.path = p
  /\ UNCHANGED <<place, preparing, recorded, treeVars, held>>
  /\ \/ /\ work[p].bytes # "absent" /\ Takes(p, work[p].bytes)
        /\ files' = IF capture.cached
                      THEN [files EXCEPT ![p] = [bytes |-> work[p].bytes,
                                                 stamp |-> capture.stamp]]
                      ELSE files
     \/ work[p].bytes = "absent" /\ capture' = NoCapture /\ UNCHANGED files

CaptureNext ==
  \/ AddWorktree \/ MarkOwner \/ RecordBaseline \/ PrepareFails
  \/ \E p \in Paths : Edit(p) \/ Stage(p) \/ Hide(p)
  \/ Reconfigure
  \/ BeginCapture \/ ReadIndex \/ ReadOthers \/ ReadDiff
  \/ \E p \in Paths : StatFile(p) \/ ReadFile(p)

CaptureSpec == CaptureInit /\ [][CaptureNext]_captureVars
=============================================================================
