------------------------ MODULE WorktreeCaptureProofs ------------------------
(***************************************************************************)
(* Machine-checked proofs of what a snapshot says of the worktree, for any *)
(* paths, conversions, ignored paths and number of edits.                  *)
(***************************************************************************)
EXTENDS WorktreeCaptureProperties, TLAPS

Bytes == {"base", "converted", "edited", "absent"}
Files == [bytes : Bytes, stamp : Nat]
Entries == Paths \X Bytes

\* A capture, by what it has read so far.
Captures ==
  [phase : {"none"}]
  \union [phase : {"index"}, cached : BOOLEAN, quiet : BOOLEAN]
  \union [phase : {"others"}, cached : BOOLEAN, quiet : BOOLEAN,
          tracked : SUBSET Paths]
  \union [phase : {"diff"}, cached : BOOLEAN, quiet : BOOLEAN,
          todo : SUBSET Paths, changes : SUBSET Paths]
  \union [phase : {"stat", "done"}, cached : BOOLEAN, quiet : BOOLEAN,
          todo : SUBSET Paths, changes : SUBSET Paths,
          entries : SUBSET Entries]
  \union [phase : {"read"}, path : Paths, stamp : Nat,
          cached : BOOLEAN, quiet : BOOLEAN,
          todo : SUBSET Paths, changes : SUBSET Paths,
          entries : SUBSET Entries]

CaptureTypes ==
  /\ place \in {"missing", "unmarked", "owned"}
  /\ work \in [Paths -> Files] /\ files \in [Paths -> Files]
  /\ index \in [Paths -> Bytes] /\ held \in [Paths -> SUBSET Bytes]
  /\ edits \in Nat /\ capture \in Captures

\* Only a worktree that is ready is captured, and nothing is cached before.
OnlyOwned ==
  /\ capture.phase # "none" => place = "owned" /\ preparing = "no"
  /\ place = "missing" => \A p \in Paths : files[p] = Absent

\* Every write has a stamp of its own: what the cache keeps under the stamp
\* that a file has now are the bytes of that file.
CacheTrue ==
  \A p \in Paths :
    /\ work[p].stamp <= edits
    /\ files[p].stamp <= work[p].stamp
    /\ files[p] # Absent /\ files[p].stamp = work[p].stamp
         => files[p].bytes = work[p].bytes

\* A file about to be read was stamped no later than it is now.
StatFirst ==
  capture.phase = "read" =>
    /\ capture.path \in capture.todo
    /\ capture.stamp <= work[capture.path].stamp

HeldNow ==
  capture.phase \notin {"none", "done"} =>
    \A p \in Paths : work[p].bytes \in held[p]

EntriesHeld ==
  capture.phase \in {"stat", "read", "done"} =>
    \A e \in capture.entries : e[2] \in held[e[1]]

\* The paths a capture of the worktree as it is asks for, and the changes it
\* knows of with some of them left to do.
Tracked == {p \in Paths : index[p] # "absent"}
Listed == Committed \union Tracked \union Untracked
Known(todo) ==
  Untracked \union Staged
    \union {p \in Listed \ todo : work[p].bytes # Expected(p)}

\* As long as nobody has touched the worktree, a capture has counted what the
\* worktree holds.
CountsSoFar ==
  capture.phase # "none" /\ capture.quiet =>
    /\ capture.phase = "others" => capture.tracked = Tracked
    /\ capture.phase = "diff" =>
         capture.todo = Listed /\ capture.changes = Untracked
    /\ capture.phase \in {"stat", "read", "done"} =>
         capture.todo \subseteq Listed /\ capture.changes = Known(capture.todo)
    /\ capture.phase = "done" => capture.todo = {}

CaptureInv ==
  /\ CaptureTypes /\ OnlyOwned /\ CacheTrue /\ StatFirst /\ HeldNow
  /\ EntriesHeld /\ CountsSoFar

-----------------------------------------------------------------------------
(***************************************************************************)
(* The worktree and those who edit it.                                     *)
(***************************************************************************)
LEMMA CaptureInitInv == CaptureInit => CaptureInv
<1> SUFFICES ASSUME CaptureInit
             PROVE  CaptureInv
  OBVIOUS
<1> USE DEF CaptureInit, NoCapture, Absent
<1>1. CaptureTypes
  BY DEF CaptureTypes, Captures, Files, Bytes
<1>2. OnlyOwned /\ CacheTrue
  BY DEF OnlyOwned, CacheTrue
<1>3. StatFirst /\ HeldNow /\ EntriesHeld /\ CountsSoFar
  BY DEF StatFirst, HeldNow, EntriesHeld, CountsSoFar
<1> QED
  BY <1>1, <1>2, <1>3 DEF CaptureInv

LEMMA CaptureStutter ==
  ASSUME CaptureInv, UNCHANGED captureVars
  PROVE  CaptureInv'
BY DEF CaptureInv, CaptureTypes, OnlyOwned, CacheTrue, StatFirst, HeldNow,
       EntriesHeld, CountsSoFar, Known, Listed, Tracked, Untracked, Staged,
       Expected, Blob, captureVars, treeVars

\* A worktree is prepared before it is captured.
LEMMA PrepareKeeps ==
  ASSUME CaptureInv,
         AddWorktree \/ MarkOwner \/ RecordBaseline \/ PrepareFails
  PROVE  CaptureInv'
<1>1. capture.phase = "none" /\ UNCHANGED <<capture, files, held, edits>>
  BY DEF CaptureInv, OnlyOwned, AddWorktree, MarkOwner, RecordBaseline,
         PrepareFails, treeVars
<1>2. CaptureTypes' /\ CacheTrue'
  <2>1. CASE AddWorktree
    <3>1. \A p \in Paths : /\ files[p] = Absent /\ work'[p].stamp = 0
                           /\ CheckedOut(p) \in Bytes /\ Blob(p) \in Bytes
      BY <2>1
         DEF CaptureInv, OnlyOwned, AddWorktree, CheckedOut, Blob, Bytes
    <3>2. /\ work' \in [Paths -> Files] /\ index' \in [Paths -> Bytes]
          /\ place' = "unmarked"
      BY <2>1, <3>1 DEF AddWorktree, Files
    <3> QED
      BY <1>1, <3>1, <3>2
         DEF CaptureInv, CaptureTypes, CacheTrue, Absent, Files
  <2>2. CASE MarkOwner \/ RecordBaseline \/ PrepareFails
    BY <1>1, <2>2 DEF CaptureInv, CaptureTypes, CacheTrue, MarkOwner,
                      RecordBaseline, PrepareFails, treeVars
  <2> QED
    BY <2>1, <2>2
<1>3. OnlyOwned'
  BY <1>1 DEF CaptureInv, OnlyOwned, AddWorktree, MarkOwner, RecordBaseline,
              PrepareFails
<1>4. (StatFirst /\ HeldNow /\ EntriesHeld /\ CountsSoFar)'
  BY <1>1 DEF StatFirst, HeldNow, EntriesHeld, CountsSoFar
<1> QED
  BY <1>2, <1>3, <1>4 DEF CaptureInv

\* A capture under way notices nothing, one that is done is forgotten.
LEMMA Disturbed ==
  ASSUME CaptureInv, Disturbs
  PROVE  /\ capture' \in Captures
         /\ \/ capture' = NoCapture
            \/ /\ capture.phase \notin {"none", "done"} /\ ~capture'.quiet
               /\ capture'.phase = capture.phase
               /\ capture.phase = "read" =>
                    /\ capture'.path = capture.path
                    /\ capture'.stamp = capture.stamp
                    /\ capture'.todo = capture.todo
               /\ capture.phase \in {"stat", "read"} =>
                    capture'.entries = capture.entries
<1>1. CASE capture.phase \in {"none", "done"}
  BY <1>1 DEF Disturbs, NoCapture, Captures
<1>2. CASE capture.phase \notin {"none", "done"}
  BY <1>2 DEF CaptureInv, CaptureTypes, Captures, Disturbs
<1> QED
  BY <1>1, <1>2

LEMMA EditKeeps ==
  ASSUME CaptureInv, NEW q \in Paths,
         Edit(q) \/ Stage(q) \/ Hide(q) \/ Reconfigure
  PROVE  CaptureInv'
<1>1. /\ Disturbs /\ edits' = edits + 1
      /\ UNCHANGED <<place, preparing, recorded, files>>
  BY DEF Edit, Stage, Hide, Reconfigure, Disturbs
<1>2. /\ work' \in [Paths -> Files] /\ held' \in [Paths -> SUBSET Bytes]
      /\ \A p \in Paths :
           /\ held[p] \subseteq held'[p]
           /\ \/ work'[p] = work[p]
              \/ work'[p].stamp = edits + 1 /\ work'[p].bytes \in held'[p]
  <2>1. CASE Edit(q)
    <3>1. PICK bytes \in Bytes :
            /\ work' = [work EXCEPT ![q] = [bytes |-> bytes, stamp |-> edits']]
            /\ held' = [held EXCEPT ![q] = @ \union {bytes}]
      BY <2>1 DEF Edit, Bytes
    <3> QED
      BY <1>1, <3>1 DEF CaptureInv, CaptureTypes, Files
  <2>2. CASE Stage(q) \/ Hide(q) \/ Reconfigure
    BY <2>2 DEF CaptureInv, CaptureTypes, Stage, Hide, Reconfigure
  <2> QED
    BY <2>1, <2>2
<1>3. index' \in [Paths -> Bytes]
  <2>1. CASE Stage(q)
    <3>1. Clean(work[q].bytes) \in Bytes
      BY DEF CaptureInv, CaptureTypes, Files, Clean, Bytes
    <3> QED
      BY <2>1, <3>1 DEF Stage, CaptureInv, CaptureTypes
  <2>2. CASE Edit(q) \/ Hide(q) \/ Reconfigure
    BY <2>2 DEF CaptureInv, CaptureTypes, Edit, Hide, Reconfigure
  <2> QED
    BY <2>1, <2>2
<1>4. CaptureTypes'
  BY <1>1, <1>2, <1>3, Disturbed DEF CaptureInv, CaptureTypes
<1>5. OnlyOwned'
  BY <1>1, Disturbed DEF CaptureInv, OnlyOwned, NoCapture
<1>6. CacheTrue'
  BY <1>1, <1>2 DEF CaptureInv, CaptureTypes, CacheTrue, Files
<1>7. HeldNow'
  BY <1>1, <1>2, Disturbed DEF CaptureInv, HeldNow, NoCapture
<1>8. StatFirst'
  <2>1. CASE capture'.phase = "read"
    <3>1. /\ capture.phase = "read" /\ capture.path \in Paths
          /\ capture.stamp \in Nat
      BY <1>1, <2>1, Disturbed
         DEF CaptureInv, CaptureTypes, Captures, NoCapture
    <3> QED
      BY <1>1, <1>2, <2>1, <3>1, Disturbed
         DEF CaptureInv, CaptureTypes, CacheTrue, StatFirst, NoCapture, Files
  <2> QED
    BY <2>1 DEF StatFirst
<1>9. EntriesHeld'
  <2>1. CASE capture'.phase \in {"stat", "read", "done"}
    <3>1. /\ capture.phase \in {"stat", "read"}
          /\ capture'.entries = capture.entries
          /\ capture.entries \subseteq Entries
      BY <1>1, <2>1, Disturbed
         DEF CaptureInv, CaptureTypes, Captures, NoCapture
    <3> QED
      BY <1>2, <3>1 DEF CaptureInv, EntriesHeld, Entries
  <2> QED
    BY <2>1 DEF EntriesHeld
<1>10. CountsSoFar'
  BY <1>1, Disturbed DEF CountsSoFar, NoCapture
<1> QED
  BY <1>4, <1>5, <1>6, <1>7, <1>8, <1>9, <1>10 DEF CaptureInv

-----------------------------------------------------------------------------
(***************************************************************************)
(* capture().                                                              *)
(***************************************************************************)
\* A step of the capture alone: the invariants of the rest hold on.
LEMMA CaptureAlone ==
  ASSUME CaptureInv, UNCHANGED <<place, preparing, recorded, treeVars, files>>,
         capture' \in Captures, held' \in [Paths -> SUBSET Bytes],
         place = "owned", preparing = "no"
  PROVE  /\ CaptureTypes' /\ OnlyOwned' /\ CacheTrue'
         /\ Untracked' = Untracked /\ Staged' = Staged /\ Tracked' = Tracked
         /\ Listed' = Listed /\ \A todo : Known(todo)' = Known(todo)
<1> USE DEF treeVars
<1>1. CaptureTypes' /\ OnlyOwned' /\ CacheTrue'
  BY DEF CaptureInv, CaptureTypes, OnlyOwned, CacheTrue
<1>2. /\ Untracked' = Untracked /\ Staged' = Staged /\ Tracked' = Tracked
      /\ \A p : Expected(p)' = Expected(p)
  BY DEF Untracked, Staged, Tracked, Expected, Blob
<1>3. Listed' = Listed
  BY <1>2 DEF Listed
<1> QED
  BY <1>1, <1>2, <1>3 DEF Known

LEMMA BeginKeeps ==
  ASSUME CaptureInv, BeginCapture
  PROVE  CaptureInv'
<1>1. PICK cached \in BOOLEAN :
        capture' = [phase |-> "index", cached |-> cached, quiet |-> TRUE]
  BY DEF BeginCapture
<1>2. capture' \in Captures /\ capture'.phase = "index"
  BY <1>1 DEF Captures
<1>3. /\ held' \in [Paths -> SUBSET Bytes]
      /\ \A p \in Paths : held'[p] = {work[p].bytes}
  BY DEF BeginCapture, CaptureInv, CaptureTypes, Files
<1>4. /\ UNCHANGED <<place, preparing, recorded, treeVars, files>>
      /\ place = "owned" /\ preparing = "no"
  BY DEF BeginCapture
<1>5. CaptureTypes' /\ OnlyOwned' /\ CacheTrue'
  BY <1>2, <1>3, <1>4, CaptureAlone
<1> QED
  BY <1>2, <1>3, <1>4, <1>5
     DEF CaptureInv, StatFirst, HeldNow, EntriesHeld, CountsSoFar, treeVars

\* The lists are read: the index, what Git does not track, what is staged.
LEMMA ListsKeep ==
  ASSUME CaptureInv, ReadIndex \/ ReadOthers \/ ReadDiff
  PROVE  CaptureInv'
<1>1. /\ UNCHANGED <<place, preparing, recorded, treeVars, files, held>>
      /\ capture.phase \notin {"none", "done"}
      /\ place = "owned" /\ preparing = "no"
      /\ held \in [Paths -> SUBSET Bytes]
  BY DEF ReadIndex, ReadOthers, ReadDiff, CaptureInv, OnlyOwned, CaptureTypes
<1>2. /\ Untracked \subseteq Paths /\ Staged \subseteq Paths
      /\ Listed \subseteq Paths
  BY DEF Untracked, Staged, Listed, Tracked, Paths
<1>3. /\ capture.phase \in {"index", "others", "diff"} =>
           capture.quiet \in BOOLEAN /\ capture.cached \in BOOLEAN
      /\ capture.phase = "others" => capture.tracked \subseteq Paths
      /\ capture.phase = "diff" => /\ capture.todo \subseteq Paths
                                   /\ capture.changes \subseteq Paths
  BY DEF CaptureInv, CaptureTypes, Captures
<1>4. /\ capture' \in Captures
      /\ capture'.phase \in {"others", "diff", "stat"}
      /\ capture'.phase = "others" =>
           (capture'.quiet => capture'.tracked = Tracked)
      /\ capture'.phase = "diff" =>
           (capture'.quiet => /\ capture'.todo = Listed
                              /\ capture'.changes = Untracked)
      /\ capture'.phase = "stat" =>
           /\ capture'.entries = {}
           /\ capture'.quiet => /\ capture'.todo = Listed
                                /\ capture'.changes = Untracked \union Staged
  <2>1. CASE ReadIndex
    BY <1>3, <2>1 DEF ReadIndex, Captures, Tracked
  <2>2. CASE ReadOthers
    <3>1. Committed \union capture.tracked \union Untracked \subseteq Paths
      BY <1>2, <1>3, <2>2 DEF ReadOthers, Paths
    <3>2. capture.quiet =>
            Committed \union capture.tracked \union Untracked = Listed
      BY <2>2 DEF ReadOthers, CaptureInv, CountsSoFar, Listed
    <3> QED
      BY <1>2, <1>3, <2>2, <3>1, <3>2 DEF ReadOthers, Captures
  <2>3. CASE ReadDiff
    <3>1. capture.quiet =>
            capture.todo = Listed /\ capture.changes = Untracked
      BY <2>3 DEF ReadDiff, CaptureInv, CountsSoFar
    <3>2. capture.changes \union Staged \subseteq Paths
      BY <1>2, <1>3, <2>3 DEF ReadDiff
    <3> QED
      BY <1>3, <2>3, <3>1, <3>2 DEF ReadDiff, Captures
  <2> QED
    BY <2>1, <2>2, <2>3
<1>5. /\ CaptureTypes' /\ OnlyOwned' /\ CacheTrue'
      /\ Untracked' = Untracked /\ Tracked' = Tracked /\ Listed' = Listed
      /\ \A todo : Known(todo)' = Known(todo)
  BY <1>1, <1>4, CaptureAlone
<1>6. StatFirst' /\ HeldNow' /\ EntriesHeld'
  BY <1>1, <1>4 DEF CaptureInv, StatFirst, HeldNow, EntriesHeld, treeVars
<1>7. Known(Listed) = Untracked \union Staged
  BY DEF Known
<1>8. CountsSoFar'
  BY <1>4, <1>5, <1>7 DEF CountsSoFar
<1> QED
  BY <1>5, <1>6, <1>8 DEF CaptureInv

\* A file is taken with bytes it had, and with those it has if nobody touched
\* the worktree.
LEMMA TakesKeeps ==
  ASSUME CaptureInv, NEW p \in Paths, NEW bytes \in Bytes,
         capture.phase \in {"stat", "read"}, p \in capture.todo,
         UNCHANGED <<place, preparing, recorded, treeVars, held>>,
         Takes(p, bytes), bytes = work[p].bytes
  PROVE  /\ CaptureTypes /\ capture' \in Captures
         /\ StatFirst' /\ HeldNow' /\ EntriesHeld' /\ CountsSoFar'
<1>1. /\ capture.cached \in BOOLEAN /\ capture.quiet \in BOOLEAN
      /\ capture.todo \subseteq Paths /\ capture.changes \subseteq Paths
      /\ capture.entries \subseteq Entries
  BY DEF CaptureInv, CaptureTypes, Captures
<1> DEFINE todo == capture.todo \ {p}
           changes == IF Different(p, bytes) THEN capture.changes \union {p}
                                             ELSE capture.changes
           entries == capture.entries \union {<<p, bytes>>}
<1>2. /\ capture'.phase = IF todo = {} THEN "done" ELSE "stat"
      /\ capture'.cached = capture.cached /\ capture'.quiet = capture.quiet
      /\ capture'.todo = todo /\ capture'.changes = changes
      /\ capture'.entries = entries
  BY DEF Takes
<1>3. /\ todo \subseteq Paths /\ changes \subseteq Paths
      /\ entries \subseteq Entries
  BY <1>1 DEF Entries
<1>4. capture' \in Captures
  BY <1>1, <1>3 DEF Takes, Captures
<1>5. StatFirst' /\ HeldNow'
  BY <1>2 DEF CaptureInv, StatFirst, HeldNow, treeVars
<1>6. EntriesHeld'
  <2>1. work[p].bytes \in held[p]
    BY DEF CaptureInv, HeldNow
  <2> QED
    BY <1>1, <1>2, <2>1 DEF CaptureInv, EntriesHeld, Entries
<1>7. CountsSoFar'
  <2>1. ASSUME capture.quiet
        PROVE  todo \subseteq Listed /\ changes = Known(todo)
    <3>1. /\ capture.todo \subseteq Listed
          /\ capture.changes = Known(capture.todo)
      BY <2>1 DEF CaptureInv, CountsSoFar
    <3>2. {q \in Listed \ todo : work[q].bytes # Expected(q)} =
            {q \in Listed \ capture.todo : work[q].bytes # Expected(q)}
              \union (IF Different(p, bytes) THEN {p} ELSE {})
      BY <3>1 DEF Different
    <3> HIDE DEF todo
    <3> QED
      BY <3>1, <3>2 DEF Known, todo
  <2>2. Listed' = Listed /\ \A s : Known(s)' = Known(s)
    BY DEF Listed, Known, Tracked, Untracked, Staged, Expected, Blob, treeVars
  <2> HIDE DEF todo, changes, entries
  <2> QED
    BY <1>2, <2>1, <2>2 DEF CountsSoFar
<1> QED
  BY <1>4, <1>5, <1>6, <1>7 DEF CaptureInv

LEMMA StatKeeps ==
  ASSUME CaptureInv, NEW p \in Paths, StatFile(p)
  PROVE  CaptureInv'
<1>1. /\ UNCHANGED <<place, preparing, recorded, treeVars, files, held>>
      /\ capture.phase = "stat" /\ p \in capture.todo
      /\ place = "owned" /\ preparing = "no"
      /\ held \in [Paths -> SUBSET Bytes]
      /\ work[p] \in Files /\ files[p] \in Files
  BY DEF StatFile, CaptureInv, OnlyOwned, CaptureTypes
<1>2. ASSUME NEW bytes \in Bytes, Takes(p, bytes), bytes = work[p].bytes
      PROVE  CaptureInv'
  <2>1. /\ capture' \in Captures
        /\ StatFirst' /\ HeldNow' /\ EntriesHeld' /\ CountsSoFar'
    BY <1>1, <1>2, TakesKeeps
  <2> QED
    BY <1>1, <2>1, CaptureAlone DEF CaptureInv
<1>3. CASE work[p].bytes = "absent" /\ Takes(p, "absent")
  BY <1>2, <1>3 DEF Bytes
<1>4. CASE /\ files[p] # Absent /\ files[p].stamp = Stamp(p)
           /\ Takes(p, files[p].bytes)
  <2>1. files[p].bytes = work[p].bytes /\ files[p].bytes \in Bytes
    BY <1>1, <1>4 DEF CaptureInv, CacheTrue, Stamp, Files
  <2> QED
    BY <1>2, <1>4, <2>1
<1>5. CASE capture' = [phase |-> "read", path |-> p, stamp |-> Stamp(p),
                       cached |-> capture.cached, quiet |-> capture.quiet,
                       todo |-> capture.todo, changes |-> capture.changes,
                       entries |-> capture.entries]
  <2>1. /\ capture.cached \in BOOLEAN /\ capture.quiet \in BOOLEAN
        /\ capture.todo \subseteq Paths /\ capture.changes \subseteq Paths
        /\ capture.entries \subseteq Entries /\ Stamp(p) \in Nat
    BY <1>1 DEF CaptureInv, CaptureTypes, Captures, Stamp, Files
  <2>2. capture' \in Captures
    BY <1>5, <2>1 DEF Captures
  <2>3. /\ capture'.phase = "read" /\ capture'.quiet = capture.quiet
        /\ capture'.todo = capture.todo /\ capture'.changes = capture.changes
        /\ capture'.entries = capture.entries
        /\ capture'.path = p /\ capture'.stamp = work[p].stamp
    BY <1>5 DEF Stamp
  <2>4. /\ CaptureTypes' /\ OnlyOwned' /\ CacheTrue'
        /\ Listed' = Listed /\ \A todo : Known(todo)' = Known(todo)
    BY <1>1, <2>2, CaptureAlone
  <2>5. StatFirst' /\ HeldNow' /\ EntriesHeld'
    BY <1>1, <2>3
       DEF CaptureInv, StatFirst, HeldNow, EntriesHeld, treeVars, Files
  <2>6. CountsSoFar'
    BY <1>1, <2>3, <2>4 DEF CaptureInv, CountsSoFar
  <2> QED
    BY <2>4, <2>5, <2>6 DEF CaptureInv
<1> QED
  BY <1>3, <1>4, <1>5 DEF StatFile

LEMMA ReadKeeps ==
  ASSUME CaptureInv, NEW p \in Paths, ReadFile(p)
  PROVE  CaptureInv'
<1>1. /\ UNCHANGED <<place, preparing, recorded, treeVars, held>>
      /\ capture.phase = "read" /\ capture.path = p
      /\ place = "owned" /\ preparing = "no"
      /\ held \in [Paths -> SUBSET Bytes]
      /\ work[p] \in Files /\ work[p].bytes \in Bytes
  BY DEF ReadFile, CaptureInv, OnlyOwned, CaptureTypes, Files
<1>2. /\ p \in capture.todo /\ capture.stamp <= work[p].stamp
      /\ capture.stamp \in Nat
  BY <1>1 DEF CaptureInv, StatFirst, CaptureTypes, Captures
<1>3. CASE capture' = NoCapture /\ UNCHANGED files
  <2>1. capture' \in Captures
    BY <1>3 DEF NoCapture, Captures
  <2>2. CaptureTypes' /\ OnlyOwned' /\ CacheTrue'
    BY <1>1, <1>3, <2>1, CaptureAlone
  <2> QED
    BY <1>3, <2>2 DEF CaptureInv, StatFirst, HeldNow, EntriesHeld,
                      CountsSoFar, NoCapture
<1>4. CASE /\ work[p].bytes # "absent" /\ Takes(p, work[p].bytes)
           /\ files' = IF capture.cached
                         THEN [files EXCEPT ![p] = [bytes |-> work[p].bytes,
                                                    stamp |-> capture.stamp]]
                         ELSE files
  <2>1. /\ capture' \in Captures
        /\ StatFirst' /\ HeldNow' /\ EntriesHeld' /\ CountsSoFar'
    BY <1>1, <1>2, <1>4, TakesKeeps
  <2>2. /\ files' \in [Paths -> Files]
        /\ \A q \in Paths :
             \/ files'[q] = files[q]
             \/ /\ q = p /\ files'[q].bytes = work[p].bytes
                /\ files'[q].stamp = capture.stamp
    BY <1>1, <1>2, <1>4 DEF CaptureInv, CaptureTypes, Files
  <2>3. CaptureTypes' /\ OnlyOwned'
    BY <1>1, <2>1, <2>2 DEF CaptureInv, CaptureTypes, OnlyOwned, treeVars
  <2>4. CacheTrue'
    BY <1>1, <1>2, <2>2
       DEF CaptureInv, CaptureTypes, CacheTrue, Files, treeVars
  <2> QED
    BY <2>1, <2>3, <2>4 DEF CaptureInv
<1> QED
  BY <1>3, <1>4 DEF ReadFile

-----------------------------------------------------------------------------
(***************************************************************************)
(* The theorems.                                                           *)
(***************************************************************************)
\* What is true of a capture under way: the cache holds what its stamps say,
\* and what has been counted so far is what the worktree holds.
THEOREM CaptureInvariant == CaptureSpec => []CaptureInv
<1>1. ASSUME CaptureInv, [CaptureNext]_captureVars
      PROVE  CaptureInv'
  <2>1. CASE AddWorktree \/ MarkOwner \/ RecordBaseline \/ PrepareFails
    BY <1>1, <2>1, PrepareKeeps
  <2>2. ASSUME NEW p \in Paths, Edit(p) \/ Stage(p) \/ Hide(p)
        PROVE  CaptureInv'
    BY <1>1, <2>2, EditKeeps
  <2>3. CASE Reconfigure
    <3>1. CASE Paths = {}
      <4>1. UNCHANGED <<place, preparing, recorded, files, work, index, held>>
        BY <2>3 DEF Reconfigure, Disturbs
      <4> QED
        BY <1>1, <2>3, <3>1, <4>1, Disturbed
           DEF Reconfigure, Disturbs, CaptureInv, CaptureTypes, OnlyOwned,
               CacheTrue, StatFirst, HeldNow, EntriesHeld, CountsSoFar,
               NoCapture
    <3>2. CASE Paths # {}
      BY <1>1, <2>3, <3>2, EditKeeps
    <3> QED
      BY <3>1, <3>2
  <2>4. CASE BeginCapture
    BY <1>1, <2>4, BeginKeeps
  <2>5. CASE ReadIndex \/ ReadOthers \/ ReadDiff
    BY <1>1, <2>5, ListsKeep
  <2>6. ASSUME NEW p \in Paths, StatFile(p) \/ ReadFile(p)
        PROVE  CaptureInv'
    BY <1>1, <2>6, StatKeeps, ReadKeeps
  <2>7. CASE UNCHANGED captureVars
    BY <1>1, <2>7, CaptureStutter
  <2> QED
    BY <1>1, <2>1, <2>2, <2>3, <2>4, <2>5, <2>6, <2>7 DEF CaptureNext
<1> QED
  BY <1>1, CaptureInitInv, PTL DEF CaptureSpec

\* Whatever is edited while it is made, and whatever its cache has kept from
\* earlier captures, a snapshot holds bytes that were there since it began.
THEOREM NothingStaleTheorem == CaptureSpec => []NothingStale
<1>1. CaptureInv => NothingStale
  BY DEF CaptureInv, EntriesHeld, NothingStale
<1> QED
  BY <1>1, CaptureInvariant, PTL

\* A snapshot of a worktree that nobody touched meanwhile counts exactly what
\* differs from the checkout or is staged to.
THEOREM EveryChangeCountsTheorem == CaptureSpec => []EveryChangeCounts
<1>1. ASSUME CaptureInv
      PROVE  EveryChangeCounts
  <2> SUFFICES ASSUME capture.phase = "done", capture.quiet, recorded
               PROVE  capture.changes =
                        {p \in Paths :
                           \/ index[p] # Blob(p)
                           \/ /\ work[p].bytes # CheckedOut(p)
                              /\ p \in Ignored => index[p] # "absent"}
    BY DEF EveryChangeCounts
  <2>1. capture.changes = Known({})
    BY <1>1 DEF CaptureInv, CountsSoFar
  <2>2. \A p \in Paths : Expected(p) = CheckedOut(p)
    BY DEF Expected, CheckedOut
  <2>3. \A p \in Paths :
          p \in Known({}) <=> \/ index[p] # Blob(p)
                              \/ /\ work[p].bytes # CheckedOut(p)
                                 /\ p \in Ignored => index[p] # "absent"
    BY <2>2, PathsAssumption
       DEF Known, Untracked, Staged, Listed, Tracked, CheckedOut, Blob, Paths
  <2>4. Known({}) \subseteq Paths
    BY DEF Known, Untracked, Staged, Listed, Tracked, Paths
  <2> QED
    BY <2>1, <2>3, <2>4
<1> QED
  BY <1>1, CaptureInvariant, PTL
=============================================================================
