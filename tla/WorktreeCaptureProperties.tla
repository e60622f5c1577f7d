---------------------- MODULE WorktreeCaptureProperties ----------------------
(***************************************************************************)
(* What a snapshot says of the worktree.                                   *)
(***************************************************************************)
EXTENDS WorktreeCapture

\* Every variable has its type.
CaptureTypeOK ==
  /\ place \in {"missing", "unmarked", "owned"}
  /\ preparing \in {"no", "mark", "record"}
  /\ recorded \in BOOLEAN
  /\ DOMAIN work = Paths /\ DOMAIN index = Paths /\ DOMAIN files = Paths
  /\ hidden \subseteq Paths /\ converts \in BOOLEAN /\ edits \in 0 .. MaxEdits

\* A snapshot of a worktree nobody touched meanwhile counts exactly the paths
\* that differ from what was checked out, or are staged to: no edit hides behind
\* an index flag, a staged file that was put back, or a changed conversion, and
\* no checkout conversion counts as an edit.
EveryChangeCounts ==
  capture.phase = "done" /\ capture.quiet /\ recorded
    => capture.changes =
         {p \in Paths : \/ index[p] # Blob(p)
                        \/ /\ work[p].bytes # CheckedOut(p)
                           /\ p \in Ignored => index[p] # "absent"}

\* Whatever is edited while it is made, a snapshot holds for each path bytes
\* that were there since it began, never older ones from the cache.
NothingStale ==
  capture.phase = "done"
    => \A e \in capture.entries : e[2] \in held[e[1]]
=============================================================================
