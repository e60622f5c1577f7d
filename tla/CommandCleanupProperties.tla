----------------------- MODULE CommandCleanupProperties -----------------------
(***************************************************************************)
(* Whom the cleanup of a command reaches.                                  *)
(***************************************************************************)
EXTENDS CommandCleanup

\* Every variable has its type.
CleanupTypeOK ==
  /\ life \in [Everyone -> {"unborn", "living", "dead"}]
  /\ parent \in [Everyone -> Everyone \union {Init1}]
  /\ unmarked \subseteq Everyone /\ doomed \subseteq Living
  /\ struck \subseteq Everyone
  /\ reuses \in [Others -> OwnProcesses \union {Nobody}]
  /\ command \in 0 .. ListLength
  /\ phase \in {"idle", "running", "exited", "ending", "stopped"}
  /\ aborted \in BOOLEAN /\ early \subseteq Commands /\ known \subseteq Everyone
  /\ \A c \in Calls : closer[c].state \in {"off", "starting", "term", "kill",
                                           "gone", "remain"}

\* A signal reaches a process of somebody else only where that one got the pid
\* of a descendant after alive() had looked at the table and before the signal
\* was sent to the pid.  However pids were used again before that look, nobody
\* who was there already is hit; and nobody is ever hit by the pid of a root,
\* which Node gives free only between two turns of its event loop.
StrangersSpared ==
  \A p \in struck \intersect Others : p \in fresh /\ reuses[p] \notin Roots

\* When a cleanup reports that nothing remains, nothing does that carries the
\* marker or that it had found before, except what was forked while it looked.
EmptyMeansGone ==
  [][\A c \in Calls :
       closer[c].state # "gone" /\ closer'[c].state = "gone"
         => \A p \in Living \ Others :
              \/ p \in fresh
              \/ p \in unmarked /\ p \notin closer[c].current]_cleanupVars

\* A command that ran into its timeout, was cancelled, or has exited leaves
\* execute() at last, although processes may ignore the first signal, unless a
\* process that no scan could find goes on holding its output.
CommandEnds ==
  ((phase = "running" /\ command \in early) \/ phase \in {"exited", "ending"})
    ~> \/ phase \in {"idle", "stopped"}
       \/ Final.state = "gone" /\ ~OutputClosed
=============================================================================
