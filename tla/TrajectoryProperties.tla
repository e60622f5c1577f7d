------------------------ MODULE TrajectoryProperties ------------------------
(***************************************************************************)
(* What a reader of a ticket's execution may rely on.                      *)
(***************************************************************************)
EXTENDS Trajectory

\* Every variable has its type.
TrajectoryTypeOK ==
  /\ attempts \in Seq([session : 1 .. MaxRuns, ended : BOOLEAN,
                       clean : BOOLEAN])
  /\ interrupted \in BOOLEAN
  /\ log \in Seq([kind : AllKinds \union {"processes"}, session : Sessions])
  /\ agents.cursor \in 0 .. Len(log)
  /\ agents.known \in [Sessions -> [attempt : 0 .. Len(attempts),
       status : {"absent", "unknown", "running", "idle", "ended"}]]
  /\ panel.request \in {"unmounted", "none", "asked", "answered"}

\* A projection that has advanced from reading to reading, over attempts that
\* started and sessions that were resumed meanwhile, shows what one rebuilt
\* after a restart would show.
RebuildAgrees == CaughtUp(agents) = CaughtUp(Fresh)

\* The panel shows the journal without gap or repetition up to its cursor,
\* whatever is loaded, restarted and lost meanwhile.
WindowIsTail ==
  LET loaded == Between(0, panel.cursor)
  IN panel.entries = SubSeq(loaded, Len(loaded) - Len(panel.entries) + 1,
                            Len(loaded))
     /\ (Len(panel.entries) = Window \/ panel.entries = loaded)

\* The panel reads on until it is up to date, or says that there is more.
PanelFollows ==
  \A n \in 1 .. MaxLog :
    (n \in Visible /\ panel.request # "unmounted") ~> (panel.cursor >= n \/ panel.more)

\* An agent is shown at work only while its attempt is.
RunningIsAtWork ==
  \A s \in Sessions :
    LET agent == CaughtUp(agents).known[s]
    IN agent # Absent /\ Label(agent) = "running"
         => Live /\ Latest.session = s[1]
=============================================================================
