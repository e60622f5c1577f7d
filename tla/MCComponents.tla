----------------------------- MODULE MCComponents -----------------------------
(***************************************************************************)
(* Small instances of the components around the controller for TLC: the    *)
(* service in its home, the session histories, the processes of commands,  *)
(* the snapshots of a worktree, and the three ways to watch a ticket.      *)
(* They share no state.  Each behaviour moves one of them, `part', and     *)
(* leaves the others in their initial states.                              *)
(***************************************************************************)
EXTENDS SessionHistory, ServiceLifetimeProperties, WorktreeCaptureProperties

CONSTANTS
  Polls, Contents, MaxSaves, MaxDeaths,
  Limit, Window, MaxRuns, MaxLog,
  Shown, Looks, MaxEvents, MaxClicks,
  ListLength, Descendants, Strangers, Scans, MaxEarly

\* What a worktree holds is neither an error nor the lack of a snapshot.
ASSUME ContentsAssumption == {"none", "error"} \intersect Contents = {}
ASSUME RunsAssumption == MaxRuns \in Nat
ASSUME BoundsAssumption == {MaxEdits, MaxSaves, MaxEvents, ListLength} \subseteq Nat
\* A page has an entry.
ASSUME PanelAssumption == Limit \in Nat \ {0} /\ Window \in Nat

VARIABLES
  part,
  version, settled, tree, sinceSave, poll, cache, requests, worker, alive,
  replies, deaths, workers, terminating, closed,
  attempts, interrupted, log, agents, panel,
  looks, journal, stream, cursor, seen, overview, reading, selected, dialog,
  request, clicks, acts,
  life, parent, unmarked, reuses, doomed, command, phase, aborted, early, known,
  polling, scan, fresh, closer, timers, struck

pollingVars ==
  <<version, settled, tree, sinceSave, poll, cache, requests, worker, alive,
    replies, deaths, workers, terminating, closed>>
watchingVars == <<attempts, interrupted, log, agents, panel>>
viewingVars ==
  <<looks, journal, stream, cursor, seen, overview, reading, selected, dialog,
    request, clicks, acts>>
cleaningVars ==
  <<life, parent, unmarked, reuses, doomed, command, phase, aborted, early,
    known, polling, scan, fresh, closer, timers, struck>>

Polling == INSTANCE SnapshotPollingProperties
Watching == INSTANCE TrajectoryProperties
Viewing == INSTANCE LiveViewProperties
Cleaning == INSTANCE CommandCleanupProperties

\* Polling starts in several states.
Parked == settled /\ tree = CHOOSE c \in Contents : TRUE

ComponentsInit ==
  /\ part \in {"home", "history", "polling", "trajectory", "view", "cleanup",
               "capture"}
  /\ HistoryInit /\ LifeInit /\ CaptureInit
  /\ Polling!PollingInit /\ Watching!TrajectoryInit
  /\ Viewing!ViewInit /\ Cleaning!CleanupInit
  /\ part # "polling" => Parked

\* Everything but the named component stays as it is.
Only(name) ==
  /\ part = name /\ UNCHANGED part
  /\ name = "history" \/ UNCHANGED historyVars
  /\ name = "home" \/ UNCHANGED lifeVars
  /\ name = "capture" \/ UNCHANGED captureVars
  /\ name = "polling" \/ UNCHANGED pollingVars
  /\ name = "trajectory" \/ UNCHANGED watchingVars
  /\ name = "view" \/ UNCHANGED viewingVars
  /\ name = "cleanup" \/ UNCHANGED cleaningVars

ComponentsNext ==
  \/ Only("history") /\ HistoryNext
  \/ Only("home") /\ LifeNext
  \/ Only("capture") /\ CaptureNext
  \/ Only("polling") /\ Polling!PollingNext
  \/ Only("trajectory") /\ Watching!TrajectoryNext
  \/ Only("view") /\ Viewing!ViewNext
  \/ Only("cleanup") /\ Cleaning!CleanupNext

componentVars ==
  <<part, historyVars, lifeVars, captureVars, pollingVars,
    watchingVars, viewingVars, cleaningVars>>

Components == ComponentsInit /\ [][ComponentsNext]_componentVars

\* Nothing fair is enabled in a component that is left alone.
ProgressInit ==
  ComponentsInit /\ part \in {"polling", "trajectory", "view", "cleanup"}

ComponentsProgress ==
  /\ ProgressInit /\ [][ComponentsNext]_componentVars
  /\ Polling!PollingFairness
  /\ Watching!TrajectoryFairness
  /\ Viewing!ViewFairness
  /\ Cleaning!CleanupFairness

TrajectoryInit == ComponentsInit /\ part = "trajectory"
TrajectoryAlone == TrajectoryInit /\ [][ComponentsNext]_componentVars

-----------------------------------------------------------------------------
(***************************************************************************)
(* The properties of the components, by name.                              *)
(***************************************************************************)
\* Every variable of every component has its type.
ComponentsTypeOK ==
  /\ LifeTypeOK /\ CaptureTypeOK /\ Polling!PollingTypeOK
  /\ Watching!TrajectoryTypeOK /\ Viewing!ViewTypeOK /\ Cleaning!CleanupTypeOK

\* The history of the session that an answer continues is there as long as the
\* answer waits or its operation needs it, whatever is pruned meanwhile.
HistoryAwaited ==
  \A t \in Tickets :
    LET r == record[t]
    IN /\ r.pending.kind = "answer" => HasHistory(t, r.pending.attempt)
       /\ operations[t].continuation = "answer" => HasHistory(t, LastAttempt(r))
       /\ operations[t].kind = "run" /\ CurrentAttempt(r).mode = "answer"
            => \/ HasHistory(t, LastAttempt(r))
               \/ HasHistory(t, LastAttempt(r) - 1)

\* A poll is answered with the record as it is then, and a snapshot from after
\* its last save, though readers share captures and a cache.
AnswerIsCurrent == Polling!AnswerIsCurrent

\* Every poll is answered, whatever dies and whoever closes the reader.
PollsEnd == Polling!PollsEnd

\* The agents shown by a projection that was carried on are those of one that
\* was rebuilt.
RebuildAgrees == Watching!RebuildAgrees

\* The panel shows the end of the journal up to its cursor, without gap or
\* repetition.
WindowIsTail == Watching!WindowIsTail

\* The panel reads on until it is up to date, or says that there is more.
PanelFollows == Watching!PanelFollows

\* An agent is shown at work only while its attempt is.
RunningIsAtWork == Watching!RunningIsAtWork

\* The page handles every event of the journal once and in order, over lost and
\* cut-off connections.
SeesJournal == Viewing!SeesJournal

\* Whatever happens to a ticket is shown in the overview at last, and what
\* version() sees of it in the dialog that is open for it.
PageConverges == Viewing!PageConverges

\* A signal of a cleanup reaches a process of somebody else only by a pid that
\* changed hands between the last look and the signal.
StrangersSpared == Cleaning!StrangersSpared

\* A cleanup that reports that nothing remains has missed nothing it could see.
EmptyMeansGone == Cleaning!EmptyMeansGone

\* A command that timed out, was cancelled or has exited leaves execute().
CommandEnds == Cleaning!CommandEnds
=============================================================================
