--------------------------- MODULE RuntimeSession ---------------------------
(***************************************************************************)
(* One attempt in the runtime adapter and its runner: the SdkRuntime.exe-  *)
(* cute() call in the service, the forked runner that owns the SDK         *)
(* harness, and the IPC channel between them.  The watchdog, the process   *)
(* scan, the deadline, the caller's abort and the receipts of instructions *)
(* interleave with the life of three processes: the runner, the harness    *)
(* and whatever a tool of the harness left in the background.              *)
(***************************************************************************)
EXTENDS Sequences

CONSTANTS Instructions

Processes == {"runner", "harness", "tool"}

VARIABLES
  phase,        \* of execute(): "idle", "waiting", "exited", "returned", "dead"
  aborted,      \* the caller's AbortSignal has fired
  started,      \* "start" has been sent
  connected,    \* child.connected, as the service sees it
  overdue,      \* the deadline has passed
  termination,  \* "completed", "cancelled" or "timeout"
  scanFailed,   \* scanError is set
  watch,        \* watchdog: "quiet", "counting", "killing" or "failed"
  outcome,      \* the runner's outcome message, once handled
  exitOk,       \* the runner was seen to exit with code 0
  result,       \* what execute() resolved with
  receipt,      \* per instruction: the promise of instruct()
  toRunner,     \* messages in flight to the runner
  toService,    \* messages in flight to the service
  runner,       \* where the runner process is
  cancelled,    \* the runner's aborter has fired
  spliced,      \* the prompt reached the session's inbox
  runFailed,    \* harness.run() failed or was never called
  accepting,    \* the runner passes instructions on
  prompting,    \* instructions given to harness.client.prompt()
  taken,        \* history: instructions the harness took
  others        \* living processes beside the runner

callVars == <<phase, aborted, started, connected>>
watchVars == <<overdue, termination, scanFailed, watch>>
endVars == <<outcome, exitOk, result>>
runnerVars == <<runner, cancelled, spliced, runFailed, accepting, prompting,
                taken, others>>
serviceVars == <<callVars, watchVars, endVars, receipt>>
vars == <<serviceVars, toRunner, toService, runnerVars>>

Gone == {"none", "exited", "crashed"}
Alive == others \union (IF runner \in Gone THEN {} ELSE {"runner"})

NoOutcome == [type |-> "none"]
Outcome(receives, fails, closes) ==
  [type |-> "outcome", receipt |-> receives, error |-> fails, closed |-> closes]
Answer(i, ok) == [type |-> "instruction-result", id |-> i, ok |-> ok]
NoResult == [termination |-> "none"]

Init ==
  /\ phase = "idle" /\ aborted \in BOOLEAN /\ started = FALSE
  /\ connected = FALSE /\ overdue = FALSE /\ termination = "completed"
  /\ scanFailed = FALSE /\ watch = "quiet"
  /\ outcome = NoOutcome /\ exitOk = FALSE /\ result = NoResult
  /\ receipt = [i \in Instructions |-> "none"]
  /\ toRunner = << >> /\ toService = << >>
  /\ runner = "none" /\ cancelled = FALSE /\ spliced = FALSE
  /\ runFailed = FALSE
  /\ accepting = FALSE /\ prompting = {} /\ taken = {} /\ others = {}

Waiting == {i \in Instructions : receipt[i] = "waiting"}
Reject(S) == receipt' = [i \in Instructions |->
                           IF i \in S THEN "rejected" ELSE receipt[i]]

-----------------------------------------------------------------------------
(***************************************************************************)
(* The service.                                                            *)
(***************************************************************************)
\* execute() up to its first await; fork() may fail to start anything.
Begin ==
  /\ phase = "idle"
  /\ phase' = "waiting"
  /\ \E spawned \in BOOLEAN :
       /\ connected' = spawned
       /\ runner' = IF spawned THEN "booting" ELSE "crashed"
  /\ UNCHANGED <<aborted, started, watchVars, endVars, receipt, toRunner,
                 toService, cancelled, spliced, runFailed, accepting,
                 prompting, taken, others>>

SendCancel ==
  toRunner' = IF connected THEN Append(toRunner, [type |-> "cancel"])
                           ELSE toRunner

\* The caller aborts.  Before execute() and after the exit nothing listens.
Abort ==
  /\ phase \in {"idle", "waiting", "exited"} /\ ~aborted
  /\ aborted' = TRUE
  /\ IF phase = "waiting" THEN termination' = "cancelled" /\ SendCancel
                          ELSE UNCHANGED <<termination, toRunner>>
  /\ UNCHANGED <<phase, started, connected, overdue, scanFailed, watch,
                 endVars, receipt, toService, runnerVars>>

Instruct(i) ==
  /\ phase # "dead" /\ receipt[i] = "none"
  /\ IF phase = "waiting" /\ connected
       THEN /\ receipt' = [receipt EXCEPT ![i] = "waiting"]
            /\ toRunner' = Append(toRunner, [type |-> "instruction", id |-> i])
       ELSE /\ Reject({i})
            /\ UNCHANGED toRunner
  /\ UNCHANGED <<callVars, watchVars, endVars, toService, runnerVars>>

\* Fifteen seconds without an answer, or the send itself failed.
ReceiptTimeout(i) ==
  /\ phase = "waiting" /\ receipt[i] = "waiting"
  /\ Reject({i})
  /\ UNCHANGED <<callVars, watchVars, endVars, toRunner, toService,
                 runnerVars>>

\* The periodic scan, or what the controller does with its answer, throws.
ScanFails ==
  /\ phase \in {"waiting", "exited"} /\ ~scanFailed
  /\ scanFailed' = TRUE
  /\ UNCHANGED <<callVars, overdue, termination, watch, endVars, receipt,
                 toRunner, toService, runnerVars>>

DeadlinePasses ==
  /\ phase = "waiting" /\ ~overdue
  /\ overdue' = TRUE
  /\ UNCHANGED <<callVars, termination, scanFailed, watch, endVars, receipt,
                 toRunner, toService, runnerVars>>

\* Fault: a run past its deadline is left to end by itself.
MustDieUnlessLate == termination = "cancelled" \/ scanFailed
MustDie == termination # "completed" \/ scanFailed

\* One tick of the watchdog that has something to do.
Tick ==
  LET expires == overdue /\ termination = "completed"
  IN /\ phase = "waiting"
     /\ expires \/ (watch = "quiet" /\ MustDie)
     /\ IF expires THEN termination' = "timeout" /\ SendCancel
                   ELSE UNCHANGED <<termination, toRunner>>
     /\ UNCHANGED <<callVars, overdue, scanFailed, endVars, receipt, toService,
                    runnerVars>>
     /\ watch' = IF watch = "quiet" /\ MustDie' THEN "counting" ELSE watch

\* Four seconds after a cancellation: terminate(), once.  It may throw.
TickKills ==
  /\ phase = "waiting" /\ watch = "counting"
  /\ \/ watch' = "killing" /\ UNCHANGED scanFailed
     \/ watch' = "failed" /\ scanFailed' = TRUE
  /\ UNCHANGED <<callVars, overdue, termination, endVars, receipt, toRunner,
                 toService, runnerVars>>

\* A handler takes the head of the channel.
Handles(type) ==
  /\ phase \in {"waiting", "exited"}
  /\ toService # << >> /\ Head(toService).type = type
  /\ toService' = Tail(toService)

HandlerThrows ==
  /\ scanFailed' = TRUE
  /\ termination' = "cancelled" /\ SendCancel
  /\ UNCHANGED started

LetGo ==
  IF aborted THEN termination' = "cancelled" /\ SendCancel
             ELSE /\ toRunner' = Append(toRunner, [type |-> "start"])
                  /\ UNCHANGED termination

\* The runner is let go only after its identity has been recorded.
OnReady ==
  /\ Handles("ready")
  /\ \/ HandlerThrows
     \/ /\ ~scanFailed /\ runner \notin Gone
        /\ started' = TRUE
        /\ LetGo
        /\ UNCHANGED scanFailed
  /\ UNCHANGED <<phase, aborted, connected, overdue, watch, endVars, receipt,
                 runnerVars>>

OnInstructionResult ==
  /\ Handles("instruction-result")
  /\ LET m == Head(toService)
     IN receipt' = IF receipt[m.id] # "waiting" THEN receipt
                   ELSE [receipt EXCEPT ![m.id] =
                           IF m.ok THEN "received" ELSE "rejected"]
  /\ UNCHANGED <<callVars, watchVars, endVars, toRunner, runnerVars>>

OnOutcome ==
  /\ Handles("outcome")
  /\ outcome' = Head(toService)
  /\ UNCHANGED <<callVars, watchVars, exitOk, result, receipt, toRunner,
                 runnerVars>>

\* The controller, or the event log, refuses a notification.
NotificationFails ==
  /\ phase \in {"waiting", "exited"} /\ started /\ ~scanFailed
  /\ HandlerThrows
  /\ UNCHANGED <<phase, aborted, connected, overdue, watch, endVars, receipt,
                 toService, runnerVars>>

NoticeDisconnect ==
  /\ phase \in {"waiting", "exited"} /\ connected
  /\ runner \in {"reported"} \union Gone /\ toService = << >>
  /\ connected' = FALSE
  /\ UNCHANGED <<phase, aborted, started, watchVars, endVars, receipt,
                 toRunner, toService, runnerVars>>

\* Fault: promises of instructions are left to their timers, now cleared.
NoneLeft == {}
Unsettled == Waiting

\* The wait ends: with the exit of the runner, or with the error of a message
\* that could not be written to it.  Messages from it may still be unread.
Exit ==
  /\ phase = "waiting"
  /\ runner \in Gone \/ (runner = "reported" /\ toRunner # << >>)
  /\ phase' = "exited"
  /\ exitOk' = (runner = "exited")
  /\ Reject(Unsettled)
  /\ UNCHANGED <<aborted, started, connected, watchVars, outcome, result,
                 toRunner, toService, runnerVars>>

Cleanly == outcome # NoOutcome /\ outcome.closed
Received == outcome # NoOutcome /\ outcome.receipt
\* Fault: a reported success counts, however the runner ended.
TerminationAsReported ==
  IF termination # "completed" THEN termination
  ELSE IF outcome = NoOutcome THEN "error"
  ELSE IF outcome.error THEN "error"
  ELSE "completed"
Termination ==
  IF termination # "completed" THEN termination
  ELSE IF outcome = NoOutcome \/ ~exitOk THEN "error"
  ELSE IF outcome.error THEN "error"
  ELSE "completed"

\* The last terminate(), and the result.
Return ==
  /\ phase = "exited"
  /\ phase' = "returned"
  /\ \E survivors \in SUBSET Alive, throws \in BOOLEAN :
       /\ others' = survivors \ {"runner"}
       /\ runner' = IF "runner" \in Alive \ survivors THEN "crashed" ELSE runner
       /\ scanFailed' = (scanFailed \/ throws)
       /\ result' = [clean |-> ~scanFailed' /\ survivors = {} /\ Cleanly,
                     receipt |-> Received,
                     termination |-> Termination]
  /\ UNCHANGED <<aborted, started, connected, overdue, termination, watch,
                 outcome, exitOk, receipt, toRunner, toService, cancelled,
                 spliced, runFailed, accepting, prompting, taken>>

ServiceDies ==
  /\ phase \in {"waiting", "exited"}
  /\ phase' = "dead"
  /\ connected' = FALSE
  /\ UNCHANGED <<aborted, started, watchVars, endVars, receipt, toRunner,
                 toService, runnerVars>>

-----------------------------------------------------------------------------
(***************************************************************************)
(* The runner, its harness and what the harness starts.                    *)
(***************************************************************************)
\* Writing to a service that is gone is an uncaught error of the runner.
Say(m, then) ==
  IF phase = "dead" THEN runner' = "crashed" /\ UNCHANGED toService
                    ELSE runner' = then /\ toService' = Append(toService, m)

RunnerReady ==
  /\ runner = "booting"
  /\ Say([type |-> "ready"], "waiting")
  /\ UNCHANGED <<serviceVars, toRunner, cancelled, spliced, runFailed,
                 accepting, prompting, taken, others>>

\* Messages wait for the runner's listener; instructions are dropped unless a
\* run listens for them.
Reads(type) ==
  /\ runner \in {"waiting", "preparing", "running", "closing"}
  /\ phase # "dead"
  /\ toRunner # << >> /\ Head(toRunner).type = type
  /\ toRunner' = Tail(toRunner)

ReadCancel ==
  /\ Reads("cancel")
  /\ cancelled' = TRUE
  /\ UNCHANGED <<serviceVars, toService, runner, spliced, runFailed, accepting,
                 prompting, taken, others>>

ReadStart ==
  /\ Reads("start")
  /\ runner' = IF runner = "waiting" THEN "preparing" ELSE runner
  /\ UNCHANGED <<serviceVars, toService, cancelled, spliced, runFailed,
                 accepting, prompting, taken, others>>

ReadInstruction ==
  /\ Reads("instruction")
  /\ LET i == Head(toRunner).id
     IN \/ /\ runner # "running"
           /\ UNCHANGED <<runner, toService, prompting>>
        \/ /\ runner = "running" /\ accepting /\ ~cancelled
           /\ prompting' = prompting \union {i}
           /\ UNCHANGED <<runner, toService>>
        \/ /\ runner = "running" /\ ~(accepting /\ ~cancelled)
           /\ Say(Answer(i, FALSE), runner)
           /\ UNCHANGED prompting
  /\ UNCHANGED <<serviceVars, cancelled, spliced, runFailed, accepting, taken,
                 others>>

\* Patches and session history; a failure is an outcome without a harness.
PreflightFails ==
  /\ runner = "preparing"
  /\ Say(Outcome(FALSE, TRUE, TRUE), "reported")
  /\ UNCHANGED <<serviceVars, toRunner, cancelled, spliced, runFailed,
                 accepting, prompting, taken, others>>

RunStarts ==
  /\ runner = "preparing" /\ ~cancelled
  /\ runner' = "running"
  /\ others' = others \union {"harness"}
  /\ UNCHANGED <<serviceVars, toRunner, toService, cancelled, spliced,
                 runFailed, accepting, prompting, taken>>

RunRefused ==
  /\ runner = "preparing" /\ cancelled
  /\ runner' = "closing" /\ runFailed' = TRUE
  /\ UNCHANGED <<serviceVars, toRunner, toService, cancelled, spliced,
                 accepting, prompting, taken, others>>

InboxSpliced ==
  /\ runner = "running" /\ "harness" \in others /\ ~spliced /\ phase # "dead"
  /\ spliced' = TRUE /\ accepting' = TRUE
  /\ UNCHANGED <<serviceVars, toRunner, toService, runner, cancelled,
                 runFailed, prompting, taken, others>>

HarnessTakes(i) ==
  /\ i \in prompting /\ "harness" \in others
  /\ taken' = taken \union {i}
  /\ UNCHANGED <<serviceVars, toRunner, toService, runner, cancelled, spliced,
                 runFailed, accepting, prompting, others>>

\* The prompt call settles; only an admitted text has a message id.
PromptSettles(i) ==
  /\ i \in prompting /\ runner \in {"running", "closing"}
  /\ prompting' = prompting \ {i}
  /\ \E answered \in BOOLEAN :
       /\ answered => i \in taken
       /\ Say(Answer(i, answered), runner)
  /\ UNCHANGED <<serviceVars, toRunner, cancelled, spliced, runFailed,
                 accepting, taken, others>>

\* The turn ends, or fails because the harness is closed or gone.  From here on
\* nobody listens for instructions.
RunEnds ==
  /\ runner = "running"
  /\ runner' = "closing" /\ runFailed' \in BOOLEAN
  /\ accepting' = FALSE
  /\ UNCHANGED <<serviceVars, toRunner, toService, cancelled, spliced,
                 prompting, taken, others>>

\* harness.close() settles; a harness that cannot be closed is an error too.
HarnessCloses ==
  /\ runner = "closing"
  /\ \E closes \in BOOLEAN :
       /\ others' = IF closes THEN others \ {"harness"} ELSE others
       /\ Say(Outcome(spliced, runFailed \/ ~closes, closes), "reported")
  /\ UNCHANGED <<serviceVars, toRunner, cancelled, spliced, runFailed,
                 accepting, prompting, taken>>

\* Disconnected; a harness that could not be closed keeps the event loop busy.
RunnerExits ==
  /\ runner = "reported" /\ "harness" \notin others
  /\ runner' = "exited"
  /\ UNCHANGED <<serviceVars, toRunner, toService, cancelled, spliced,
                 runFailed, accepting, prompting, taken, others>>

\* Fault: a runner that was never let go only notes the disconnect.
OrphanAborts ==
  /\ phase = "dead" /\ runner \notin Gone /\ ~cancelled
  /\ cancelled' = TRUE
  /\ UNCHANGED <<serviceVars, toRunner, toService, runner, spliced, runFailed,
                 accepting, prompting, taken, others>>
\* The runner notices that the service is gone.
OrphanNotices ==
  /\ phase = "dead"
  /\ \/ /\ runner \in {"booting", "waiting"}
        /\ runner' = "crashed" /\ UNCHANGED cancelled
     \/ /\ runner \in {"preparing", "running", "closing"} /\ ~cancelled
        /\ cancelled' = TRUE /\ UNCHANGED runner
  /\ UNCHANGED <<serviceVars, toRunner, toService, spliced, runFailed,
                 accepting, prompting, taken, others>>

ToolStarts ==
  /\ "harness" \in others /\ "tool" \notin others
  /\ others' = others \union {"tool"}
  /\ UNCHANGED <<serviceVars, toRunner, toService, runner, cancelled, spliced,
                 runFailed, accepting, prompting, taken>>

\* A process ends by itself, by a crash or by a signal.
ProcessEnds(p) ==
  /\ p \in Alive
  /\ IF p = "runner" THEN runner' = "crashed" /\ UNCHANGED others
                     ELSE others' = others \ {p} /\ UNCHANGED runner
  /\ UNCHANGED <<serviceVars, toRunner, toService, cancelled, spliced,
                 runFailed, accepting, prompting, taken>>

-----------------------------------------------------------------------------
Handle == OnReady \/ OnInstructionResult \/ OnOutcome \/ NoticeDisconnect

Next ==
  \/ Begin \/ Abort \/ ScanFails \/ DeadlinePasses \/ Tick \/ TickKills
  \/ Handle \/ NotificationFails \/ Exit \/ Return \/ ServiceDies
  \/ RunnerReady \/ ReadCancel \/ ReadStart \/ ReadInstruction
  \/ PreflightFails \/ RunStarts \/ RunRefused \/ InboxSpliced
  \/ RunEnds \/ HarnessCloses \/ RunnerExits \/ OrphanNotices
  \/ ToolStarts \/ \E p \in Processes : ProcessEnds(p)
  \/ \E i \in Instructions :
       \/ Instruct(i) \/ ReceiptTimeout(i)
       \/ HarnessTakes(i) \/ PromptSettles(i)

Spec == Init /\ [][Next]_vars

(***************************************************************************)
(* Timers, events and the deadline come; a process that terminate() keeps  *)
(* signalling ends.  A runner that lost its service gets on with ending:   *)
(* the harness is told to close and gives up within its grace periods.     *)
(***************************************************************************)
Killed(p) == watch = "killing" /\ ProcessEnds(p)
Winds == phase = "dead" /\ (PreflightFails \/ RunRefused \/ HarnessCloses)
CutShort == phase = "dead" /\ cancelled /\ RunEnds

Fairness ==
  /\ WF_vars(DeadlinePasses) /\ WF_vars(Tick) /\ WF_vars(TickKills)
  /\ WF_vars(Exit) /\ WF_vars(Return)
  /\ \A p \in Processes : WF_vars(Killed(p))
  /\ \A i \in Instructions : WF_vars(ReceiptTimeout(i))
  /\ WF_vars(OrphanNotices) /\ WF_vars(Winds) /\ WF_vars(CutShort)
  /\ WF_vars(RunnerExits)

FairSpec == Spec /\ Fairness
=============================================================================
