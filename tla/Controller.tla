----------------------------- MODULE Controller -----------------------------
(***************************************************************************)
(* The ticket lifecycle of packages/core/src/controller.ts: prepare, run,  *)
(* instruct, cancel, verify, review, recover, archive, and the startup     *)
(* fence, for tickets that use external review (no review pool).           *)
(*                                                                         *)
(* One Node process serves every request on one event loop, so the code    *)
(* between two awaits is one atomic action.  What interleaves with it is   *)
(* other requests at every await, the processes of an operation (detached, *)
(* they outlive the controller), edits of the worktree by anybody, and a   *)
(* crash of the controller between any two transactions.                   *)
(***************************************************************************)
EXTENDS TicketRecord

CONSTANTS
  Tickets,
  Capacity    \* ControllerOptions.capacity, 1..32

ASSUME CapacityAssumption ==
  /\ IsFiniteSet(Tickets)
  /\ Capacity \in Nat \ {0}

VARIABLES
  record,      \* the durable TicketRecord of each ticket
  worktree,    \* the digest capture() would return now
  processes,   \* the markers with a live OS process
  operations,  \* this.operations: the closure running for the ticket
  awaiting,    \* instructions whose runtime.instruct() promise is pending
  handed       \* history: how often an instruction's text was handed to a
               \* runtime

vars == <<record, worktree, processes, operations, awaiting, handed>>
memory == <<operations, awaiting>>

(***************************************************************************)
(* A live operation.  stage is where a run's body stands: in the setup     *)
(* commands, in the baseline, about to launch, or awaiting the runtime     *)
(* (runtimeEntered).  batch is the captured `queued` list.  A recovery     *)
(* keeps the kind and digest of the continuation it was called with.       *)
(***************************************************************************)
Stages == {"none", "setup", "baseline", "launch", "runtime"}
ContinuationKinds == {"restart", "answer", "delivery"}

Operation ==
  [kind : {"none", "run", "verify", "recover"}, stage : Stages,
   abort : BOOLEAN, batch : SUBSET Instructions,
   continuation : ContinuationKinds \union {"none"},
   digest : OptionalSnapshot]

NoOperation ==
  [kind |-> "none", stage |-> "none", abort |-> FALSE, batch |-> {},
   continuation |-> "none", digest |-> NoSnapshot]
RunOperation(batch) ==
  [NoOperation EXCEPT !.kind = "run", !.stage = "setup", !.batch = batch]
VerifyOperation == [NoOperation EXCEPT !.kind = "verify"]
RecoverOperation(continuation, digest) ==
  [NoOperation EXCEPT !.kind = "recover", !.continuation = continuation,
                      !.digest = digest]

Live(t) == operations[t].kind # "none"
Running(t, stage) == operations[t].kind = "run" /\ operations[t].stage = stage

\* The tickets activeCount() counts.
ActiveTickets == {t \in Tickets : Live(t) \/ Owned(record[t])}
HasCapacity == Cardinality(ActiveTickets) < Capacity

\* Fault: only the operation map is asked, which a restart empties.
NotLive(t) == ~Live(t)
\* idle()
Idle(t) == ~Owned(record[t])
InScope(t) == worktree[t] \notin OutOfScope
HasProcesses(t, op) == op \in processes[t]

Update(t, r) == record' = [record EXCEPT ![t] = r]
Finish(t) == operations' = [operations EXCEPT ![t] = NoOperation]

Init ==
  /\ record = [t \in Tickets |-> NoRecord]
  /\ worktree \in [Tickets -> Snapshots \ OutOfScope]
  /\ processes = [t \in Tickets |-> {}]
  /\ operations = [t \in Tickets |-> NoOperation]
  /\ awaiting = [t \in Tickets |-> {}]
  /\ handed = [t \in Tickets |-> [i \in Instructions |-> 0]]

-----------------------------------------------------------------------------
(***************************************************************************)
(* prepare: a new ticket or the next revision.  The reservation and the    *)
(* outcome are two transactions of one synchronous call; the checkout, the *)
(* capture or a scope violation may fail it in between.                    *)
(***************************************************************************)
CanReserve(t) == Idle(t) /\ record[t].revision < MaxRevision

PrepareRevision(t) ==
  /\ CanReserve(t)
  /\ InScope(t)
  /\ Update(t, TicketPrepared(TicketReserved(record[t])))
  /\ UNCHANGED <<worktree, processes, memory, handed>>

PrepareRevisionBlocked(t) ==
  /\ CanReserve(t)
  /\ Update(t, TicketBlocked(TicketReserved(record[t])))
  /\ UNCHANGED <<worktree, processes, memory, handed>>

\* The same content again: completes an unfinished preparation, changes
\* nothing on a prepared record.
PrepareAgain(t) ==
  /\ Idle(t) /\ record[t].revision > 0
  /\ InScope(t) /\ ~record[t].prepared
  /\ Update(t, TicketPrepared(record[t]))
  /\ UNCHANGED <<worktree, processes, memory, handed>>

\* The same content again, and the capture throws or finds violations.
PrepareAgainBlocked(t) ==
  /\ Idle(t) /\ record[t].revision > 0
  /\ Update(t, TicketBlocked(record[t]))
  /\ UNCHANGED <<worktree, processes, memory, handed>>

Archive(t) ==
  /\ Idle(t) /\ record[t].revision > 0
  /\ Update(t, [record[t] EXCEPT !.archived = ~@])
  /\ UNCHANGED <<worktree, processes, memory, handed>>

-----------------------------------------------------------------------------
(***************************************************************************)
(* run: admission, then the asynchronous body up to attempt.settled.       *)
(***************************************************************************)
\* A pending answer or delivery-only continuation still matches what the
\* operator inspected, and no process of that attempt is left.
ContinuationBinds(t) ==
  LET r == record[t]
      n == LastAttempt(r)
  IN r.pending.kind # "none" =>
       /\ n > 0
       /\ r.pending.attempt = n
       /\ CurrentAttempt(r).revision = r.revision
       /\ worktree[t] = r.pending.snapshot
       /\ CurrentAttempt(r).cleanExit
       /\ ~HasProcesses(t, AttemptOp(n))

Run(t) ==
  LET r == record[t]
      next == LastAttempt(r) + 1
  IN /\ HasCapacity
     /\ Idle(t)
     /\ ~r.archived /\ r.prepared
     /\ r.state \in {"ready", "changes_requested"}
     /\ InScope(t)
     /\ ContinuationBinds(t)
     /\ LastAttempt(r) < MaxAttempts
     /\ Update(t, AttemptStarted(r))
     /\ operations' = [operations EXCEPT ![t] = RunOperation(Queued(r))]
     /\ processes' = [processes EXCEPT ![t] = @ \union {AttemptOp(next)}]
     /\ UNCHANGED <<worktree, awaiting, handed>>

\* Setup passed and stayed in scope.  The first attempt of a revision to get
\* here reserves the revision's baseline and starts its commands.
SetupPassed(t) ==
  LET r == record[t]
      op == AttemptOp(LastAttempt(r))
  IN /\ Running(t, "setup") /\ ~operations[t].abort
     /\ ~HasProcesses(t, op)
     /\ InScope(t)
     /\ IF NeedsBaseline(r)
        THEN /\ Update(t, BaselineReserved(r))
             /\ operations' = [operations EXCEPT ![t].stage = "baseline"]
             /\ processes' = [processes EXCEPT ![t] = @ \union {op}]
        ELSE /\ operations' = [operations EXCEPT ![t].stage = "launch"]
             /\ UNCHANGED <<record, processes>>
     /\ UNCHANGED <<worktree, awaiting, handed>>

\* A setup command failed (its processes are gone, or the body throws), the
\* setup left violations, or the setup of the baseline checkout failed.
BlockOnSetup(t) ==
  /\ \/ Running(t, "setup") /\ ~operations[t].abort
     \/ Running(t, "baseline")
  /\ ~HasProcesses(t, AttemptOp(LastAttempt(record[t])))
  /\ Update(t, SetupBlocked(record[t], worktree[t]))
  /\ Finish(t)
  /\ UNCHANGED <<worktree, processes, awaiting, handed>>

BaselineDone(t) ==
  /\ Running(t, "baseline") /\ ~operations[t].abort
  /\ ~HasProcesses(t, AttemptOp(LastAttempt(record[t])))
  /\ \E comparable \in BOOLEAN :
       Update(t, BaselineSettled(record[t], comparable))
  /\ operations' = [operations EXCEPT ![t].stage = "launch"]
  /\ UNCHANGED <<worktree, processes, awaiting, handed>>

\* The frozen snapshot of an answer or delivery-only attempt survived the
\* setup; the prompt, with the batch in it, goes to the runtime.
EnterRuntime(t) ==
  LET a == CurrentAttempt(record[t])
      op == AttemptOp(LastAttempt(record[t]))
  IN /\ Running(t, "launch")
     /\ a.mode # "fresh" => worktree[t] = a.from
     /\ operations' = [operations EXCEPT ![t].stage = "runtime"]
     /\ processes' = [processes EXCEPT ![t] = @ \union {op}]
     /\ handed' = [handed EXCEPT ![t] =
                     [i \in Instructions |->
                        IF i \in operations[t].batch THEN @[i] + 1 ELSE @[i]]]
     /\ UNCHANGED <<record, worktree, awaiting>>

\* Fault: a late notification is applied to whatever attempt is current.
ObserveLateReceipt(t) ==
  /\ LastAttempt(record[t]) > 0
  /\ Update(t, InboxSpliced(record[t], operations[t].batch))
  /\ UNCHANGED <<worktree, processes, memory, handed>>
\* The native inbox admitted the prompt.
ObserveReceipt(t) ==
  /\ Running(t, "runtime")
  /\ Update(t, InboxSpliced(record[t], operations[t].batch))
  /\ UNCHANGED <<worktree, processes, memory, handed>>

\* A native user/message of the primary session carried the instruction.
ObserveConsumption(t, i) ==
  LET r == record[t]
  IN /\ Running(t, "runtime")
     /\ r.instructions[i].attempt = LastAttempt(r)
     /\ r.instructions[i].revision = CurrentAttempt(r).revision
     /\ ~r.instructions[i].consumed
     /\ Update(t, InstructionConsumed(r, i))
     /\ UNCHANGED <<worktree, processes, memory, handed>>

\* runtime.execute() resolved.  Its exit handling rejected every pending
\* instruct() first, and cleanExit reports that terminate() found nobody.
Settle(t) ==
  LET r == record[t]
      op == AttemptOp(LastAttempt(r))
  IN /\ Running(t, "runtime")
     /\ awaiting[t] = {}
     /\ \E o \in Outcomes, digest \in {worktree[t], NoSnapshot} :
          /\ o.cleanExit => ~HasProcesses(t, op)
          /\ Update(t, AttemptSettled(r, operations[t].batch, o, digest))
     /\ Finish(t)
     /\ UNCHANGED <<worktree, processes, awaiting, handed>>

\* Anything in the body threw: an abort or a failed cleanup during setup or
\* baseline, a changed frozen snapshot, a rejected runtime.execute().
RunFails(t) ==
  /\ operations[t].kind = "run"
  /\ awaiting[t] = {}
  /\ Update(t, AttemptFailed(record[t], operations[t].stage = "runtime"))
  /\ Finish(t)
  /\ UNCHANGED <<worktree, processes, awaiting, handed>>

-----------------------------------------------------------------------------
(***************************************************************************)
(* cancel: aborts the live operation, whatever it is.                      *)
(***************************************************************************)
Abort(t) ==
  /\ Live(t) /\ ~operations[t].abort
  /\ operations' = [operations EXCEPT ![t].abort = TRUE]
  /\ UNCHANGED <<record, worktree, processes, awaiting, handed>>

Cancel(t) == Abort(t)

\* Refused unless every named instruction is received and unconsumed.
CancelIfUnconsumed(t, named) ==
  LET r == record[t]
  IN /\ named # {}
     /\ r.state = "running"
     /\ LastAttempt(r) > 0 /\ CurrentAttempt(r).revision = r.revision
     /\ r.active = AttemptOp(LastAttempt(r))
     /\ \A i \in named :
          /\ r.instructions[i].revision = r.revision
          /\ r.instructions[i].attempt = LastAttempt(r)
          /\ r.instructions[i].status = "received"
          /\ r.instructions[i].messageId
          /\ ~r.instructions[i].consumed
     /\ Abort(t)

-----------------------------------------------------------------------------
(***************************************************************************)
(* verify: controller-owned commands against the delivered snapshot.       *)
(***************************************************************************)
Verify(t) ==
  LET r == record[t]
      next == LastVerification(r) + 1
  IN /\ HasCapacity
     /\ Idle(t)
     /\ r.state = "awaiting_review"
     /\ CurrentAttempt(r).snapshot = worktree[t]
     /\ LastVerification(r) < MaxVerifications
     /\ Update(t, VerificationStarted(r, worktree[t]))
     /\ operations' = [operations EXCEPT ![t] = VerifyOperation]
     /\ processes' = [processes EXCEPT ![t] = @ \union {VerificationOp(next)}]
     /\ UNCHANGED <<worktree, awaiting, handed>>

VerifySettles(t) ==
  LET r == record[t]
  IN /\ operations[t].kind = "verify"
     /\ ~HasProcesses(t, VerificationOp(LastVerification(r)))
     /\ \E passed \in BOOLEAN :
          /\ passed => ~operations[t].abort
          /\ Update(t, VerificationSettled(r, worktree[t], passed))
     /\ Finish(t)
     /\ UNCHANGED <<worktree, processes, awaiting, handed>>

\* Setup failed or changed the snapshot, cleanup is uncertain, I/O failed.
VerifyFails(t) ==
  /\ operations[t].kind = "verify"
  /\ Update(t, VerificationFailed(record[t]))
  /\ Finish(t)
  /\ UNCHANGED <<worktree, processes, awaiting, handed>>

\* The external reviewer's decision on the inspected snapshot.
RecordReview(t, verdict) ==
  LET r == record[t]
  IN /\ Idle(t)
     /\ r.state = "awaiting_review"
     /\ CurrentAttempt(r).snapshot = worktree[t]
     /\ verdict = "accept" =>
          /\ InScope(t)
          /\ CurrentAttempt(r).cleanExit
          /\ CurrentAttempt(r).delivery \in {"submitted", "hedged"}
          /\ VerifiedUnchanged(r, worktree[t])
     /\ Update(t, ReviewRecorded(r, worktree[t], verdict))
     /\ UNCHANGED <<worktree, processes, memory, handed>>

-----------------------------------------------------------------------------
(***************************************************************************)
(* recover: an explicit continuation of a blocked or interrupted ticket.   *)
(***************************************************************************)
\* Fault: an answer is accepted for a delivery the source has moved past.
AnswerableStale(t) ==
  LET a == CurrentAttempt(record[t])
  IN /\ record[t].state = "blocked"
     /\ a.revision = record[t].revision
     /\ a.cleanExit /\ a.receipt /\ a.completed /\ a.delivery = "blocked"
\* answer: an unchanged, cleanly blocked delivery with no uncertain text.
Answerable(t) ==
  LET r == record[t]
      a == CurrentAttempt(r)
  IN /\ r.state = "blocked"
     /\ a.revision = r.revision
     /\ a.cleanExit /\ a.receipt /\ a.completed
     /\ a.delivery = "blocked"
     /\ a.snapshot = worktree[t]
     /\ \A i \in Instructions :
          r.instructions[i].attempt = LastAttempt(r) =>
            r.instructions[i].status \notin {"sending", "uncertain"}
     /\ ~HasProcesses(t, AttemptOp(LastAttempt(r)))

\* delivery: a clean attempt without a valid delivery, and nothing the
\* worker was told is unread or uncertain.
Reportable(t) ==
  LET r == record[t]
      a == CurrentAttempt(r)
  IN /\ r.state = "interrupted"
     /\ a.revision = r.revision
     /\ a.receipt /\ a.cleanExit
     /\ a.delivery = "none"
     /\ a.snapshot = worktree[t] /\ InScope(t)
     /\ \A i \in Instructions :
          r.instructions[i].revision = r.revision =>
            /\ r.instructions[i].status
                 \notin {"queued", "sending", "uncertain"}
            /\ ~ /\ r.instructions[i].attempt = LastAttempt(r)
                 /\ r.instructions[i].status = "received"
                 /\ ~r.instructions[i].consumed
     /\ ~HasProcesses(t, AttemptOp(LastAttempt(r)))

Recover(t, kind) ==
  LET r == record[t]
  IN /\ ~Live(t)
     /\ Recoverable(r, kind)
     /\ LastAttempt(r) > 0
     /\ kind = "answer" => Answerable(t)
     /\ kind = "delivery" => Reportable(t)
     /\ Owned(r) \/ HasCapacity
     /\ Update(t, RecoveryStarted(r))
     /\ operations' =
          [operations EXCEPT ![t] = RecoverOperation(kind, worktree[t])]
     /\ UNCHANGED <<worktree, processes, awaiting, handed>>

\* Fault: only attempts are accounted for, not verifications.
AttemptsGone(t) ==
  \A n \in AttemptIds : ~HasProcesses(t, AttemptOp(n))
\* terminate() found no survivor of any operation without a clean exit.
WritersGone(t) == processes[t] \cap UncleanOps(record[t]) = {}

\* terminate() accounted for every operation without a clean exit, and the
\* worktree is still what the operator inspected.
RecoverySettles(t) ==
  LET r == record[t]
      op == operations[t]
  IN /\ op.kind = "recover"
     /\ WritersGone(t)
     /\ r.active = Recovery
     /\ worktree[t] = op.digest
     /\ Update(t, TicketRecovered(r, op.continuation, op.digest))
     /\ Finish(t)
     /\ UNCHANGED <<worktree, processes, awaiting, handed>>

RecoveryFails(t) ==
  /\ operations[t].kind = "recover"
  /\ Update(t, RecoveryFailed(record[t]))
  /\ Finish(t)
  /\ UNCHANGED <<worktree, processes, awaiting, handed>>

-----------------------------------------------------------------------------
(***************************************************************************)
(* instruct: queued for the next attempt, or sent to the running one.      *)
(***************************************************************************)
Instructable(t, i) ==
  /\ record[t].instructions[i].status = "absent"
  /\ record[t].revision > 0 /\ ~record[t].archived
  /\ record[t].pending.kind # "delivery"

QueueInstruction(t, i) ==
  /\ Instructable(t, i)
  /\ record[t].state \in {"ready", "changes_requested"}
  /\ Idle(t)
  /\ Update(t, InstructionRecorded(record[t], i, FALSE))
  /\ UNCHANGED <<worktree, processes, memory, handed>>

SendInstruction(t, i) ==
  /\ Instructable(t, i)
  /\ record[t].state = "running"
  /\ LastAttempt(record[t]) > 0
  /\ CurrentAttempt(record[t]).mode # "delivery"
  /\ CurrentAttempt(record[t]).receipt
  /\ Update(t, InstructionRecorded(record[t], i, TRUE))
  /\ awaiting' = [awaiting EXCEPT ![t] = @ \union {i}]
  /\ handed' = [handed EXCEPT ![t][i] = @ + 1]
  /\ UNCHANGED <<worktree, processes, operations>>

SendReceived(t, i) ==
  /\ i \in awaiting[t]
  /\ Update(t, InstructionReceived(record[t], i))
  /\ awaiting' = [awaiting EXCEPT ![t] = @ \ {i}]
  /\ UNCHANGED <<worktree, processes, operations, handed>>

\* A lost receipt, a timeout, or the runtime exited first.
SendUncertain(t, i) ==
  /\ i \in awaiting[t]
  /\ Update(t, InstructionUncertain(record[t], i))
  /\ awaiting' = [awaiting EXCEPT ![t] = @ \ {i}]
  /\ UNCHANGED <<worktree, processes, operations, handed>>

-----------------------------------------------------------------------------
(***************************************************************************)
(* The environment.                                                        *)
(***************************************************************************)
\* The worker, a command or a person edits the checkout.
EditWorktree(t) ==
  /\ \E digest \in Snapshots : worktree' = [worktree EXCEPT ![t] = digest]
  /\ UNCHANGED <<record, processes, memory, handed>>

\* The last process with the marker is gone: it ended or terminate() got it.
ProcessesExit(t) ==
  /\ \E op \in processes[t] :
       processes' = [processes EXCEPT ![t] = @ \ {op}]
  /\ UNCHANGED <<record, worktree, memory, handed>>

\* The controller dies and a new one fences what the store shows as owned.
\* Detached processes live on.
Restarted(records) ==
  /\ record' = [t \in Tickets |-> Fenced(records[t])]
  /\ operations' = [t \in Tickets |-> NoOperation]
  /\ awaiting' = [t \in Tickets |-> {}]
  /\ UNCHANGED <<worktree, processes, handed>>

Restart == Restarted(record)

\* ... or dies between the reservation and the outcome of a preparation.
RestartInPrepare(t) ==
  /\ CanReserve(t)
  /\ Restarted([record EXCEPT ![t] = TicketReserved(record[t])])

-----------------------------------------------------------------------------
TicketStep(t) ==
  \/ PrepareRevision(t) \/ PrepareRevisionBlocked(t)
  \/ PrepareAgain(t) \/ PrepareAgainBlocked(t) \/ Archive(t)
  \/ Run(t) \/ SetupPassed(t) \/ BlockOnSetup(t) \/ BaselineDone(t)
  \/ EnterRuntime(t) \/ ObserveReceipt(t) \/ Settle(t) \/ RunFails(t)
  \/ Cancel(t)
  \/ Verify(t) \/ VerifySettles(t) \/ VerifyFails(t)
  \/ \E verdict \in Verdicts : RecordReview(t, verdict)
  \/ \E kind \in ContinuationKinds : Recover(t, kind)
  \/ RecoverySettles(t) \/ RecoveryFails(t)
  \/ EditWorktree(t) \/ ProcessesExit(t) \/ RestartInPrepare(t)

InstructionStep(t) ==
  \/ \E named \in SUBSET Instructions : CancelIfUnconsumed(t, named)
  \/ \E i \in Instructions :
       \/ ObserveConsumption(t, i)
       \/ QueueInstruction(t, i) \/ SendInstruction(t, i)
       \/ SendReceived(t, i) \/ SendUncertain(t, i)

Next == Restart \/ \E t \in Tickets : TicketStep(t) \/ InstructionStep(t)

Spec == Init /\ [][Next]_vars
=============================================================================
