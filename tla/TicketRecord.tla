---------------------------- MODULE TicketRecord ----------------------------
(***************************************************************************)
(* The durable TicketRecord of the controller and what each journalled     *)
(* store.update does to it.  Every operator below without a CONSTANT       *)
(* declaration maps a record (and the values the handler read) to the      *)
(* record the same SQLite transaction writes; it is named after the        *)
(* journal event of that transaction ("attempt.started", ...).             *)
(*                                                                         *)
(* Identities are positions: attempt n is r.attempts[n], verification n    *)
(* is r.verifications[n], so a fresh uid() is one more than the length.    *)
(* Digests are members of Snapshots; the ticket's scope is OutOfScope, the *)
(* digests whose capture() reports violations.                             *)
(*                                                                         *)
(* A definition whose comment starts with "Fault:" is a plausible bug; no  *)
(* specification uses it.  PROJECT.json names the property it breaks when  *)
(* it replaces the definition that follows it.                             *)
(***************************************************************************)
EXTENDS Integers, Sequences, FiniteSets

CONSTANTS
  Snapshots,         \* the digests a worktree can have
  OutOfScope,        \* those with scope violations
  NoSnapshot,        \* no snapshot recorded
  Instructions,      \* client-chosen instruction ids
  MaxRevision,       \* bound on ticket revisions
  MaxAttempts,       \* bound on attempts of a ticket
  MaxVerifications   \* bound on verifications of a ticket

ASSUME SnapshotAssumption ==
  /\ OutOfScope \subseteq Snapshots
  /\ NoSnapshot \notin Snapshots

ASSUME BoundAssumption ==
  /\ MaxRevision \in Nat
  /\ MaxAttempts \in Nat
  /\ MaxVerifications \in Nat

(***************************************************************************)
(* Field values.                                                           *)
(***************************************************************************)
Revisions == 1 .. MaxRevision
AttemptIds == 1 .. MaxAttempts
OptionalSnapshot == Snapshots \union {NoSnapshot}

\* "absent": the store has no row for the ticket yet.
TicketStates == {"absent", "ready", "running", "awaiting_review",
                 "changes_requested", "accepted", "blocked", "interrupted"}

\* A fresh prompt, an answer in a resumed session, a delivery-only report.
Modes == {"fresh", "answer", "delivery"}

\* "hedged" is outcome submitted with a non-empty blockers list.
Deliveries == {"none", "submitted", "hedged", "blocked"}
Verdicts == {"accept", "request_changes", "blocked"}

(***************************************************************************)
(* An owner of the worktree: the value of activeOperation, and the marker  *)
(* the processes of that operation carry.                                  *)
(***************************************************************************)
Owner(kind, n) == [kind |-> kind, n |-> n]
Nobody == Owner("none", 0)
AttemptOp(n) == Owner("attempt", n)
VerificationOp(n) == Owner("verification", n)
Recovery == Owner("recovery", 0)
Uncertain == Owner("uncertain", 0)
WriterOps == {AttemptOp(n) : n \in AttemptIds}
               \union {VerificationOp(n) : n \in 1 .. MaxVerifications}
Owners == WriterOps \union {Nobody, Recovery, Uncertain}

Attempt ==
  [revision : Revisions, mode : Modes, from : OptionalSnapshot,
   receipt : BOOLEAN,    \* inbox receipt observed
   completed : BOOLEAN,  \* finishReason and termination both "completed"
   cleanExit : BOOLEAN, snapshot : OptionalSnapshot, delivery : Deliveries]

Verification ==
  [attempt : AttemptIds, revision : Revisions, before : Snapshots,
   after : OptionalSnapshot, passed : BOOLEAN, cleanExit : BOOLEAN]

\* Only r.reviews.at(-1) is kept; verdict "none" is an empty list.
Review ==
  [attempt : 0 .. MaxAttempts, revision : 0 .. MaxRevision,
   snapshot : OptionalSnapshot, verdict : Verdicts \union {"none"}]
NoReview == [attempt |-> 0, revision |-> 0, snapshot |-> NoSnapshot,
             verdict |-> "none"]

\* pendingAnswer and pendingDelivery: at most one of them is ever present.
Pending == [kind : {"none", "answer", "delivery"},
            attempt : 0 .. MaxAttempts, snapshot : OptionalSnapshot]
NoPending == [kind |-> "none", attempt |-> 0, snapshot |-> NoSnapshot]

Instruction ==
  [status : {"absent", "queued", "sending", "received", "uncertain"},
   revision : 0 .. MaxRevision, attempt : 0 .. MaxAttempts,
   messageId : BOOLEAN,  \* the runtime's message id is known
   consumed : BOOLEAN]
NoInstruction == [status |-> "absent", revision |-> 0, attempt |-> 0,
                  messageId |-> FALSE, consumed |-> FALSE]

\* The verification baseline of a revision: reserved once, by one attempt.
Baseline == [status : {"unset", "reserved", "comparable"},
             attempt : 0 .. MaxAttempts]
NoBaseline == [status |-> "unset", attempt |-> 0]

Record ==
  [revision : 0 .. MaxRevision, state : TicketStates,
   prepared : BOOLEAN, archived : BOOLEAN,
   attempts : Seq(Attempt), verifications : Seq(Verification),
   review : Review, active : Owners,
   interrupted : {"none", "execution", "verification"},
   pending : Pending, instructions : [Instructions -> Instruction],
   baselines : [Revisions -> Baseline]]

NoRecord ==
  [revision |-> 0, state |-> "absent", prepared |-> FALSE, archived |-> FALSE,
   attempts |-> << >>, verifications |-> << >>, review |-> NoReview,
   active |-> Nobody, interrupted |-> "none", pending |-> NoPending,
   instructions |-> [i \in Instructions |-> NoInstruction],
   baselines |-> [v \in Revisions |-> NoBaseline]]

(***************************************************************************)
(* Reading a record.                                                       *)
(***************************************************************************)
LastAttempt(r) == Len(r.attempts)
LastVerification(r) == Len(r.verifications)
CurrentAttempt(r) == r.attempts[LastAttempt(r)]
Owned(r) == r.active # Nobody

\* The attempts and verifications whose process cleanup is not proven.
UncleanOps(r) ==
  {AttemptOp(n) : n \in {m \in DOMAIN r.attempts : ~r.attempts[m].cleanExit}}
    \union
  {VerificationOp(n) :
     n \in {m \in DOMAIN r.verifications : ~r.verifications[m].cleanExit}}

\* Instructions a run takes into its prompt.
Queued(r) == {i \in Instructions : /\ r.instructions[i].status = "queued"
                                   /\ r.instructions[i].revision = r.revision}

\* The verifications of the current attempt at the current revision.
ReviewedVerifications(r) ==
  {n \in DOMAIN r.verifications :
     /\ r.verifications[n].attempt = LastAttempt(r)
     /\ r.verifications[n].revision = r.revision}
\* Fault: any passing verification will do.
EverVerified(r, digest) ==
  \E n \in ReviewedVerifications(r) : r.verifications[n].passed
\* The newest of them passed on digest and left it unchanged.
VerifiedUnchanged(r, digest) ==
  \E n \in ReviewedVerifications(r) :
    /\ \A m \in ReviewedVerifications(r) : m <= n
    /\ r.verifications[n].passed
    /\ r.verifications[n].cleanExit
    /\ r.verifications[n].before = digest
    /\ r.verifications[n].after = digest

\* The attempt's instructions still waiting for a receipt return to the queue
RequeueSending(r) ==
  [i \in Instructions |->
     IF /\ r.instructions[i].status = "sending"
        /\ r.instructions[i].attempt = LastAttempt(r)
     THEN [r.instructions[i] EXCEPT !.status = "queued", !.attempt = 0]
     ELSE r.instructions[i]]

(***************************************************************************)
(* Ticket preparation.                                                     *)
(***************************************************************************)
\* "ticket.reserved": a new object, so pending continuations and the
\* interrupted operation are dropped while evidence is carried over.
TicketReserved(r) ==
  [r EXCEPT !.revision = @ + 1, !.state = "ready", !.prepared = FALSE,
            !.interrupted = "none", !.pending = NoPending]

\* "ticket.prepared"
TicketPrepared(r) == [r EXCEPT !.prepared = TRUE, !.state = "ready"]

\* "ticket.blocked"
TicketBlocked(r) == [r EXCEPT !.state = "blocked"]

(***************************************************************************)
(* Execution.                                                              *)
(***************************************************************************)
\* "attempt.started"
AttemptStarted(r) ==
  LET next == LastAttempt(r) + 1
      attempt == [revision |-> r.revision,
                  mode |-> IF r.pending.kind = "none" THEN "fresh"
                                                      ELSE r.pending.kind,
                  from |-> r.pending.snapshot, receipt |-> FALSE,
                  completed |-> FALSE, cleanExit |-> FALSE,
                  snapshot |-> NoSnapshot, delivery |-> "none"]
  IN [r EXCEPT !.attempts = Append(@, attempt),
               !.pending = NoPending,
               !.instructions =
                 [i \in Instructions |->
                    IF i \in Queued(r)
                    THEN [r.instructions[i] EXCEPT !.status = "sending",
                                                   !.attempt = next]
                    ELSE r.instructions[i]],
               !.active = AttemptOp(next),
               !.state = "running"]

\* "setup.blocked": block() of prepareEnvironment
SetupBlocked(r, digest) ==
  [r EXCEPT !.attempts[LastAttempt(r)] =
              [@ EXCEPT !.snapshot = digest, !.cleanExit = TRUE],
            !.instructions = RequeueSending(r),
            !.state = "blocked",
            !.active = Nobody]

NeedsBaseline(r) == r.baselines[r.revision].status = "unset"

\* "verification.baseline": the reservation, then its final outcome
BaselineReserved(r) ==
  [r EXCEPT !.baselines[r.revision] =
     [status |-> "reserved", attempt |-> LastAttempt(r)]]
BaselineSettled(r, comparable) ==
  [r EXCEPT !.baselines[r.revision].status =
     IF comparable THEN "comparable" ELSE "reserved"]

\* "attempt.observed" for agent/inbox/spliced: the whole batch is received
InboxSpliced(r, batch) ==
  [r EXCEPT !.attempts[LastAttempt(r)].receipt = TRUE,
            !.instructions =
              [i \in Instructions |->
                 IF i \in batch
                 THEN [r.instructions[i] EXCEPT !.status = "received"]
                 ELSE r.instructions[i]]]

\* "instruction.consumed"
InstructionConsumed(r, i) ==
  [r EXCEPT !.instructions[i].consumed = TRUE]

(***************************************************************************)
(* "attempt.settled" with the runtime's outcome o and the snapshot taken   *)
(* after it (NoSnapshot when the capture failed).  o.faulty is a runtime   *)
(* or provider error; o.delivery is "none" unless a valid delivery was     *)
(* parsed after a normally completed turn.                                 *)
(***************************************************************************)
Outcomes ==
  {o \in [receipt : BOOLEAN, completed : BOOLEAN, cleanExit : BOOLEAN,
          faulty : BOOLEAN, delivery : Deliveries] :
     o.delivery # "none" => o.completed}

FrozenSourceChanged(a, digest) == a.mode = "delivery" /\ digest # a.from

\* Fault: a delivery-only attempt may edit the source it reports on.
CompleteUnfrozen(a, o, digest) ==
  /\ o.completed /\ o.receipt /\ o.cleanExit /\ ~o.faulty
  /\ digest \in Snapshots \ OutOfScope
  /\ o.delivery # "none"
Complete(a, o, digest) ==
  /\ o.completed /\ o.receipt /\ o.cleanExit /\ ~o.faulty
  /\ digest \in Snapshots \ OutOfScope
  /\ o.delivery # "none"
  /\ ~FrozenSourceChanged(a, digest)

SettledState(a, o, digest) ==
  IF digest \in OutOfScope THEN "blocked"
  ELSE IF ~Complete(a, o, digest) THEN "interrupted"
  ELSE IF o.delivery = "submitted" THEN "awaiting_review" ELSE "blocked"

\* Fault: the slot is released although processes may survive.
OwnerDropped(r, o) == Nobody
OwnerAfter(r, o) == IF o.cleanExit THEN Nobody ELSE r.active

AttemptSettled(r, batch, o, digest) ==
  LET a == CurrentAttempt(r)
  IN [r EXCEPT !.attempts[LastAttempt(r)] =
                 [a EXCEPT !.receipt = o.receipt, !.completed = o.completed,
                           !.cleanExit = o.cleanExit, !.snapshot = digest,
                           !.delivery = o.delivery],
               !.instructions =
                 [i \in Instructions |->
                    IF i \in batch /\ r.instructions[i].status = "sending"
                    THEN [r.instructions[i] EXCEPT
                            !.status = IF o.receipt THEN "received"
                                                    ELSE "uncertain"]
                    ELSE r.instructions[i]],
               !.active = OwnerAfter(r, o),
               !.state = SettledState(a, o, digest)]

\* Fault: the batch is requeued even after the runtime saw it.
AttemptFailedRequeued(r, runtimeEntered) ==
  [r EXCEPT !.state = "interrupted", !.instructions = RequeueSending(r)]
\* "attempt.failed": the body threw; ownership is kept for recovery
AttemptFailed(r, runtimeEntered) ==
  [r EXCEPT !.state = "interrupted",
            !.instructions = IF runtimeEntered THEN @ ELSE RequeueSending(r)]

(***************************************************************************)
(* Verification and review.                                                *)
(***************************************************************************)
\* "verification.started"
VerificationStarted(r, digest) ==
  [r EXCEPT !.active = VerificationOp(LastVerification(r) + 1),
            !.verifications =
              Append(@, [attempt |-> LastAttempt(r), revision |-> r.revision,
                         before |-> digest, after |-> NoSnapshot,
                         passed |-> FALSE, cleanExit |-> FALSE])]

\* "verification.settled"
VerificationSettled(r, digest, passed) ==
  LET last == LastVerification(r)
      changed == r.verifications[last].before # digest
  IN [r EXCEPT !.verifications[last] =
                 [@ EXCEPT !.after = digest, !.passed = passed /\ ~changed,
                           !.cleanExit = TRUE],
               !.active = Nobody,
               !.state = IF changed THEN "blocked" ELSE @]

\* "verification.failed"
VerificationFailed(r) ==
  [r EXCEPT !.state = "interrupted",
            !.interrupted = "verification",
            !.verifications[LastVerification(r)].passed = FALSE]

\* Fault: the verdict itself is stored as the state.
VerdictAsState(verdict) == verdict
\* "review.recorded"
ReviewState(verdict) ==
  CASE verdict = "accept" -> "accepted"
    [] verdict = "request_changes" -> "changes_requested"
    [] verdict = "blocked" -> "blocked"
ReviewRecorded(r, digest, verdict) ==
  [r EXCEPT !.review = [attempt |-> LastAttempt(r), revision |-> r.revision,
                        snapshot |-> digest, verdict |-> verdict],
            !.state = ReviewState(verdict)]

(***************************************************************************)
(* Recovery and startup fencing.                                           *)
(***************************************************************************)
\* Fault: a ready ticket can be recovered whatever it waits for.
RecoverableWhenReady(r, kind) ==
  r.state \in {"blocked", "interrupted", "ready"}
Recoverable(r, kind) ==
  \/ r.state \in {"blocked", "interrupted"}
  \/ kind = "restart" /\ r.state = "ready" /\ r.pending.kind = "delivery"

\* "recovery.started"
RecoveryStarted(r) == [r EXCEPT !.active = Recovery]

\* A verification was interrupted and the delivery it checked still stands.
ResumesVerification(r, digest) ==
  /\ r.interrupted = "verification"
  /\ CurrentAttempt(r).revision = r.revision
  /\ CurrentAttempt(r).receipt
  /\ CurrentAttempt(r).completed
  /\ CurrentAttempt(r).delivery = "submitted"
  /\ CurrentAttempt(r).snapshot = digest
  /\ digest \notin OutOfScope

\* "ticket.recovered" with the continuation's kind and snapshot digest
TicketRecovered(r, kind, digest) ==
  [r EXCEPT
     !.attempts =
       [n \in DOMAIN @ |-> [r.attempts[n] EXCEPT !.cleanExit = TRUE]],
     !.verifications =
       [n \in DOMAIN @ |-> [r.verifications[n] EXCEPT !.cleanExit = TRUE]],
     !.active = Nobody,
     !.pending = IF kind = "restart" THEN NoPending
                 ELSE [kind |-> kind, attempt |-> LastAttempt(r),
                       snapshot |-> digest],
     !.state = IF ResumesVerification(r, digest) THEN "awaiting_review"
                                                 ELSE "ready",
     !.interrupted = "none"]

\* "recovery.failed"
RecoveryFailed(r) == [r EXCEPT !.active = Uncertain]

\* Fault: the startup fence keeps the state it finds.
FencedInPlace(r) ==
  IF Owned(r) THEN [r EXCEPT !.active = Uncertain] ELSE r
\* "execution.interrupted": what a starting controller does to an owned
\* ticket; a ticket nobody owns is left alone
Fenced(r) ==
  IF ~Owned(r) THEN r
  ELSE [r EXCEPT
          !.instructions =
            [i \in Instructions |->
               IF r.instructions[i].status = "sending"
               THEN [r.instructions[i] EXCEPT !.status = "uncertain"]
               ELSE r.instructions[i]],
          !.interrupted =
            IF @ # "none" THEN @
            ELSE IF r.active.kind = "verification" THEN "verification"
            ELSE "execution",
          !.active = Uncertain,
          !.state = "interrupted"]

(***************************************************************************)
(* Instructions.                                                           *)
(***************************************************************************)
\* "instruction.recorded": queued on an idle ticket, sending on a live one
InstructionRecorded(r, i, live) ==
  [r EXCEPT !.instructions[i] =
     [status |-> IF live THEN "sending" ELSE "queued",
      revision |-> r.revision,
      attempt |-> IF live THEN LastAttempt(r) ELSE 0,
      messageId |-> FALSE, consumed |-> FALSE]]

\* "instruction.received"
InstructionReceived(r, i) ==
  [r EXCEPT !.instructions[i].status = "received",
            !.instructions[i].messageId = TRUE]

\* "instruction.uncertain"
InstructionUncertain(r, i) == [r EXCEPT !.instructions[i].status = "uncertain"]
=============================================================================
