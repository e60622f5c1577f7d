-------------------------- MODULE ControllerProofs --------------------------
(***************************************************************************)
(* Machine-checked proofs about the ticket lifecycle, for every number of  *)
(* tickets, every capacity and every value of the other constants.         *)
(***************************************************************************)
EXTENDS ControllerProperties, FiniteSetTheorems, SequenceTheorems, TLAPS

(***************************************************************************)
(* Part 1.  Every transaction of TicketRecord maps typed records to typed  *)
(* records.                                                                *)
(***************************************************************************)
Typed(r) ==
  /\ r \in Record
  /\ LastAttempt(r) <= MaxAttempts
  /\ LastVerification(r) <= MaxVerifications

\* Replacing an element of a sequence keeps its type and length.
LEMMA ReplaceInSeq ==
  ASSUME NEW S, NEW s \in Seq(S), NEW n \in 1 .. Len(s), NEW e \in S
  PROVE  /\ [s EXCEPT ![n] = e] \in Seq(S)
         /\ Len([s EXCEPT ![n] = e]) = Len(s)
BY ExceptSeq

\* A function on 1 .. n is a sequence of length n.
LEMMA FunctionIsSeq ==
  ASSUME NEW S, NEW n \in Nat, NEW f \in [1 .. n -> S]
  PROVE  f \in Seq(S) /\ Len(f) = n
OBVIOUS

\* The current attempt and verification are typed when they exist.
LEMMA CurrentTyped ==
  ASSUME NEW r, Typed(r)
  PROVE  /\ LastAttempt(r) \in 0 .. MaxAttempts
         /\ LastVerification(r) \in 0 .. MaxVerifications
         /\ LastAttempt(r) > 0 =>
              /\ LastAttempt(r) \in DOMAIN r.attempts
              /\ r.attempts[LastAttempt(r)] \in Attempt
         /\ LastVerification(r) > 0 =>
              /\ LastVerification(r) \in DOMAIN r.verifications
              /\ r.verifications[LastVerification(r)] \in Verification
BY BoundAssumption DEF Typed, Record, LastAttempt, LastVerification

LEMMA NoRecordTyped == Typed(NoRecord)
BY BoundAssumption
   DEF Typed, Record, NoRecord, LastAttempt, LastVerification, TicketStates,
       Review, NoReview, Owners, Nobody, Pending, NoPending, Instruction,
       NoInstruction, Baseline, NoBaseline, OptionalSnapshot

LEMMA TicketReservedTyped ==
  ASSUME NEW r, Typed(r), r.revision < MaxRevision
  PROVE  Typed(TicketReserved(r))
<1>1. r.revision + 1 \in 0 .. MaxRevision
  BY BoundAssumption DEF Typed, Record
<1>2. NoPending \in Pending
  BY BoundAssumption DEF NoPending, Pending, OptionalSnapshot
<1> QED
  BY <1>1, <1>2
     DEF Typed, Record, TicketReserved, LastAttempt, LastVerification,
         TicketStates

LEMMA TicketStateTyped ==
  ASSUME NEW r, Typed(r)
  PROVE  /\ Typed(TicketPrepared(r)) /\ Typed(TicketBlocked(r))
         /\ Typed(RecoveryStarted(r)) /\ Typed(RecoveryFailed(r))
BY DEF Typed, Record, TicketPrepared, TicketBlocked, RecoveryStarted,
       RecoveryFailed, LastAttempt, LastVerification, TicketStates, Owners,
       Recovery, Uncertain

\* Updating some instructions of a typed record, one by one.
LEMMA InstructionFieldsTyped ==
  ASSUME NEW x \in Instruction
  PROVE  /\ \A s \in {"queued", "sending", "received", "uncertain"} :
              [x EXCEPT !.status = s] \in Instruction
         /\ \A n \in 0 .. MaxAttempts, s \in {"queued", "sending"} :
              [x EXCEPT !.status = s, !.attempt = n] \in Instruction
         /\ [x EXCEPT !.consumed = TRUE] \in Instruction
         /\ [x EXCEPT !.status = "received", !.messageId = TRUE]
              \in Instruction
BY DEF Instruction

LEMMA RequeueSendingTyped ==
  ASSUME NEW r, Typed(r)
  PROVE  RequeueSending(r) \in [Instructions -> Instruction]
<1> SUFFICES ASSUME NEW i \in Instructions
             PROVE  RequeueSending(r)[i] \in Instruction
  BY DEF RequeueSending
<1>1. r.instructions[i] \in Instruction
  BY DEF Typed, Record
<1>2. [r.instructions[i] EXCEPT !.status = "queued", !.attempt = 0]
        \in Instruction
  <2>1. 0 \in 0 .. MaxAttempts
    BY BoundAssumption
  <2> QED
    BY <1>1, <2>1, InstructionFieldsTyped
<1> QED
  BY <1>1, <1>2 DEF RequeueSending

LEMMA AttemptStartedTyped ==
  ASSUME NEW r, Typed(r), LastAttempt(r) < MaxAttempts, r.revision > 0
  PROVE  Typed(AttemptStarted(r))
<1> DEFINE next == LastAttempt(r) + 1
           attempt == [revision |-> r.revision,
                       mode |-> IF r.pending.kind = "none" THEN "fresh"
                                                           ELSE r.pending.kind,
                       from |-> r.pending.snapshot, receipt |-> FALSE,
                       completed |-> FALSE, cleanExit |-> FALSE,
                       snapshot |-> NoSnapshot, delivery |-> "none"]
           instr == [i \in Instructions |->
                       IF i \in Queued(r)
                       THEN [r.instructions[i] EXCEPT !.status = "sending",
                                                      !.attempt = next]
                       ELSE r.instructions[i]]
<1>1. next \in AttemptIds
  BY CurrentTyped, BoundAssumption DEF AttemptIds
<1>2. attempt \in Attempt
  BY BoundAssumption
     DEF Typed, Record, Attempt, Revisions, Modes, Pending, OptionalSnapshot,
         Deliveries
<1>3. /\ Append(r.attempts, attempt) \in Seq(Attempt)
      /\ Len(Append(r.attempts, attempt)) = next
  BY <1>2 DEF Typed, Record, LastAttempt
<1>4. instr \in [Instructions -> Instruction]
  <2> SUFFICES ASSUME NEW i \in Instructions
               PROVE  instr[i] \in Instruction
    OBVIOUS
  <2>1. r.instructions[i] \in Instruction
    BY DEF Typed, Record
  <2>2. next \in 0 .. MaxAttempts
    BY <1>1 DEF AttemptIds
  <2>3. [r.instructions[i] EXCEPT !.status = "sending", !.attempt = next]
          \in Instruction
    BY <2>1, <2>2, InstructionFieldsTyped
  <2> QED
    BY <2>1, <2>3
<1>5. AttemptOp(next) \in Owners
  BY <1>1 DEF Owners, WriterOps
<1>6. NoPending \in Pending
  BY BoundAssumption DEF NoPending, Pending, OptionalSnapshot
<1> HIDE DEF next, attempt, instr
<1>7. AttemptStarted(r) =
        [r EXCEPT !.attempts = Append(r.attempts, attempt),
                  !.pending = NoPending, !.instructions = instr,
                  !.active = AttemptOp(next), !.state = "running"]
  BY DEF AttemptStarted, next, attempt, instr
<1>8. AttemptStarted(r) \in Record
  BY <1>3, <1>4, <1>5, <1>6, <1>7 DEF Typed, Record, TicketStates
<1>9. /\ LastAttempt(AttemptStarted(r)) = next
      /\ LastVerification(AttemptStarted(r)) = LastVerification(r)
  BY <1>3, <1>7 DEF Typed, Record, LastAttempt, LastVerification
<1> QED
  BY <1>1, <1>8, <1>9 DEF Typed, AttemptIds

\* Replacing the current attempt: the attempts stay typed, none is added.
LEMMA ReplaceAttempt ==
  ASSUME NEW r, Typed(r), LastAttempt(r) > 0, NEW a \in Attempt
  PROVE  LET attempts == [r.attempts EXCEPT ![LastAttempt(r)] = a]
         IN attempts \in Seq(Attempt) /\ Len(attempts) = LastAttempt(r)
<1>1. r.attempts \in Seq(Attempt) /\ LastAttempt(r) \in 1 .. Len(r.attempts)
  BY CurrentTyped DEF Typed, Record, LastAttempt
<1> QED
  BY <1>1, ReplaceInSeq DEF LastAttempt

LEMMA ReplaceVerification ==
  ASSUME NEW r, Typed(r), LastVerification(r) > 0, NEW v \in Verification
  PROVE  LET vs == [r.verifications EXCEPT ![LastVerification(r)] = v]
         IN vs \in Seq(Verification) /\ Len(vs) = LastVerification(r)
<1>1. /\ r.verifications \in Seq(Verification)
      /\ LastVerification(r) \in 1 .. Len(r.verifications)
  BY CurrentTyped DEF Typed, Record, LastVerification
<1> QED
  BY <1>1, ReplaceInSeq DEF LastVerification

LEMMA SetupBlockedTyped ==
  ASSUME NEW r, Typed(r), LastAttempt(r) > 0, NEW digest \in Snapshots
  PROVE  Typed(SetupBlocked(r, digest))
<1> DEFINE a == [r.attempts[LastAttempt(r)] EXCEPT !.snapshot = digest,
                                                   !.cleanExit = TRUE]
           attempts == [r.attempts EXCEPT ![LastAttempt(r)] = a]
<1>1. a \in Attempt
  BY CurrentTyped DEF Attempt, OptionalSnapshot
<1>2. attempts \in Seq(Attempt) /\ Len(attempts) = LastAttempt(r)
  BY <1>1, ReplaceAttempt
<1>3. SetupBlocked(r, digest) =
        [r EXCEPT !.attempts = attempts, !.instructions = RequeueSending(r),
                  !.state = "blocked", !.active = Nobody]
  BY DEF SetupBlocked, Typed, Record
<1> HIDE DEF attempts
<1>4. SetupBlocked(r, digest) \in Record
  <2>1. RequeueSending(r) \in [Instructions -> Instruction]
    BY RequeueSendingTyped
  <2>2. Nobody \in Owners
    BY DEF Owners
  <2> QED
    BY <1>2, <1>3, <2>1, <2>2 DEF Typed, Record, TicketStates
<1>5. /\ LastAttempt(SetupBlocked(r, digest)) = LastAttempt(r)
      /\ LastVerification(SetupBlocked(r, digest)) = LastVerification(r)
  BY <1>2, <1>3 DEF Typed, Record, LastAttempt, LastVerification
<1> QED
  BY <1>4, <1>5 DEF Typed

LEMMA BaselineTyped ==
  ASSUME NEW r, Typed(r), r.revision > 0, LastAttempt(r) > 0
  PROVE  /\ Typed(BaselineReserved(r))
         /\ \A comparable \in BOOLEAN : Typed(BaselineSettled(r, comparable))
<1>1. r.revision \in Revisions /\ r.baselines[r.revision] \in Baseline
  BY BoundAssumption DEF Typed, Record, Revisions
<1>2. [status |-> "reserved", attempt |-> LastAttempt(r)] \in Baseline
  BY CurrentTyped DEF Baseline
<1>3. \A s \in {"reserved", "comparable"} :
        [r.baselines[r.revision] EXCEPT !.status = s] \in Baseline
  BY <1>1 DEF Baseline
<1>4. \A b \in Baseline :
        Typed([r EXCEPT !.baselines = [r.baselines EXCEPT ![r.revision] = b]])
  BY <1>1 DEF Typed, Record, LastAttempt, LastVerification
<1>5. Typed(BaselineReserved(r))
  BY <1>2, <1>4 DEF BaselineReserved
<1>6. ASSUME NEW comparable \in BOOLEAN
      PROVE  Typed(BaselineSettled(r, comparable))
  <2> DEFINE b == [r.baselines[r.revision] EXCEPT
                     !.status = IF comparable THEN "comparable"
                                              ELSE "reserved"]
  <2>1. b \in Baseline
    BY <1>3
  <2>2. BaselineSettled(r, comparable) =
          [r EXCEPT !.baselines = [r.baselines EXCEPT ![r.revision] = b]]
    BY <1>1 DEF BaselineSettled
  <2> QED
    BY <1>4, <2>1, <2>2
<1> QED
  BY <1>5, <1>6

\* Replacing the instructions of a record by typed ones.
LEMMA InstructionsTyped ==
  ASSUME NEW r, Typed(r), NEW is \in [Instructions -> Instruction]
  PROVE  Typed([r EXCEPT !.instructions = is])
BY DEF Typed, Record, LastAttempt, LastVerification

LEMMA OneInstructionTyped ==
  ASSUME NEW r, Typed(r), NEW i \in Instructions, NEW x \in Instruction
  PROVE  Typed([r EXCEPT !.instructions = [r.instructions EXCEPT ![i] = x]])
<1>1. [r.instructions EXCEPT ![i] = x] \in [Instructions -> Instruction]
  BY DEF Typed, Record
<1> QED
  BY <1>1, InstructionsTyped

LEMMA InstructionEventsTyped ==
  ASSUME NEW r, Typed(r), NEW i \in Instructions
  PROVE  /\ Typed(InstructionConsumed(r, i))
         /\ Typed(InstructionReceived(r, i))
         /\ Typed(InstructionUncertain(r, i))
         /\ \A live \in BOOLEAN : Typed(InstructionRecorded(r, i, live))
<1>1. r.instructions[i] \in Instruction
  BY DEF Typed, Record
<1>2. Typed(InstructionConsumed(r, i))
  <2>1. [r.instructions[i] EXCEPT !.consumed = TRUE] \in Instruction
    BY <1>1, InstructionFieldsTyped
  <2> QED
    BY <2>1, OneInstructionTyped DEF InstructionConsumed
<1>3. Typed(InstructionReceived(r, i))
  <2> DEFINE x == [r.instructions[i] EXCEPT !.status = "received",
                                            !.messageId = TRUE]
  <2>1. x \in Instruction
    BY <1>1, InstructionFieldsTyped
  <2>2. InstructionReceived(r, i) =
          [r EXCEPT !.instructions = [r.instructions EXCEPT ![i] = x]]
    BY <1>1 DEF InstructionReceived, Instruction, Typed, Record
  <2> QED
    BY <2>1, <2>2, OneInstructionTyped
<1>4. Typed(InstructionUncertain(r, i))
  <2>1. [r.instructions[i] EXCEPT !.status = "uncertain"] \in Instruction
    BY <1>1, InstructionFieldsTyped
  <2> QED
    BY <2>1, OneInstructionTyped DEF InstructionUncertain
<1>5. ASSUME NEW live \in BOOLEAN PROVE Typed(InstructionRecorded(r, i, live))
  <2> DEFINE x == [status |-> IF live THEN "sending" ELSE "queued",
                   revision |-> r.revision,
                   attempt |-> IF live THEN LastAttempt(r) ELSE 0,
                   messageId |-> FALSE, consumed |-> FALSE]
  <2>1. x \in Instruction
    <3>1. LastAttempt(r) \in 0 .. MaxAttempts /\ r.revision \in 0 .. MaxRevision
      BY CurrentTyped DEF Typed, Record
    <3>2. 0 \in 0 .. MaxAttempts
      BY BoundAssumption
    <3> QED
      BY <3>1, <3>2 DEF Instruction
  <2> QED
    BY <2>1, OneInstructionTyped DEF InstructionRecorded
<1> QED
  BY <1>2, <1>3, <1>4, <1>5

\* Replacing the attempts of a record by as many typed ones.
LEMMA AttemptsTyped ==
  ASSUME NEW r, Typed(r), NEW as \in Seq(Attempt), Len(as) = LastAttempt(r)
  PROVE  Typed([r EXCEPT !.attempts = as])
BY DEF Typed, Record, LastAttempt, LastVerification

LEMMA VerificationsTyped ==
  ASSUME NEW r, Typed(r), NEW vs \in Seq(Verification),
         Len(vs) = LastVerification(r)
  PROVE  Typed([r EXCEPT !.verifications = vs])
BY DEF Typed, Record, LastAttempt, LastVerification

\* Replacing owner, state or interrupted operation by typed values.
WithOwner(r, o, s) == [r EXCEPT !.active = o, !.state = s]
WithInterrupted(r, s, k) == [r EXCEPT !.state = s, !.interrupted = k]

LEMMA WithOwnerTyped ==
  ASSUME NEW r, Typed(r), NEW o \in Owners, NEW s \in TicketStates
  PROVE  Typed(WithOwner(r, o, s))
BY DEF WithOwner, Typed, Record, LastAttempt, LastVerification

LEMMA WithInterruptedTyped ==
  ASSUME NEW r, Typed(r), NEW s \in TicketStates,
         NEW k \in {"none", "execution", "verification"}
  PROVE  Typed(WithInterrupted(r, s, k))
BY DEF WithInterrupted, Typed, Record, LastAttempt, LastVerification

LEMMA InboxSplicedTyped ==
  ASSUME NEW r, Typed(r), LastAttempt(r) > 0, NEW batch
  PROVE  Typed(InboxSpliced(r, batch))
<1> DEFINE a == [r.attempts[LastAttempt(r)] EXCEPT !.receipt = TRUE]
           as == [r.attempts EXCEPT ![LastAttempt(r)] = a]
           is == [i \in Instructions |->
                    IF i \in batch
                    THEN [r.instructions[i] EXCEPT !.status = "received"]
                    ELSE r.instructions[i]]
           q == [r EXCEPT !.attempts = as]
<1>1. a \in Attempt
  BY CurrentTyped DEF Attempt
<1>2. as \in Seq(Attempt) /\ Len(as) = LastAttempt(r)
  BY <1>1, ReplaceAttempt
<1>3. is \in [Instructions -> Instruction]
  BY InstructionFieldsTyped DEF Typed, Record
<1>4. InboxSpliced(r, batch) = [q EXCEPT !.instructions = is]
  BY DEF InboxSpliced, Typed, Record
<1> HIDE DEF as, is
<1>5. Typed(q)
  BY <1>2, AttemptsTyped
<1> HIDE DEF q
<1> QED
  BY <1>3, <1>4, <1>5, InstructionsTyped

LEMMA AttemptSettledTyped ==
  ASSUME NEW r, Typed(r), LastAttempt(r) > 0, NEW batch,
         NEW o \in Outcomes, NEW digest \in OptionalSnapshot
  PROVE  Typed(AttemptSettled(r, batch, o, digest))
<1> DEFINE c == CurrentAttempt(r)
           a == [c EXCEPT !.receipt = o.receipt, !.completed = o.completed,
                          !.cleanExit = o.cleanExit, !.snapshot = digest,
                          !.delivery = o.delivery]
           as == [r.attempts EXCEPT ![LastAttempt(r)] = a]
           is == [i \in Instructions |->
                    IF i \in batch /\ r.instructions[i].status = "sending"
                    THEN [r.instructions[i] EXCEPT
                            !.status = IF o.receipt THEN "received"
                                                    ELSE "uncertain"]
                    ELSE r.instructions[i]]
           p == [r EXCEPT !.attempts = as]
           q == [p EXCEPT !.instructions = is]
<1>1. a \in Attempt
  BY CurrentTyped DEF Attempt, CurrentAttempt, Outcomes
<1>2. as \in Seq(Attempt) /\ Len(as) = LastAttempt(r)
  BY <1>1, ReplaceAttempt
<1>3. is \in [Instructions -> Instruction]
  BY InstructionFieldsTyped DEF Typed, Record
<1>4. AttemptSettled(r, batch, o, digest) =
        WithOwner(q, OwnerAfter(r, o), SettledState(c, o, digest))
  BY DEF AttemptSettled, WithOwner, Typed, Record
<1> HIDE DEF as, is
<1>5. Typed(q)
  <2>1. Typed(p)
    BY <1>2, AttemptsTyped
  <2> HIDE DEF p
  <2> QED
    BY <1>3, <2>1, InstructionsTyped
<1>6. OwnerAfter(r, o) \in Owners
  BY DEF OwnerAfter, Owners, Typed, Record
<1>7. SettledState(c, o, digest) \in TicketStates
  BY DEF SettledState, TicketStates
<1> HIDE DEF c, q
<1> QED
  BY <1>4, <1>5, <1>6, <1>7, WithOwnerTyped

LEMMA AttemptFailedTyped ==
  ASSUME NEW r, Typed(r), NEW entered \in BOOLEAN
  PROVE  Typed(AttemptFailed(r, entered))
<1>1. RequeueSending(r) \in [Instructions -> Instruction]
  BY RequeueSendingTyped
<1> QED
  BY <1>1
     DEF AttemptFailed, Typed, Record, LastAttempt, LastVerification,
         TicketStates

LEMMA VerificationStartedTyped ==
  ASSUME NEW r, Typed(r), LastAttempt(r) > 0, r.revision > 0,
         LastVerification(r) < MaxVerifications, NEW digest \in Snapshots
  PROVE  Typed(VerificationStarted(r, digest))
<1> DEFINE next == LastVerification(r) + 1
           v == [attempt |-> LastAttempt(r), revision |-> r.revision,
                 before |-> digest, after |-> NoSnapshot,
                 passed |-> FALSE, cleanExit |-> FALSE]
           vs == Append(r.verifications, v)
<1>1. next \in 1 .. MaxVerifications
  BY CurrentTyped, BoundAssumption
<1>2. VerificationOp(next) \in Owners
  BY <1>1 DEF Owners, WriterOps
<1>3. v \in Verification
  <2>1. LastAttempt(r) \in AttemptIds
    BY CurrentTyped, BoundAssumption DEF AttemptIds
  <2>2. r.revision \in Revisions
    BY BoundAssumption DEF Typed, Record, Revisions
  <2> QED
    BY <2>1, <2>2 DEF Verification, OptionalSnapshot
<1>4. vs \in Seq(Verification) /\ Len(vs) = next
  BY <1>3 DEF Typed, Record, LastVerification
<1>5. VerificationStarted(r, digest) =
        [r EXCEPT !.active = VerificationOp(next), !.verifications = vs]
  BY DEF VerificationStarted
<1> HIDE DEF next, vs
<1>6. VerificationStarted(r, digest) \in Record
  BY <1>2, <1>4, <1>5 DEF Typed, Record
<1>7. /\ LastAttempt(VerificationStarted(r, digest)) = LastAttempt(r)
      /\ LastVerification(VerificationStarted(r, digest)) = next
  BY <1>4, <1>5 DEF Typed, Record, LastAttempt, LastVerification
<1> QED
  BY <1>1, <1>6, <1>7 DEF Typed

LEMMA VerificationSettledTyped ==
  ASSUME NEW r, Typed(r), LastVerification(r) > 0, NEW passed \in BOOLEAN,
         NEW digest \in Snapshots
  PROVE  Typed(VerificationSettled(r, digest, passed))
<1> DEFINE last == r.verifications[LastVerification(r)]
           changed == last.before # digest
           v == [last EXCEPT !.after = digest,
                             !.passed = passed /\ ~changed,
                             !.cleanExit = TRUE]
           vs == [r.verifications EXCEPT ![LastVerification(r)] = v]
           s == IF changed THEN "blocked" ELSE r.state
           q == [r EXCEPT !.verifications = vs]
<1>1. v \in Verification
  <2>1. last \in Verification
    BY CurrentTyped
  <2>2. (passed /\ ~changed) \in BOOLEAN
    OBVIOUS
  <2> HIDE DEF last, changed
  <2> QED
    BY <2>1, <2>2 DEF Verification, OptionalSnapshot
<1>2. vs \in Seq(Verification) /\ Len(vs) = LastVerification(r)
  BY <1>1, ReplaceVerification
<1>3. s \in TicketStates
  BY DEF Typed, Record, TicketStates
<1>4. VerificationSettled(r, digest, passed) =
        WithOwner(q, Nobody, s)
  BY DEF VerificationSettled, WithOwner, Typed, Record
<1>5. Nobody \in Owners
  BY DEF Owners
<1> HIDE DEF vs, s
<1>6. Typed(q)
  BY <1>2, VerificationsTyped
<1> HIDE DEF q
<1> QED
  BY <1>3, <1>4, <1>5, <1>6, WithOwnerTyped

LEMMA VerificationFailedTyped ==
  ASSUME NEW r, Typed(r), LastVerification(r) > 0
  PROVE  Typed(VerificationFailed(r))
<1> DEFINE v == [r.verifications[LastVerification(r)] EXCEPT !.passed = FALSE]
           vs == [r.verifications EXCEPT ![LastVerification(r)] = v]
           q == [r EXCEPT !.verifications = vs]
<1>1. v \in Verification
  BY CurrentTyped DEF Verification
<1>2. vs \in Seq(Verification) /\ Len(vs) = LastVerification(r)
  BY <1>1, ReplaceVerification
<1>3. VerificationFailed(r) =
        WithInterrupted(q, "interrupted", "verification")
  BY DEF VerificationFailed, WithInterrupted, Typed, Record
<1>4. "interrupted" \in TicketStates
  BY DEF TicketStates
<1> HIDE DEF vs
<1>5. Typed(q)
  BY <1>2, VerificationsTyped
<1> HIDE DEF q
<1> QED
  BY <1>3, <1>4, <1>5, WithInterruptedTyped

LEMMA ReviewRecordedTyped ==
  ASSUME NEW r, Typed(r), NEW digest \in Snapshots, NEW verdict \in Verdicts
  PROVE  Typed(ReviewRecorded(r, digest, verdict))
<1> DEFINE review == [attempt |-> LastAttempt(r), revision |-> r.revision,
                      snapshot |-> digest, verdict |-> verdict]
<1>1. review \in Review
  BY CurrentTyped DEF Review, Typed, Record, OptionalSnapshot
<1>2. ReviewState(verdict) \in TicketStates
  BY DEF ReviewState, Verdicts, TicketStates
<1>3. ReviewRecorded(r, digest, verdict) =
        [r EXCEPT !.review = review, !.state = ReviewState(verdict)]
  BY DEF ReviewRecorded
<1> HIDE DEF review
<1> QED
  BY <1>1, <1>2, <1>3 DEF Typed, Record, LastAttempt, LastVerification

LEMMA TicketRecoveredTyped ==
  ASSUME NEW r, Typed(r), NEW kind \in ContinuationKinds \union {"none"},
         NEW digest \in OptionalSnapshot
  PROVE  Typed(TicketRecovered(r, kind, digest))
<1> DEFINE as == [n \in DOMAIN r.attempts |->
                    [r.attempts[n] EXCEPT !.cleanExit = TRUE]]
           vs == [n \in DOMAIN r.verifications |->
                    [r.verifications[n] EXCEPT !.cleanExit = TRUE]]
           p == IF kind = "restart" THEN NoPending
                ELSE [kind |-> kind, attempt |-> LastAttempt(r),
                      snapshot |-> digest]
           s == IF ResumesVerification(r, digest) THEN "awaiting_review"
                                                  ELSE "ready"
<1>1. as \in Seq(Attempt) /\ Len(as) = LastAttempt(r)
  <2>1. /\ r.attempts \in Seq(Attempt) /\ Len(r.attempts) \in Nat
        /\ DOMAIN r.attempts = 1 .. Len(r.attempts)
        /\ \A n \in DOMAIN r.attempts : r.attempts[n] \in Attempt
    BY DEF Typed, Record
  <2>2. \A a \in Attempt : [a EXCEPT !.cleanExit = TRUE] \in Attempt
    BY DEF Attempt
  <2>3. as \in [1 .. Len(r.attempts) -> Attempt]
    BY <2>1, <2>2
  <2> HIDE DEF as
  <2> QED
    BY <2>1, <2>3, FunctionIsSeq DEF LastAttempt
<1>2. vs \in Seq(Verification) /\ Len(vs) = LastVerification(r)
  <2>1. /\ r.verifications \in Seq(Verification) /\ Len(r.verifications) \in Nat
        /\ DOMAIN r.verifications = 1 .. Len(r.verifications)
        /\ \A n \in DOMAIN r.verifications : r.verifications[n] \in Verification
    BY DEF Typed, Record
  <2>2. \A v \in Verification : [v EXCEPT !.cleanExit = TRUE] \in Verification
    BY DEF Verification
  <2>3. vs \in [1 .. Len(r.verifications) -> Verification]
    BY <2>1, <2>2
  <2> HIDE DEF vs
  <2> QED
    BY <2>1, <2>3, FunctionIsSeq DEF LastVerification
<1>3. p \in Pending
  BY CurrentTyped, BoundAssumption
     DEF Pending, NoPending, ContinuationKinds, OptionalSnapshot
<1>4. s \in TicketStates
  BY DEF TicketStates
<1>5. Nobody \in Owners
  BY DEF Owners
<1>6. TicketRecovered(r, kind, digest) =
        [r EXCEPT !.attempts = as, !.verifications = vs, !.active = Nobody,
                  !.pending = p, !.state = s, !.interrupted = "none"]
  BY DEF TicketRecovered
<1> HIDE DEF as, vs, p, s
<1>7. TicketRecovered(r, kind, digest) \in Record
  BY <1>1, <1>2, <1>3, <1>4, <1>5, <1>6 DEF Typed, Record
<1>8. /\ LastAttempt(TicketRecovered(r, kind, digest)) = LastAttempt(r)
      /\ LastVerification(TicketRecovered(r, kind, digest)) =
           LastVerification(r)
  BY <1>1, <1>2, <1>6 DEF Typed, Record, LastAttempt, LastVerification
<1> QED
  BY <1>7, <1>8 DEF Typed

LEMMA FencedTyped ==
  ASSUME NEW r, Typed(r)
  PROVE  Typed(Fenced(r))
<1> DEFINE is == [i \in Instructions |->
                    IF r.instructions[i].status = "sending"
                    THEN [r.instructions[i] EXCEPT !.status = "uncertain"]
                    ELSE r.instructions[i]]
           k == IF r.interrupted # "none" THEN r.interrupted
                ELSE IF r.active.kind = "verification" THEN "verification"
                ELSE "execution"
           q == [r EXCEPT !.instructions = is]
<1>1. CASE ~Owned(r)
  BY <1>1 DEF Fenced
<1>2. CASE Owned(r)
  <2>1. is \in [Instructions -> Instruction]
    BY InstructionFieldsTyped DEF Typed, Record
  <2>2. k \in {"none", "execution", "verification"}
    BY DEF Typed, Record
  <2>3. Fenced(r) =
          WithOwner(WithInterrupted(q, "interrupted", k),
                    Uncertain, "interrupted")
    BY <1>2 DEF Fenced, WithOwner, WithInterrupted, Typed, Record
  <2>4. Uncertain \in Owners /\ "interrupted" \in TicketStates
    BY DEF Owners, TicketStates
  <2> HIDE DEF is, k
  <2>5. Typed(q)
    BY <2>1, InstructionsTyped
  <2> HIDE DEF q
  <2>6. Typed(WithInterrupted(q, "interrupted", k))
    BY <2>2, <2>4, <2>5, WithInterruptedTyped
  <2> QED
    BY <2>3, <2>4, <2>6, WithOwnerTyped
<1> QED
  BY <1>1, <1>2

-----------------------------------------------------------------------------
(***************************************************************************)
(* Part 2.  The inductive invariant.  SingleWriter is not inductive: that  *)
(* the next operation finds nobody in the worktree depends on what every   *)
(* earlier one left in the record.  TicketInv says, for one ticket, who    *)
(* the owner is for each kind of live operation, that an owner exists      *)
(* while any operation lacks a proven clean exit, that there is at most    *)
(* one such operation, and that only it can have processes.                *)
(***************************************************************************)
\* recover() accepts an explicit restart.
Restartable(r) ==
  /\ LastAttempt(r) > 0
  /\ \/ r.state \in {"blocked", "interrupted"}
     \/ r.state = "ready" /\ r.pending.kind = "delivery"

TicketInv(r, kind, ps) ==
  /\ Typed(r)
  /\ r.prepared => r.revision > 0
  /\ LastAttempt(r) > 0 => r.revision > 0
  /\ r.state = "awaiting_review" => LastAttempt(r) > 0
  /\ ~Owned(r) => UncleanOps(r) = {}
  /\ \A p, q \in UncleanOps(r) : p = q
  /\ ps \subseteq UncleanOps(r)
  /\ kind = "run" <=> r.state = "running"
  /\ kind = "run" => /\ LastAttempt(r) > 0
                     /\ r.active = AttemptOp(LastAttempt(r))
                     /\ UncleanOps(r) = {AttemptOp(LastAttempt(r))}
  /\ kind = "verify" => /\ LastVerification(r) > 0
                        /\ r.state = "awaiting_review"
                        /\ r.active = VerificationOp(LastVerification(r))
                        /\ UncleanOps(r) =
                             {VerificationOp(LastVerification(r))}
  /\ kind = "recover" => r.active = Recovery /\ Restartable(r)
  /\ kind = "none" /\ Owned(r) => Restartable(r)

IInv ==
  /\ TypeOK
  /\ \A t \in Tickets :
       TicketInv(record[t], operations[t].kind, processes[t])
  /\ CapacityRespected

-----------------------------------------------------------------------------
(***************************************************************************)
(* What each transaction does to the set of unclean operations.            *)
(***************************************************************************)
LEMMA Operators ==
  ASSUME NEW m, NEW n
  PROVE  /\ AttemptOp(m) = AttemptOp(n) <=> m = n
         /\ VerificationOp(m) = VerificationOp(n) <=> m = n
         /\ AttemptOp(m) # VerificationOp(n)
         /\ AttemptOp(m) \notin {Nobody, Recovery, Uncertain}
         /\ VerificationOp(m) \notin {Nobody, Recovery, Uncertain}
         /\ Nobody # Recovery /\ Nobody # Uncertain
BY DEF AttemptOp, VerificationOp, Nobody, Recovery, Uncertain, Owner

LEMMA UncleanMembers ==
  ASSUME NEW r
  PROVE  /\ \A n : AttemptOp(n) \in UncleanOps(r) <=>
                     n \in DOMAIN r.attempts /\ ~r.attempts[n].cleanExit
         /\ \A n : VerificationOp(n) \in UncleanOps(r) <=>
                     /\ n \in DOMAIN r.verifications
                     /\ ~r.verifications[n].cleanExit
         /\ \A p \in UncleanOps(r) :
              \/ \E n \in DOMAIN r.attempts : p = AttemptOp(n)
              \/ \E n \in DOMAIN r.verifications : p = VerificationOp(n)
BY Operators DEF UncleanOps

\* Every operation that starts leaves itself as the only unclean one.
LEMMA AppendedAttempt ==
  ASSUME NEW r, Typed(r), UncleanOps(r) = {}, NEW a, ~a.cleanExit, NEW s,
         s.attempts = Append(r.attempts, a), s.verifications = r.verifications
  PROVE  UncleanOps(s) = {AttemptOp(LastAttempt(r) + 1)}
<1>1. /\ DOMAIN s.attempts = 1 .. LastAttempt(r) + 1
      /\ s.attempts[LastAttempt(r) + 1] = a
      /\ \A n \in 1 .. LastAttempt(r) : s.attempts[n] = r.attempts[n]
      /\ DOMAIN r.attempts = 1 .. LastAttempt(r)
      /\ LastAttempt(r) \in Nat
  BY DEF Typed, Record, LastAttempt
<1>2. \A n \in DOMAIN s.attempts :
        ~s.attempts[n].cleanExit <=> n = LastAttempt(r) + 1
  <2>1. \A n \in 1 .. LastAttempt(r) : r.attempts[n].cleanExit
    BY <1>1, UncleanMembers
  <2> QED
    BY <1>1, <2>1
<1>3. \A n : VerificationOp(n) \notin UncleanOps(s)
  BY UncleanMembers
<1>4. AttemptOp(LastAttempt(r) + 1) \in UncleanOps(s)
  BY <1>1, <1>2, UncleanMembers
<1>5. ASSUME NEW p \in UncleanOps(s) PROVE p = AttemptOp(LastAttempt(r) + 1)
  BY <1>2, <1>3, UncleanMembers
<1> QED
  BY <1>4, <1>5

LEMMA AppendedVerification ==
  ASSUME NEW r, Typed(r), UncleanOps(r) = {}, NEW v, ~v.cleanExit, NEW s,
         s.verifications = Append(r.verifications, v), s.attempts = r.attempts
  PROVE  UncleanOps(s) = {VerificationOp(LastVerification(r) + 1)}
<1>1. /\ DOMAIN s.verifications = 1 .. LastVerification(r) + 1
      /\ s.verifications[LastVerification(r) + 1] = v
      /\ \A n \in 1 .. LastVerification(r) :
           s.verifications[n] = r.verifications[n]
      /\ DOMAIN r.verifications = 1 .. LastVerification(r)
      /\ LastVerification(r) \in Nat
  BY DEF Typed, Record, LastVerification
<1>2. \A n \in DOMAIN s.verifications :
        ~s.verifications[n].cleanExit <=> n = LastVerification(r) + 1
  <2>1. \A n \in 1 .. LastVerification(r) : r.verifications[n].cleanExit
    BY <1>1, UncleanMembers
  <2> QED
    BY <1>1, <2>1
<1>3. \A n : AttemptOp(n) \notin UncleanOps(s)
  BY UncleanMembers
<1>4. VerificationOp(LastVerification(r) + 1) \in UncleanOps(s)
  BY <1>1, <1>2, UncleanMembers
<1>5. ASSUME NEW p \in UncleanOps(s)
      PROVE  p = VerificationOp(LastVerification(r) + 1)
  <2>1. PICK n \in DOMAIN s.verifications : p = VerificationOp(n)
    BY <1>3, UncleanMembers
  <2> QED
    BY <1>2, <2>1, UncleanMembers
<1> QED
  BY <1>4, <1>5

\* The only unclean attempt or verification is replaced by a clean one.
LEMMA CleanedAttempt ==
  ASSUME NEW r, NEW n \in DOMAIN r.attempts, UncleanOps(r) = {AttemptOp(n)},
         NEW a, a.cleanExit, NEW s,
         s.attempts = [r.attempts EXCEPT ![n] = a],
         s.verifications = r.verifications
  PROVE  UncleanOps(s) = {}
<1>1. \A m \in DOMAIN r.attempts : m # n => r.attempts[m].cleanExit
  BY UncleanMembers, Operators
<1>2. \A m \in DOMAIN s.attempts : s.attempts[m].cleanExit
  BY <1>1
<1>3. \A m : VerificationOp(m) \notin UncleanOps(s)
  BY UncleanMembers, Operators
<1> QED
  BY <1>2, <1>3, UncleanMembers

LEMMA CleanedVerification ==
  ASSUME NEW r, NEW n \in DOMAIN r.verifications,
         UncleanOps(r) = {VerificationOp(n)},
         NEW v, v.cleanExit, NEW s,
         s.verifications = [r.verifications EXCEPT ![n] = v],
         s.attempts = r.attempts
  PROVE  UncleanOps(s) = {}
<1>1. \A m \in DOMAIN r.verifications : m # n => r.verifications[m].cleanExit
  BY UncleanMembers, Operators
<1>2. \A m \in DOMAIN s.verifications : s.verifications[m].cleanExit
  BY <1>1
<1>3. \A m : AttemptOp(m) \notin UncleanOps(s)
  BY UncleanMembers, Operators
<1> QED
  BY <1>2, <1>3, UncleanMembers

\* Replacing one attempt or verification without touching its clean exit.
LEMMA SameUncleanAttempt ==
  ASSUME NEW r, NEW n \in DOMAIN r.attempts,
         NEW a, a.cleanExit <=> r.attempts[n].cleanExit, NEW s,
         s.attempts = [r.attempts EXCEPT ![n] = a],
         s.verifications = r.verifications
  PROVE  UncleanOps(s) = UncleanOps(r)
<1>1. /\ DOMAIN s.attempts = DOMAIN r.attempts
      /\ \A m \in DOMAIN r.attempts :
           s.attempts[m].cleanExit <=> r.attempts[m].cleanExit
  OBVIOUS
<1> QED
  BY <1>1 DEF UncleanOps

LEMMA SameUncleanVerification ==
  ASSUME NEW r, NEW n \in DOMAIN r.verifications,
         NEW v, v.cleanExit <=> r.verifications[n].cleanExit, NEW s,
         s.verifications = [r.verifications EXCEPT ![n] = v],
         s.attempts = r.attempts
  PROVE  UncleanOps(s) = UncleanOps(r)
<1>1. /\ DOMAIN s.verifications = DOMAIN r.verifications
      /\ \A m \in DOMAIN r.verifications :
           s.verifications[m].cleanExit <=> r.verifications[m].cleanExit
  OBVIOUS
<1> QED
  BY <1>1 DEF UncleanOps

LEMMA SameUnclean ==
  ASSUME NEW r, NEW s, s.attempts = r.attempts,
         s.verifications = r.verifications
  PROVE  UncleanOps(s) = UncleanOps(r)
BY DEF UncleanOps

-----------------------------------------------------------------------------
(***************************************************************************)
(* TicketInv survives each transaction together with what its action does  *)
(* to the operation map and the processes.                                 *)
(***************************************************************************)
LEMMA NoRecordKeeps == TicketInv(NoRecord, "none", {})
<1>1. UncleanOps(NoRecord) = {}
  BY DEF UncleanOps, NoRecord
<1>2. ~Owned(NoRecord) /\ LastAttempt(NoRecord) = 0
  BY DEF Owned, NoRecord, LastAttempt
<1> QED
  BY <1>1, <1>2, NoRecordTyped DEF TicketInv, NoRecord

\* What an idle ticket is like.
LEMMA IdleTicket ==
  ASSUME NEW r, NEW kind, NEW ps, TicketInv(r, kind, ps), ~Owned(r)
  PROVE  /\ kind \notin {"run", "verify", "recover"}
         /\ r.state # "running"
         /\ UncleanOps(r) = {} /\ ps = {}
BY Operators DEF TicketInv, Owned

\* An idle ticket whose attempts, verifications and owner stay as they are.
LEMMA IdleKeeps ==
  ASSUME NEW r, NEW ps, TicketInv(r, "none", ps), ~Owned(r),
         NEW s, Typed(s),
         s.attempts = r.attempts, s.verifications = r.verifications,
         s.active = r.active, s.revision > 0, s.state # "running",
         s.state = "awaiting_review" => r.state = "awaiting_review"
  PROVE  TicketInv(s, "none", ps)
<1>1. UncleanOps(s) = UncleanOps(r)
  BY SameUnclean
<1>2. LastAttempt(s) = LastAttempt(r) /\ (Owned(s) <=> Owned(r))
  BY DEF LastAttempt, Owned
<1> QED
  BY <1>1, <1>2 DEF TicketInv

LEMMA ReservedKeeps ==
  ASSUME NEW r, NEW ps, TicketInv(r, "none", ps), ~Owned(r),
         r.revision < MaxRevision
  PROVE  /\ TicketInv(TicketReserved(r), "none", ps)
         /\ ~Owned(TicketReserved(r)) /\ TicketReserved(r).revision > 0
<1> DEFINE s == TicketReserved(r)
<1>1. Typed(r) /\ Typed(s)
  BY TicketReservedTyped DEF TicketInv
<1>2. /\ s.attempts = r.attempts /\ s.verifications = r.verifications
      /\ s.active = r.active /\ s.revision > 0 /\ s.state = "ready"
  BY <1>1 DEF TicketReserved, Typed, Record
<1> HIDE DEF s
<1>3. TicketInv(s, "none", ps)
  BY <1>1, <1>2, IdleKeeps
<1>4. ~Owned(s)
  BY <1>2 DEF Owned
<1> QED
  BY <1>2, <1>3, <1>4 DEF s

LEMMA PreparedKeeps ==
  ASSUME NEW r, NEW ps, TicketInv(r, "none", ps), ~Owned(r), r.revision > 0
  PROVE  /\ TicketInv(TicketPrepared(r), "none", ps)
         /\ TicketInv(TicketBlocked(r), "none", ps)
<1>1. Typed(r) /\ Typed(TicketPrepared(r)) /\ Typed(TicketBlocked(r))
  BY TicketStateTyped DEF TicketInv
<1>2. ASSUME NEW s \in {TicketPrepared(r), TicketBlocked(r)}
      PROVE  /\ s.attempts = r.attempts /\ s.verifications = r.verifications
             /\ s.active = r.active /\ s.revision = r.revision
             /\ s.state \in {"ready", "blocked"}
  BY <1>1 DEF TicketPrepared, TicketBlocked, Typed, Record
<1>3. TicketInv(TicketPrepared(r), "none", ps)
  BY <1>1, <1>2, IdleKeeps
<1>4. TicketInv(TicketBlocked(r), "none", ps)
  BY <1>1, <1>2, IdleKeeps
<1> QED
  BY <1>3, <1>4

LEMMA ArchivedKeeps ==
  ASSUME NEW r, NEW ps, TicketInv(r, "none", ps), ~Owned(r), r.revision > 0
  PROVE  TicketInv([r EXCEPT !.archived = ~@], "none", ps)
<1> DEFINE s == [r EXCEPT !.archived = ~@]
<1>1. Typed(r) /\ r.state # "running"
  BY IdleTicket DEF TicketInv
<1>2. Typed(s)
  BY <1>1 DEF Typed, Record, LastAttempt, LastVerification
<1>3. /\ s.attempts = r.attempts /\ s.verifications = r.verifications
      /\ s.active = r.active /\ s.revision = r.revision /\ s.state = r.state
  BY <1>1 DEF Typed, Record
<1> HIDE DEF s
<1>4. TicketInv(s, "none", ps)
  BY <1>1, <1>2, <1>3, IdleKeeps
<1> QED
  BY <1>4 DEF s

LEMMA ReviewKeeps ==
  ASSUME NEW r, NEW ps, TicketInv(r, "none", ps), ~Owned(r),
         r.state = "awaiting_review",
         NEW digest \in Snapshots, NEW verdict \in Verdicts
  PROVE  TicketInv(ReviewRecorded(r, digest, verdict), "none", ps)
<1> DEFINE s == ReviewRecorded(r, digest, verdict)
<1>1. Typed(r) /\ Typed(s) /\ r.revision > 0
  BY ReviewRecordedTyped DEF TicketInv
<1>2. /\ s.attempts = r.attempts /\ s.verifications = r.verifications
      /\ s.active = r.active /\ s.revision = r.revision
      /\ s.state = ReviewState(verdict)
  BY <1>1 DEF ReviewRecorded, Typed, Record
<1>3. ReviewState(verdict) \in {"accepted", "changes_requested", "blocked"}
  BY DEF ReviewState, Verdicts
<1> HIDE DEF s
<1>4. TicketInv(s, "none", ps)
  BY <1>1, <1>2, <1>3, IdleKeeps
<1> QED
  BY <1>4 DEF s

\* Transactions that touch instructions or baselines only.
LEMMA FieldsKeep ==
  ASSUME NEW r, NEW kind, NEW ps, TicketInv(r, kind, ps), NEW s, Typed(s),
         s.attempts = r.attempts, s.verifications = r.verifications,
         s.active = r.active, s.revision = r.revision, s.state = r.state,
         s.prepared = r.prepared, s.pending = r.pending
  PROVE  TicketInv(s, kind, ps)
<1>1. UncleanOps(s) = UncleanOps(r)
  BY SameUnclean
<1>2. /\ LastAttempt(s) = LastAttempt(r)
      /\ LastVerification(s) = LastVerification(r)
      /\ Owned(s) <=> Owned(r)
      /\ Restartable(s) <=> Restartable(r)
  BY DEF LastAttempt, LastVerification, Owned, Restartable
<1> QED
  BY <1>1, <1>2 DEF TicketInv

LEMMA InstructionKeeps ==
  ASSUME NEW r, NEW kind, NEW ps, TicketInv(r, kind, ps),
         NEW i \in Instructions
  PROVE  /\ TicketInv(InstructionConsumed(r, i), kind, ps)
         /\ TicketInv(InstructionReceived(r, i), kind, ps)
         /\ TicketInv(InstructionUncertain(r, i), kind, ps)
         /\ \A live \in BOOLEAN :
              TicketInv(InstructionRecorded(r, i, live), kind, ps)
<1> DEFINE events == {InstructionConsumed(r, i), InstructionReceived(r, i),
                      InstructionUncertain(r, i)}
                       \union {InstructionRecorded(r, i, live) :
                                 live \in BOOLEAN}
<1>1. Typed(r)
  BY DEF TicketInv
<1>2. ASSUME NEW s \in events
      PROVE  /\ s.attempts = r.attempts /\ s.verifications = r.verifications
             /\ s.active = r.active /\ s.revision = r.revision
             /\ s.state = r.state /\ s.prepared = r.prepared
             /\ s.pending = r.pending
  BY <1>1 DEF InstructionConsumed, InstructionReceived, InstructionUncertain,
              InstructionRecorded, Typed, Record
<1>3. ASSUME NEW s \in events PROVE Typed(s)
  BY <1>1, InstructionEventsTyped
<1> HIDE DEF events
<1>4. ASSUME NEW s \in events PROVE TicketInv(s, kind, ps)
  BY <1>2, <1>3, FieldsKeep
<1> QED
  BY <1>4 DEF events

LEMMA BaselineKeeps ==
  ASSUME NEW r, NEW ps, TicketInv(r, "run", ps)
  PROVE  /\ TicketInv(BaselineReserved(r), "run", ps)
         /\ \A comparable \in BOOLEAN :
              TicketInv(BaselineSettled(r, comparable), "run", ps)
<1> DEFINE events == {BaselineReserved(r)}
                       \union {BaselineSettled(r, c) : c \in BOOLEAN}
<1>1. Typed(r) /\ LastAttempt(r) > 0 /\ r.revision > 0
  BY DEF TicketInv
<1>2. ASSUME NEW s \in events
      PROVE  /\ s.attempts = r.attempts /\ s.verifications = r.verifications
             /\ s.active = r.active /\ s.revision = r.revision
             /\ s.state = r.state /\ s.prepared = r.prepared
             /\ s.pending = r.pending
  BY <1>1 DEF BaselineReserved, BaselineSettled, Typed, Record
<1>3. ASSUME NEW s \in events PROVE Typed(s)
  BY <1>1, BaselineTyped
<1> HIDE DEF events
<1>4. ASSUME NEW s \in events PROVE TicketInv(s, "run", ps)
  BY <1>2, <1>3, FieldsKeep
<1> QED
  BY <1>4 DEF events

LEMMA StartedKeeps ==
  ASSUME NEW r, NEW ps, TicketInv(r, "none", ps), ~Owned(r),
         LastAttempt(r) < MaxAttempts, r.prepared
  PROVE  TicketInv(AttemptStarted(r), "run",
                   ps \union {AttemptOp(LastAttempt(r) + 1)})
<1> DEFINE s == AttemptStarted(r)
           next == LastAttempt(r) + 1
           a == [revision |-> r.revision,
                 mode |-> IF r.pending.kind = "none" THEN "fresh"
                                                     ELSE r.pending.kind,
                 from |-> r.pending.snapshot, receipt |-> FALSE,
                 completed |-> FALSE, cleanExit |-> FALSE,
                 snapshot |-> NoSnapshot, delivery |-> "none"]
<1>1. Typed(r) /\ r.revision > 0 /\ UncleanOps(r) = {} /\ ps = {}
  BY IdleTicket DEF TicketInv
<1>2. Typed(s)
  BY <1>1, AttemptStartedTyped
<1>3. /\ s.attempts = Append(r.attempts, a)
      /\ s.verifications = r.verifications
      /\ s.active = AttemptOp(next) /\ s.revision = r.revision
      /\ s.state = "running" /\ s.prepared = r.prepared
  BY <1>1 DEF AttemptStarted, Typed, Record
<1>4. ~a.cleanExit
  OBVIOUS
<1>5. LastAttempt(s) = next /\ next > 0
  BY <1>1, <1>3 DEF Typed, Record, LastAttempt
<1> HIDE DEF s, a
<1>6. UncleanOps(s) = {AttemptOp(next)}
  BY <1>1, <1>3, <1>4, AppendedAttempt
<1>7. Owned(s)
  BY <1>3, Operators DEF Owned
<1> QED
  BY <1>1, <1>2, <1>3, <1>5, <1>6, <1>7 DEF TicketInv, s

LEMMA VerificationStartedKeeps ==
  ASSUME NEW r, NEW ps, TicketInv(r, "none", ps), ~Owned(r),
         LastVerification(r) < MaxVerifications, r.state = "awaiting_review",
         NEW digest \in Snapshots
  PROVE  TicketInv(VerificationStarted(r, digest), "verify",
                   ps \union {VerificationOp(LastVerification(r) + 1)})
<1> DEFINE s == VerificationStarted(r, digest)
           next == LastVerification(r) + 1
           v == [attempt |-> LastAttempt(r), revision |-> r.revision,
                 before |-> digest, after |-> NoSnapshot,
                 passed |-> FALSE, cleanExit |-> FALSE]
<1>1. /\ Typed(r) /\ r.revision > 0 /\ LastAttempt(r) > 0
      /\ UncleanOps(r) = {} /\ ps = {}
  BY IdleTicket DEF TicketInv
<1>2. Typed(s)
  BY <1>1, VerificationStartedTyped
<1>3. /\ s.verifications = Append(r.verifications, v)
      /\ s.attempts = r.attempts
      /\ s.active = VerificationOp(next) /\ s.revision = r.revision
      /\ s.state = r.state /\ s.prepared = r.prepared
  BY <1>1 DEF VerificationStarted, Typed, Record
<1>4. ~v.cleanExit
  OBVIOUS
<1>5. /\ LastVerification(s) = next /\ next > 0
      /\ LastAttempt(s) = LastAttempt(r)
  BY <1>1, <1>3 DEF Typed, Record, LastVerification, LastAttempt
<1> HIDE DEF s, v
<1>6. UncleanOps(s) = {VerificationOp(next)}
  BY <1>1, <1>3, <1>4, AppendedVerification
<1>7. Owned(s)
  BY <1>3, Operators DEF Owned
<1> QED
  BY <1>1, <1>2, <1>3, <1>5, <1>6, <1>7 DEF TicketInv, s

\* A run or a verification that ends with every process accounted for.
LEMMA ReleasedKeeps ==
  ASSUME NEW s, Typed(s), UncleanOps(s) = {}, ~Owned(s),
         s.prepared => s.revision > 0, LastAttempt(s) > 0, s.revision > 0,
         s.state # "running"
  PROVE  TicketInv(s, "none", {})
BY DEF TicketInv, Owned

\* One that ends without that proof keeps the owner and can be recovered.
LEMMA AbandonedKeeps ==
  ASSUME NEW r, NEW kind, NEW ps, TicketInv(r, kind, ps),
         kind \in {"run", "verify"},
         NEW s, Typed(s), UncleanOps(s) = UncleanOps(r),
         s.active = r.active, s.revision = r.revision,
         s.prepared = r.prepared, LastAttempt(s) = LastAttempt(r),
         s.state \in {"blocked", "interrupted"}
  PROVE  TicketInv(s, "none", ps)
<1>1. Owned(s) /\ Owned(r)
  BY Operators DEF TicketInv, Owned
<1>2. LastAttempt(r) > 0
  BY DEF TicketInv
<1> QED
  BY <1>1, <1>2 DEF TicketInv, Restartable

LEMMA SetupBlockedKeeps ==
  ASSUME NEW r, NEW ps, TicketInv(r, "run", ps), NEW digest \in Snapshots,
         AttemptOp(LastAttempt(r)) \notin ps
  PROVE  TicketInv(SetupBlocked(r, digest), "none", ps)
<1> DEFINE s == SetupBlocked(r, digest)
           n == LastAttempt(r)
           a == [r.attempts[n] EXCEPT !.snapshot = digest, !.cleanExit = TRUE]
<1>1. /\ Typed(r) /\ n > 0 /\ r.revision > 0 /\ ps = {}
      /\ UncleanOps(r) = {AttemptOp(n)}
      /\ n \in DOMAIN r.attempts
  BY CurrentTyped DEF TicketInv
<1>2. Typed(s)
  BY <1>1, SetupBlockedTyped
<1>3. /\ s.attempts = [r.attempts EXCEPT ![n] = a]
      /\ s.verifications = r.verifications
      /\ s.active = Nobody /\ s.revision = r.revision
      /\ s.state = "blocked"
  BY <1>1 DEF SetupBlocked, Typed, Record
<1>4. a.cleanExit
  BY <1>1, CurrentTyped DEF Attempt
<1>5. LastAttempt(s) = n
  BY <1>1, <1>3 DEF Typed, Record, LastAttempt
<1>6. ~Owned(s)
  BY <1>3 DEF Owned
<1> HIDE DEF s, a
<1>7. UncleanOps(s) = {}
  BY <1>1, <1>3, <1>4, CleanedAttempt
<1>8. TicketInv(s, "none", {})
  BY <1>1, <1>2, <1>3, <1>5, <1>6, <1>7, ReleasedKeeps
<1> QED
  BY <1>1, <1>8 DEF s

LEMMA SplicedKeeps ==
  ASSUME NEW r, NEW ps, TicketInv(r, "run", ps), NEW batch
  PROVE  TicketInv(InboxSpliced(r, batch), "run", ps)
<1> DEFINE s == InboxSpliced(r, batch)
           n == LastAttempt(r)
           a == [r.attempts[n] EXCEPT !.receipt = TRUE]
<1>1. Typed(r) /\ n > 0 /\ r.revision > 0 /\ n \in DOMAIN r.attempts
  BY CurrentTyped DEF TicketInv
<1>2. Typed(s)
  BY <1>1, InboxSplicedTyped
<1>3. /\ s.attempts = [r.attempts EXCEPT ![n] = a]
      /\ s.verifications = r.verifications
      /\ s.active = r.active /\ s.revision = r.revision
      /\ s.state = r.state /\ s.prepared = r.prepared
      /\ s.pending = r.pending
  BY <1>1 DEF InboxSpliced, Typed, Record
<1>4. a.cleanExit <=> r.attempts[n].cleanExit
  BY <1>1, CurrentTyped DEF Attempt
<1>5. LastAttempt(s) = n /\ LastVerification(s) = LastVerification(r)
  BY <1>1, <1>3 DEF Typed, Record, LastAttempt, LastVerification
<1> HIDE DEF s, a
<1>6. UncleanOps(s) = UncleanOps(r)
  BY <1>1, <1>3, <1>4, SameUncleanAttempt
<1>7. Owned(s) <=> Owned(r)
  BY <1>3 DEF Owned
<1> QED
  BY <1>1, <1>2, <1>3, <1>5, <1>6, <1>7 DEF TicketInv, s

\* Only a complete outcome, which had a clean exit, waits for review.
LEMMA SettledStates ==
  ASSUME NEW a, NEW o \in Outcomes, NEW digest
  PROVE  /\ SettledState(a, o, digest)
              \in {"blocked", "interrupted", "awaiting_review"}
         /\ ~o.cleanExit =>
              SettledState(a, o, digest) \in {"blocked", "interrupted"}
BY DEF SettledState, Complete

LEMMA SettledKeeps ==
  ASSUME NEW r, NEW ps, TicketInv(r, "run", ps), NEW batch,
         NEW o \in Outcomes, NEW digest \in OptionalSnapshot,
         o.cleanExit => AttemptOp(LastAttempt(r)) \notin ps
  PROVE  TicketInv(AttemptSettled(r, batch, o, digest), "none", ps)
<1> DEFINE s == AttemptSettled(r, batch, o, digest)
           n == LastAttempt(r)
           c == CurrentAttempt(r)
           a == [c EXCEPT !.receipt = o.receipt, !.completed = o.completed,
                          !.cleanExit = o.cleanExit, !.snapshot = digest,
                          !.delivery = o.delivery]
<1>1. /\ Typed(r) /\ n > 0 /\ r.revision > 0 /\ n \in DOMAIN r.attempts
      /\ UncleanOps(r) = {AttemptOp(n)} /\ r.active = AttemptOp(n)
      /\ ps \subseteq {AttemptOp(n)} /\ c \in Attempt
      /\ c = r.attempts[n]
  BY CurrentTyped DEF TicketInv, CurrentAttempt
<1>2. Typed(s)
  BY <1>1, AttemptSettledTyped
<1>3. /\ s.attempts = [r.attempts EXCEPT ![n] = a]
      /\ s.verifications = r.verifications
      /\ s.active = OwnerAfter(r, o) /\ s.revision = r.revision
      /\ s.prepared = r.prepared
      /\ s.state = SettledState(c, o, digest)
  BY <1>1 DEF AttemptSettled, Typed, Record
<1>4. a.cleanExit = o.cleanExit /\ o.cleanExit \in BOOLEAN
  BY <1>1 DEF Attempt, Outcomes
<1>5. LastAttempt(s) = n
  BY <1>1, <1>3 DEF Typed, Record, LastAttempt
<1>6. ~r.attempts[n].cleanExit
  BY <1>1, UncleanMembers
<1>7. s.state \in {"blocked", "interrupted", "awaiting_review"}
  BY <1>3, SettledStates
<1> HIDE DEF s, a, c
<1>8. CASE o.cleanExit
  <2>1. a.cleanExit
    BY <1>4, <1>8
  <2>2. UncleanOps(s) = {}
    BY <1>1, <1>3, <2>1, CleanedAttempt
  <2>3. ~Owned(s) /\ ps = {}
    BY <1>1, <1>3, <1>8 DEF Owned, OwnerAfter
  <2>4. s.state # "running"
    BY <1>7
  <2>5. TicketInv(s, "none", {})
    BY <1>1, <1>2, <1>3, <1>5, <2>2, <2>3, <2>4, ReleasedKeeps
  <2> QED
    BY <2>3, <2>5 DEF s
<1>9. CASE ~o.cleanExit
  <2>1. a.cleanExit <=> r.attempts[n].cleanExit
    BY <1>4, <1>6, <1>9
  <2>2. UncleanOps(s) = UncleanOps(r)
    BY <1>1, <1>3, <2>1, SameUncleanAttempt
  <2>3. s.active = r.active
    BY <1>3, <1>9 DEF OwnerAfter
  <2>4. s.state \in {"blocked", "interrupted"}
    BY <1>3, <1>9, SettledStates
  <2>5. TicketInv(s, "none", ps)
    BY <1>2, <1>3, <1>5, <2>2, <2>3, <2>4, AbandonedKeeps
  <2> QED
    BY <2>5 DEF s
<1> QED
  BY <1>8, <1>9

LEMMA FailedKeeps ==
  ASSUME NEW r, NEW ps, TicketInv(r, "run", ps), NEW entered \in BOOLEAN
  PROVE  TicketInv(AttemptFailed(r, entered), "none", ps)
<1> DEFINE s == AttemptFailed(r, entered)
<1>1. Typed(r) /\ Typed(s)
  BY AttemptFailedTyped DEF TicketInv
<1>2. /\ s.attempts = r.attempts /\ s.verifications = r.verifications
      /\ s.active = r.active /\ s.revision = r.revision
      /\ s.prepared = r.prepared /\ s.state = "interrupted"
  BY <1>1 DEF AttemptFailed, Typed, Record
<1> HIDE DEF s
<1>3. UncleanOps(s) = UncleanOps(r) /\ LastAttempt(s) = LastAttempt(r)
  BY <1>2, SameUnclean DEF LastAttempt
<1>4. TicketInv(s, "none", ps)
  BY <1>1, <1>2, <1>3, AbandonedKeeps
<1> QED
  BY <1>4 DEF s

LEMMA VerificationSettledKeeps ==
  ASSUME NEW r, NEW ps, TicketInv(r, "verify", ps), NEW passed \in BOOLEAN,
         NEW digest \in Snapshots,
         VerificationOp(LastVerification(r)) \notin ps
  PROVE  TicketInv(VerificationSettled(r, digest, passed), "none", ps)
<1> DEFINE s == VerificationSettled(r, digest, passed)
           n == LastVerification(r)
           changed == r.verifications[n].before # digest
           v == [r.verifications[n] EXCEPT
                   !.after = digest, !.passed = passed /\ ~changed,
                   !.cleanExit = TRUE]
<1>1. /\ Typed(r) /\ n > 0 /\ r.revision > 0 /\ ps = {}
      /\ UncleanOps(r) = {VerificationOp(n)}
      /\ n \in DOMAIN r.verifications /\ LastAttempt(r) > 0
      /\ r.state = "awaiting_review"
  BY CurrentTyped DEF TicketInv
<1>2. Typed(s)
  BY <1>1, VerificationSettledTyped
<1>3. /\ s.verifications = [r.verifications EXCEPT ![n] = v]
      /\ s.attempts = r.attempts
      /\ s.active = Nobody /\ s.revision = r.revision
      /\ s.state \in {"blocked", "awaiting_review"}
  BY <1>1 DEF VerificationSettled, Typed, Record
<1>4. v.cleanExit
  BY <1>1, CurrentTyped DEF Verification
<1>5. LastAttempt(s) = LastAttempt(r)
  BY <1>3 DEF LastAttempt
<1>6. ~Owned(s)
  BY <1>3 DEF Owned
<1> HIDE DEF s, v
<1>7. UncleanOps(s) = {}
  BY <1>1, <1>3, <1>4, CleanedVerification
<1>8. TicketInv(s, "none", {})
  BY <1>1, <1>2, <1>3, <1>5, <1>6, <1>7, ReleasedKeeps
<1> QED
  BY <1>1, <1>8 DEF s

LEMMA VerificationFailedKeeps ==
  ASSUME NEW r, NEW ps, TicketInv(r, "verify", ps)
  PROVE  TicketInv(VerificationFailed(r), "none", ps)
<1> DEFINE s == VerificationFailed(r)
           n == LastVerification(r)
           v == [r.verifications[n] EXCEPT !.passed = FALSE]
<1>1. Typed(r) /\ n > 0 /\ n \in DOMAIN r.verifications
  BY CurrentTyped DEF TicketInv
<1>2. Typed(s)
  BY <1>1, VerificationFailedTyped
<1>3. /\ s.verifications = [r.verifications EXCEPT ![n] = v]
      /\ s.attempts = r.attempts
      /\ s.active = r.active /\ s.revision = r.revision
      /\ s.prepared = r.prepared /\ s.state = "interrupted"
  BY <1>1 DEF VerificationFailed, Typed, Record
<1>4. v.cleanExit <=> r.verifications[n].cleanExit
  BY <1>1, CurrentTyped DEF Verification
<1> HIDE DEF s, v
<1>5. UncleanOps(s) = UncleanOps(r) /\ LastAttempt(s) = LastAttempt(r)
  BY <1>1, <1>3, <1>4, SameUncleanVerification DEF LastAttempt
<1>6. TicketInv(s, "none", ps)
  BY <1>2, <1>3, <1>5, AbandonedKeeps
<1> QED
  BY <1>6 DEF s

LEMMA RecoveryStartedKeeps ==
  ASSUME NEW r, NEW ps, TicketInv(r, "none", ps), Restartable(r)
  PROVE  TicketInv(RecoveryStarted(r), "recover", ps)
<1> DEFINE s == RecoveryStarted(r)
<1>1. Typed(r) /\ Typed(s)
  BY TicketStateTyped DEF TicketInv
<1>2. /\ s.attempts = r.attempts /\ s.verifications = r.verifications
      /\ s.active = Recovery /\ s.revision = r.revision
      /\ s.prepared = r.prepared /\ s.state = r.state
      /\ s.pending = r.pending
  BY <1>1 DEF RecoveryStarted, Typed, Record
<1> HIDE DEF s
<1>3. UncleanOps(s) = UncleanOps(r) /\ LastAttempt(s) = LastAttempt(r)
  BY <1>2, SameUnclean DEF LastAttempt
<1>4. Owned(s)
  BY <1>2, Operators DEF Owned
<1> QED
  BY <1>1, <1>2, <1>3, <1>4 DEF TicketInv, Restartable, s

LEMMA RecoveryFailedKeeps ==
  ASSUME NEW r, NEW ps, TicketInv(r, "recover", ps)
  PROVE  TicketInv(RecoveryFailed(r), "none", ps)
<1> DEFINE s == RecoveryFailed(r)
<1>1. Typed(r) /\ Typed(s)
  BY TicketStateTyped DEF TicketInv
<1>2. /\ s.attempts = r.attempts /\ s.verifications = r.verifications
      /\ s.active = Uncertain /\ s.revision = r.revision
      /\ s.prepared = r.prepared /\ s.state = r.state
      /\ s.pending = r.pending
  BY <1>1 DEF RecoveryFailed, Typed, Record
<1> HIDE DEF s
<1>3. UncleanOps(s) = UncleanOps(r) /\ LastAttempt(s) = LastAttempt(r)
  BY <1>2, SameUnclean DEF LastAttempt
<1>4. Owned(s)
  BY <1>2, Operators DEF Owned
<1> QED
  BY <1>1, <1>2, <1>3, <1>4 DEF TicketInv, Restartable, s

LEMMA RecoveredKeeps ==
  ASSUME NEW r, NEW ps, TicketInv(r, "recover", ps),
         NEW kind \in ContinuationKinds \union {"none"},
         NEW digest \in OptionalSnapshot,
         ps \cap UncleanOps(r) = {}
  PROVE  TicketInv(TicketRecovered(r, kind, digest), "none", ps)
<1> DEFINE s == TicketRecovered(r, kind, digest)
<1>1. Typed(r) /\ LastAttempt(r) > 0 /\ r.revision > 0 /\ ps = {}
  BY DEF TicketInv, Restartable
<1>2. Typed(s)
  BY <1>1, TicketRecoveredTyped
<1>3. /\ s.attempts = [n \in DOMAIN r.attempts |->
                         [r.attempts[n] EXCEPT !.cleanExit = TRUE]]
      /\ s.verifications = [n \in DOMAIN r.verifications |->
                              [r.verifications[n] EXCEPT !.cleanExit = TRUE]]
      /\ s.active = Nobody /\ s.revision = r.revision
      /\ s.prepared = r.prepared
      /\ s.state \in {"ready", "awaiting_review"}
  BY <1>1 DEF TicketRecovered, Typed, Record
<1>4. /\ \A n \in DOMAIN r.attempts : r.attempts[n] \in Attempt
      /\ \A n \in DOMAIN r.verifications : r.verifications[n] \in Verification
  BY <1>1 DEF Typed, Record
<1> HIDE DEF s
<1>5. \A n \in DOMAIN s.attempts : s.attempts[n].cleanExit
  BY <1>3, <1>4 DEF Attempt
<1>6. \A n \in DOMAIN s.verifications : s.verifications[n].cleanExit
  BY <1>3, <1>4 DEF Verification
<1>7. UncleanOps(s) = {}
  BY <1>5, <1>6, UncleanMembers
<1>8. LastAttempt(s) = LastAttempt(r)
  BY <1>1, <1>3 DEF LastAttempt, Typed, Record
<1>9. ~Owned(s)
  BY <1>3 DEF Owned
<1>10. TicketInv(s, "none", {})
  BY <1>1, <1>2, <1>3, <1>7, <1>8, <1>9, ReleasedKeeps
<1> QED
  BY <1>1, <1>10 DEF s

LEMMA FencedKeeps ==
  ASSUME NEW r, NEW kind \in {"none", "run", "verify", "recover"}, NEW ps,
         TicketInv(r, kind, ps)
  PROVE  TicketInv(Fenced(r), "none", ps)
<1> DEFINE s == Fenced(r)
<1>1. Typed(r) /\ Typed(s)
  BY FencedTyped DEF TicketInv
<1>2. CASE ~Owned(r)
  BY <1>2, IdleTicket DEF Fenced, TicketInv
<1>3. CASE Owned(r)
  <2>1. /\ s.attempts = r.attempts /\ s.verifications = r.verifications
        /\ s.active = Uncertain /\ s.revision = r.revision
        /\ s.prepared = r.prepared /\ s.state = "interrupted"
    BY <1>1, <1>3 DEF Fenced, Typed, Record
  <2>2. LastAttempt(r) > 0
    BY <1>3 DEF TicketInv, Restartable
  <2> HIDE DEF s
  <2>3. UncleanOps(s) = UncleanOps(r) /\ LastAttempt(s) = LastAttempt(r)
    BY <2>1, SameUnclean DEF LastAttempt
  <2>4. Owned(s)
    BY <2>1, Operators DEF Owned
  <2> QED
    BY <1>1, <2>1, <2>2, <2>3, <2>4 DEF TicketInv, Restartable, s
<1> QED
  BY <1>2, <1>3

\* A run starts more processes of its own; processes end.
LEMMA ProcessesKeep ==
  ASSUME NEW r, NEW kind, NEW ps, TicketInv(r, kind, ps)
  PROVE  /\ \A qs \in SUBSET ps : TicketInv(r, kind, qs)
         /\ kind = "run" =>
              TicketInv(r, kind, ps \union {AttemptOp(LastAttempt(r))})
BY DEF TicketInv

-----------------------------------------------------------------------------
(***************************************************************************)
(* Part 3.  Every action preserves the invariant.  All but the restarts    *)
(* change one ticket: they replace its record, its operation and its       *)
(* processes, and need a slot when the ticket did not hold one.            *)
(***************************************************************************)
Bookkeeping ==
  /\ worktree \in [Tickets -> Snapshots]
  /\ awaiting \in [Tickets -> SUBSET Instructions]
  /\ handed \in [Tickets -> [Instructions -> Nat]]

Holds(r, o) == o.kind # "none" \/ Owned(r)

LEMMA ActiveIsFinite ==
  /\ IsFiniteSet(ActiveTickets)
  /\ Cardinality(ActiveTickets) \in Nat
  /\ CapacityRespected <=> Cardinality(ActiveTickets) <= Capacity
<1>1. ActiveTickets \subseteq Tickets
  BY DEF ActiveTickets
<1>2. IsFiniteSet(ActiveTickets)
  BY <1>1, CapacityAssumption, FS_Subset
<1>3. Cardinality(ActiveTickets) \in Nat
  BY <1>2, FS_CardinalityType
<1> QED
  BY <1>2, <1>3 DEF CapacityRespected, ActiveTickets

\* activeCount() stays within the capacity.
LEMMA CapacityStep ==
  ASSUME CapacityRespected, NEW t \in Tickets,
         \A u \in Tickets \ {t} :
           Holds(record[u], operations[u])' <=> Holds(record[u], operations[u]),
         Holds(record[t], operations[t])' =>
           Holds(record[t], operations[t]) \/ HasCapacity
  PROVE  CapacityRespected'
<1> DEFINE A == ActiveTickets
           B == {u \in Tickets : Holds(record[u], operations[u])'}
<1>1. A = {u \in Tickets : Holds(record[u], operations[u])}
  BY DEF ActiveTickets, Holds, Live
<1>2. B = {u \in Tickets : (Live(u) \/ Owned(record[u]))'}
  BY DEF Holds, Live
<1>3. IsFiniteSet(A) /\ Cardinality(A) \in Nat /\ Cardinality(A) <= Capacity
  BY ActiveIsFinite
<1>4. Cardinality(B) <= Capacity
  <2>1. CASE B \subseteq A
    <3>1. Cardinality(B) <= Cardinality(A)
      BY <1>3, <2>1, FS_Subset
    <3>2. IsFiniteSet(B)
      BY <1>3, <2>1, FS_Subset
    <3>3. Cardinality(B) \in Nat
      BY <3>2, FS_CardinalityType
    <3> QED
      BY <1>3, <3>1, <3>3, CapacityAssumption
  <2>2. CASE ~(B \subseteq A)
    <3>1. t \notin A /\ HasCapacity /\ B \subseteq A \union {t}
      BY <1>1, <2>2
    <3>2. /\ IsFiniteSet(A \union {t})
          /\ Cardinality(A \union {t}) = Cardinality(A) + 1
      BY <1>3, <3>1, FS_AddElement
    <3>3. IsFiniteSet(B) /\ Cardinality(B) <= Cardinality(A \union {t})
      BY <3>1, <3>2, FS_Subset
    <3>4. Cardinality(B) \in Nat
      BY <3>3, FS_CardinalityType
    <3>5. Cardinality(A) < Capacity
      BY <3>1 DEF HasCapacity
    <3> QED
      BY <1>3, <3>2, <3>3, <3>4, <3>5, CapacityAssumption
  <2> QED
    BY <2>1, <2>2
<1> QED
  BY <1>2, <1>4 DEF CapacityRespected

LEMMA OneTicketInv ==
  ASSUME IInv, NEW t \in Tickets, NEW r, NEW o \in Operation,
         NEW ps \in SUBSET WriterOps, TicketInv(r, o.kind, ps),
         record' = [record EXCEPT ![t] = r],
         operations' = [operations EXCEPT ![t] = o],
         processes' = [processes EXCEPT ![t] = ps],
         Bookkeeping',
         Holds(r, o) => Holds(record[t], operations[t]) \/ HasCapacity
  PROVE  IInv'
<1>1. /\ record \in [Tickets -> Record]
      /\ operations \in [Tickets -> Operation]
      /\ processes \in [Tickets -> SUBSET WriterOps]
      /\ \A u \in Tickets : Typed(record[u])
  BY DEF IInv, TypeOK, Typed
<1>2. /\ record'[t] = r /\ operations'[t] = o /\ processes'[t] = ps
      /\ \A u \in Tickets \ {t} :
           /\ record'[u] = record[u] /\ operations'[u] = operations[u]
           /\ processes'[u] = processes[u]
  BY <1>1
<1>3. Typed(r)
  BY DEF TicketInv
<1>4. TypeOK'
  <2>1. /\ record' \in [Tickets -> Record]
        /\ operations' \in [Tickets -> Operation]
        /\ processes' \in [Tickets -> SUBSET WriterOps]
    BY <1>1, <1>3 DEF Typed
  <2>2. \A u \in Tickets : Typed(record'[u])
    BY <1>1, <1>2, <1>3
  <2> QED
    BY <2>1, <2>2 DEF TypeOK, Typed, Bookkeeping
<1>5. ASSUME NEW u \in Tickets
      PROVE  TicketInv(record[u], operations[u].kind, processes[u])'
  <2>1. TicketInv(record[u], operations[u].kind, processes[u])
    BY DEF IInv
  <2>2. TicketInv(record'[u], operations'[u].kind, processes'[u])
    BY <1>2, <2>1
  <2> QED
    BY <2>2 DEF TicketInv, Typed, LastAttempt, LastVerification, Owned,
                UncleanOps, Restartable
<1>6. CapacityRespected'
  <2>1. \A u \in Tickets \ {t} :
          Holds(record[u], operations[u])' <=> Holds(record[u], operations[u])
    BY <1>2 DEF Holds, Owned
  <2>2. Holds(record[t], operations[t])' =>
          Holds(record[t], operations[t]) \/ HasCapacity
    BY <1>2 DEF Holds, Owned
  <2>3. CapacityRespected
    BY DEF IInv
  <2> QED
    BY <2>1, <2>2, <2>3, CapacityStep
<1> QED
  BY <1>4, <1>5, <1>6 DEF IInv

(***************************************************************************)
(* The same step seen through the refinement mapping: a run, a             *)
(* verification or a recovery holds a lease, an owner without a live       *)
(* operation is a fence, and the leases held are what activeCount() counts.*)
(***************************************************************************)
LeaseStep == [Lease!Next]_(Lease!leaseVars)

Leases == [t \in Tickets |-> LeaseOf(t)]
Occupancy == [t \in Tickets |-> processes[t] # {}]

LeaseValue(kind, owned) ==
  IF kind \in {"run", "verify"} THEN "live"
  ELSE IF kind = "recover" THEN "recovering"
  ELSE IF owned THEN "fenced" ELSE "free"

\* The record, operation and processes of a ticket after its step: the same
\* operation, its end, or the start of one.
LegalChange(t, r, o, ps) ==
  \/ /\ o.kind = operations[t].kind
     /\ Owned(r) <=> Owned(record[t])
     /\ ps \subseteq processes[t] \/ o.kind = "run"
  \/ o.kind = "none" /\ operations[t].kind # "none" /\ ps = processes[t]
  \/ /\ operations[t].kind = "none" /\ ~Owned(record[t])
     /\ o.kind \in {"run", "verify"} /\ ps # {}
  \/ operations[t].kind = "none" /\ o.kind = "recover" /\ ps = processes[t]

LEMMA HeldIsActive ==
  ASSUME IInv
  PROVE  Lease!Held = ActiveTickets
<1>1. \A t \in Tickets :
        operations[t].kind \in {"none", "run", "verify", "recover"}
  BY DEF IInv, TypeOK, Operation
<1> QED
  BY <1>1 DEF Lease!Held, ActiveTickets, LeaseOf, Live

\* The abstract actions, in terms of the mapping.
LEMMA AbstractActions ==
  ASSUME NEW t \in Tickets
  PROVE  /\ \A to \in {"live", "recovering"} :
              /\ Leases[t] = "free" /\ ~Occupancy[t]
              /\ Cardinality(Lease!Held) < Capacity
              /\ Leases' = [Leases EXCEPT ![t] = to]
              /\ \/ Occupancy' = Occupancy
                 \/ /\ to = "live"
                    /\ Occupancy' = [Occupancy EXCEPT ![t] = TRUE]
              => LeaseStep
         /\ /\ Leases[t] = "live" /\ Leases' = Leases
            /\ Occupancy' = [Occupancy EXCEPT ![t] = TRUE]
            => LeaseStep
         /\ /\ Occupancy' = [Occupancy EXCEPT ![t] = FALSE]
            /\ Leases' = Leases
            => LeaseStep
         /\ /\ Leases[t] \in {"live", "recovering"} /\ ~Occupancy[t]
            /\ Leases' = [Leases EXCEPT ![t] = "free"]
            /\ Occupancy' = Occupancy
            => LeaseStep
         /\ /\ Leases[t] \in {"live", "recovering"}
            /\ Leases' = [Leases EXCEPT ![t] = "fenced"]
            /\ Occupancy' = Occupancy
            => LeaseStep
         /\ /\ Leases[t] = "fenced"
            /\ Leases' = [Leases EXCEPT ![t] = "recovering"]
            /\ Occupancy' = Occupancy
            => LeaseStep
         /\ Leases' = Leases /\ Occupancy' = Occupancy => LeaseStep
<1>1. ASSUME NEW to \in {"live", "recovering"}
      PROVE  /\ Leases[t] = "free" /\ ~Occupancy[t]
             /\ Cardinality(Lease!Held) < Capacity
             /\ Leases' = [Leases EXCEPT ![t] = to]
             /\ \/ Occupancy' = Occupancy
                \/ /\ to = "live"
                   /\ Occupancy' = [Occupancy EXCEPT ![t] = TRUE]
             => Lease!Acquire(t, to)
  <2>1. Lease!Cardinality(Lease!Held) = Cardinality(Lease!Held)
    BY DEF Lease!Cardinality, Cardinality
  <2> QED
    BY <2>1 DEF Leases, Occupancy, Lease!Acquire, Lease!Grant
<1>2. /\ Leases[t] = "live" /\ Leases' = Leases
      /\ Occupancy' = [Occupancy EXCEPT ![t] = TRUE]
      => Lease!Occupy(t)
  BY DEF Leases, Occupancy, Lease!Occupy
<1>3. /\ Occupancy' = [Occupancy EXCEPT ![t] = FALSE] /\ Leases' = Leases
      => Lease!Vacate(t)
  BY DEF Leases, Occupancy, Lease!Vacate
<1>4. /\ Leases[t] \in {"live", "recovering"} /\ ~Occupancy[t]
      /\ Leases' = [Leases EXCEPT ![t] = "free"]
      /\ Occupancy' = Occupancy
      => Lease!Release(t)
  BY DEF Leases, Occupancy, Lease!Release, Lease!Grant
<1>5. /\ Leases[t] \in {"live", "recovering"}
      /\ Leases' = [Leases EXCEPT ![t] = "fenced"]
      /\ Occupancy' = Occupancy
      => Lease!Abandon(t)
  BY DEF Leases, Occupancy, Lease!Abandon, Lease!Grant
<1>6. /\ Leases[t] = "fenced"
      /\ Leases' = [Leases EXCEPT ![t] = "recovering"]
      /\ Occupancy' = Occupancy
      => Lease!Reclaim(t)
  BY DEF Leases, Occupancy, Lease!Reclaim, Lease!Grant
<1>7. Leases' = Leases /\ Occupancy' = Occupancy => UNCHANGED Lease!leaseVars
  BY DEF Leases, Occupancy, Lease!leaseVars
<1> QED
  BY <1>1, <1>2, <1>3, <1>4, <1>5, <1>6, <1>7 DEF LeaseStep, Lease!Next

LEMMA OneTicketLease ==
  ASSUME IInv, NEW t \in Tickets, NEW r, NEW o \in Operation,
         NEW ps \in SUBSET WriterOps, TicketInv(r, o.kind, ps),
         record' = [record EXCEPT ![t] = r],
         operations' = [operations EXCEPT ![t] = o],
         processes' = [processes EXCEPT ![t] = ps],
         Holds(r, o) => Holds(record[t], operations[t]) \/ HasCapacity,
         LegalChange(t, r, o, ps)
  PROVE  LeaseStep
<1> DEFINE k == operations[t].kind
           before == LeaseValue(k, Owned(record[t]))
           after == LeaseValue(o.kind, Owned(r))
<1>1. /\ TicketInv(record[t], k, processes[t])
      /\ k \in {"none", "run", "verify", "recover"}
      /\ o.kind \in {"none", "run", "verify", "recover"}
  BY DEF IInv, TypeOK, Operation
<1>2. /\ Leases[t] = before
      /\ Leases' = [Leases EXCEPT ![t] = after]
      /\ Occupancy[t] = (processes[t] # {})
      /\ Occupancy' = [Occupancy EXCEPT ![t] = (ps # {})]
  <2>1. /\ record \in [Tickets -> Record]
        /\ operations \in [Tickets -> Operation]
        /\ processes \in [Tickets -> SUBSET WriterOps]
    BY DEF IInv, TypeOK
  <2>2. /\ record'[t] = r /\ operations'[t] = o /\ processes'[t] = ps
        /\ \A u \in Tickets \ {t} :
             /\ record'[u] = record[u] /\ operations'[u] = operations[u]
             /\ processes'[u] = processes[u]
    BY <2>1
  <2>3. \A u \in Tickets \ {t} : LeaseOf(u)' = LeaseOf(u)
    BY <2>2 DEF LeaseOf, Owned
  <2>4. LeaseOf(t) = before /\ LeaseOf(t)' = after
    BY <2>2 DEF LeaseOf, LeaseValue, Owned
  <2> HIDE DEF before, after
  <2>5. Leases' = [u \in Tickets |-> LeaseOf(u)']
    BY DEF Leases
  <2>6. Leases' = [Leases EXCEPT ![t] = after] /\ Leases[t] = before
    BY <2>3, <2>4, <2>5 DEF Leases
  <2>7. Occupancy' = [u \in Tickets |-> processes'[u] # {}]
    BY DEF Occupancy
  <2> QED
    BY <2>2, <2>6, <2>7 DEF Occupancy
<1>3. /\ k # "none" => Owned(record[t])
      /\ o.kind # "none" => Owned(r)
      /\ ~Owned(record[t]) => processes[t] = {}
      /\ ~Owned(r) => ps = {}
  BY <1>1, Operators DEF TicketInv, Owned
<1>4. ~Holds(record[t], operations[t]) /\ Holds(r, o) =>
        Cardinality(Lease!Held) < Capacity
  BY HeldIsActive DEF HasCapacity
<1>5. Leases = [u \in Tickets |-> Leases[u]]
      /\ Occupancy = [u \in Tickets |-> Occupancy[u]]
  BY DEF Leases, Occupancy
<1> HIDE DEF before, after
<1>6. CASE /\ o.kind = operations[t].kind
           /\ Owned(r) <=> Owned(record[t])
           /\ ps \subseteq processes[t] \/ o.kind = "run"
  <2>1. Leases' = Leases
    <3>1. after = before
      BY <1>3, <1>6 DEF before, after, LeaseValue
    <3> QED
      BY <1>2, <1>5, <3>1
  <2>2. CASE ps = {}
    <3>1. Occupancy' = [Occupancy EXCEPT ![t] = FALSE]
      BY <1>2, <2>2
    <3> QED
      BY <2>1, <3>1, AbstractActions
  <2>3. CASE ps # {} /\ processes[t] # {}
    <3>1. Occupancy' = Occupancy
      BY <1>2, <1>5, <2>3
    <3> QED
      BY <2>1, <3>1, AbstractActions
  <2>4. CASE ps # {} /\ processes[t] = {}
    <3>1. Occupancy' = [Occupancy EXCEPT ![t] = TRUE]
      BY <1>2, <2>4
    <3>2. Leases[t] = "live"
      BY <1>2, <1>6, <2>4 DEF before, LeaseValue
    <3> QED
      BY <2>1, <3>1, <3>2, AbstractActions
  <2> QED
    BY <2>2, <2>3, <2>4
<1>7. CASE o.kind = "none" /\ operations[t].kind # "none" /\ ps = processes[t]
  <2>1. Leases[t] \in {"live", "recovering"}
    BY <1>1, <1>2, <1>7 DEF before, LeaseValue
  <2>2. Occupancy' = Occupancy
    BY <1>2, <1>5, <1>7
  <2>3. CASE Owned(r)
    <3>1. Leases' = [Leases EXCEPT ![t] = "fenced"]
      BY <1>2, <1>7, <2>3 DEF after, LeaseValue
    <3> QED
      BY <2>1, <2>2, <3>1, AbstractActions
  <2>4. CASE ~Owned(r)
    <3>1. Leases' = [Leases EXCEPT ![t] = "free"]
      BY <1>2, <1>7, <2>4 DEF after, LeaseValue
    <3>2. ~Occupancy[t]
      BY <1>2, <1>3, <1>7, <2>4
    <3> QED
      BY <2>1, <2>2, <3>1, <3>2, AbstractActions
  <2> QED
    BY <2>3, <2>4
<1>8. CASE /\ operations[t].kind = "none" /\ ~Owned(record[t])
           /\ o.kind \in {"run", "verify"} /\ ps # {}
  <2>1. Leases[t] = "free" /\ ~Occupancy[t]
    BY <1>2, <1>3, <1>8 DEF before, LeaseValue
  <2>2. Leases' = [Leases EXCEPT ![t] = "live"]
    BY <1>2, <1>8 DEF after, LeaseValue
  <2>3. Occupancy' = [Occupancy EXCEPT ![t] = TRUE]
    BY <1>2, <1>8
  <2>4. Cardinality(Lease!Held) < Capacity
    BY <1>4, <1>8 DEF Holds
  <2> QED
    BY <2>1, <2>2, <2>3, <2>4, AbstractActions
<1>9. CASE /\ operations[t].kind = "none" /\ o.kind = "recover"
           /\ ps = processes[t]
  <2>1. Occupancy' = Occupancy
    BY <1>2, <1>5, <1>9
  <2>2. Leases' = [Leases EXCEPT ![t] = "recovering"]
    BY <1>2, <1>9 DEF after, LeaseValue
  <2>3. CASE Owned(record[t])
    <3>1. Leases[t] = "fenced"
      BY <1>2, <1>9, <2>3 DEF before, LeaseValue
    <3> QED
      BY <2>1, <2>2, <3>1, AbstractActions
  <2>4. CASE ~Owned(record[t])
    <3>1. Leases[t] = "free" /\ ~Occupancy[t]
      BY <1>2, <1>3, <1>9, <2>4 DEF before, LeaseValue
    <3>2. Cardinality(Lease!Held) < Capacity
      BY <1>4, <1>9, <2>4 DEF Holds
    <3> QED
      BY <2>1, <2>2, <3>1, <3>2, AbstractActions
  <2> QED
    BY <2>3, <2>4
<1> QED
  BY <1>6, <1>7, <1>8, <1>9 DEF LegalChange

\* The two together: what every action below has to be shown to be.
LEMMA OneTicketStep ==
  ASSUME IInv, NEW t \in Tickets, NEW r, NEW o \in Operation,
         NEW ps \in SUBSET WriterOps, TicketInv(r, o.kind, ps),
         record' = [record EXCEPT ![t] = r],
         operations' = [operations EXCEPT ![t] = o],
         processes' = [processes EXCEPT ![t] = ps],
         Bookkeeping',
         Holds(r, o) => Holds(record[t], operations[t]) \/ HasCapacity,
         LegalChange(t, r, o, ps)
  PROVE  IInv' /\ LeaseStep
<1>1. IInv'
  BY OneTicketInv
<1>2. LeaseStep
  BY OneTicketLease
<1> QED
  BY <1>1, <1>2

\* What the invariant says of one ticket.
LEMMA TicketFacts ==
  ASSUME IInv, NEW t \in Tickets
  PROVE  /\ TicketInv(record[t], operations[t].kind, processes[t])
         /\ Typed(record[t])
         /\ operations[t] \in Operation
         /\ operations[t].kind \in {"none", "run", "verify", "recover"}
         /\ processes[t] \in SUBSET WriterOps
         /\ worktree[t] \in Snapshots
         /\ Idle(t) => operations[t].kind = "none" /\ ~Owned(record[t])
         /\ Bookkeeping
<1>1. TicketInv(record[t], operations[t].kind, processes[t])
  BY DEF IInv
<1>2. /\ operations[t] \in Operation /\ processes[t] \in SUBSET WriterOps
      /\ worktree[t] \in Snapshots /\ Bookkeeping
  BY DEF IInv, TypeOK, Bookkeeping
<1>3. operations[t].kind \in {"none", "run", "verify", "recover"}
  BY <1>2 DEF Operation
<1>4. Idle(t) => operations[t].kind = "none" /\ ~Owned(record[t])
  BY <1>1, <1>3, IdleTicket DEF Idle
<1> QED
  BY <1>1, <1>2, <1>3, <1>4 DEF TicketInv

\* An action that only replaces the record of a ticket.
LEMMA RecordStep ==
  ASSUME IInv, NEW t \in Tickets, NEW r,
         TicketInv(r, operations[t].kind, processes[t]),
         Update(t, r), UNCHANGED <<operations, processes>>, Bookkeeping',
         Owned(r) <=> Owned(record[t])
  PROVE  IInv' /\ LeaseStep
<1>1. /\ operations' = [operations EXCEPT ![t] = operations[t]]
      /\ processes' = [processes EXCEPT ![t] = processes[t]]
  BY DEF IInv, TypeOK
<1>2. /\ Holds(r, operations[t]) =>
           Holds(record[t], operations[t]) \/ HasCapacity
      /\ LegalChange(t, r, operations[t], processes[t])
  BY DEF Holds, LegalChange
<1> QED
  BY <1>1, <1>2, TicketFacts, OneTicketStep DEF Update

\* An action that ends the operation of a ticket.
LEMMA FinishStep ==
  ASSUME IInv, NEW t \in Tickets, NEW r, TicketInv(r, "none", processes[t]),
         operations[t].kind # "none",
         Update(t, r), Finish(t), UNCHANGED processes, Bookkeeping'
  PROVE  IInv' /\ LeaseStep
<1>1. processes' = [processes EXCEPT ![t] = processes[t]]
  BY DEF IInv, TypeOK
<1>2. NoOperation \in Operation /\ NoOperation.kind = "none"
  BY DEF NoOperation, Operation, Stages, OptionalSnapshot
<1>3. Holds(r, NoOperation) => Holds(record[t], operations[t]) \/ HasCapacity
  BY DEF Holds
<1>4. TicketInv(r, NoOperation.kind, processes[t])
  BY <1>2
<1>5. /\ record' = [record EXCEPT ![t] = r]
      /\ operations' = [operations EXCEPT ![t] = NoOperation]
  BY DEF Update, Finish
<1>6. processes[t] \in SUBSET WriterOps
  BY TicketFacts
<1>7. LegalChange(t, r, NoOperation, processes[t])
  BY <1>2 DEF LegalChange
<1> QED
  BY <1>1, <1>2, <1>3, <1>4, <1>5, <1>6, <1>7, OneTicketStep

LEMMA BookkeepingStep ==
  ASSUME Bookkeeping, UNCHANGED <<worktree, awaiting, handed>>
  PROVE  Bookkeeping'
BY DEF Bookkeeping

LEMMA PrepareStep ==
  ASSUME IInv, NEW t \in Tickets,
         \/ PrepareRevision(t) \/ PrepareRevisionBlocked(t)
         \/ PrepareAgain(t) \/ PrepareAgainBlocked(t) \/ Archive(t)
  PROVE  IInv' /\ LeaseStep
<1> DEFINE r == record[t]
           ps == processes[t]
<1>1. /\ TicketInv(r, "none", ps) /\ ~Owned(r) /\ Typed(r)
      /\ operations[t].kind = "none" /\ Bookkeeping'
  BY TicketFacts, BookkeepingStep
     DEF PrepareRevision, PrepareRevisionBlocked, PrepareAgain,
         PrepareAgainBlocked, Archive, CanReserve, memory
<1>2. UNCHANGED <<operations, processes>>
  BY DEF PrepareRevision, PrepareRevisionBlocked, PrepareAgain,
         PrepareAgainBlocked, Archive, memory
<1>3. CASE PrepareRevision(t) \/ PrepareRevisionBlocked(t)
  <2> DEFINE q == TicketReserved(r)
  <2>1. r.revision < MaxRevision
    BY <1>3 DEF PrepareRevision, PrepareRevisionBlocked, CanReserve
  <2>2. TicketInv(q, "none", ps) /\ ~Owned(q) /\ q.revision > 0
    BY <1>1, <2>1, ReservedKeeps
  <2> HIDE DEF q
  <2>3. /\ TicketInv(TicketPrepared(q), "none", ps)
        /\ TicketInv(TicketBlocked(q), "none", ps)
    BY <2>2, PreparedKeeps
  <2>4. ~Owned(TicketPrepared(q)) /\ ~Owned(TicketBlocked(q))
    <3>1. q \in Record
      BY <2>2 DEF TicketInv, Typed
    <3> QED
      BY <2>2, <3>1 DEF Owned, TicketPrepared, TicketBlocked, Record
  <2>5. Update(t, TicketPrepared(q)) \/ Update(t, TicketBlocked(q))
    BY <1>3 DEF PrepareRevision, PrepareRevisionBlocked, q
  <2> QED
    BY <1>1, <1>2, <2>3, <2>4, <2>5, RecordStep
<1>4. CASE PrepareAgain(t) \/ PrepareAgainBlocked(t)
  <2>1. r.revision > 0
    BY <1>4 DEF PrepareAgain, PrepareAgainBlocked
  <2>2. /\ TicketInv(TicketPrepared(r), "none", ps)
        /\ TicketInv(TicketBlocked(r), "none", ps)
    BY <1>1, <2>1, PreparedKeeps
  <2>3. ~Owned(TicketPrepared(r)) /\ ~Owned(TicketBlocked(r))
    BY <1>1 DEF Owned, TicketPrepared, TicketBlocked, Typed, Record
  <2>4. Update(t, TicketPrepared(r)) \/ Update(t, TicketBlocked(r))
    BY <1>4 DEF PrepareAgain, PrepareAgainBlocked
  <2> QED
    BY <1>1, <1>2, <2>2, <2>3, <2>4, RecordStep
<1>5. CASE Archive(t)
  <2> DEFINE q == [r EXCEPT !.archived = ~@]
  <2>1. r.revision > 0 /\ Update(t, q)
    BY <1>5 DEF Archive
  <2>2. TicketInv(q, "none", ps)
    BY <1>1, <2>1, ArchivedKeeps
  <2>3. ~Owned(q)
    BY <1>1 DEF Owned, Typed, Record
  <2> HIDE DEF q
  <2> QED
    BY <1>1, <1>2, <2>1, <2>2, <2>3, RecordStep
<1> QED
  BY <1>3, <1>4, <1>5

LEMMA RunStep ==
  ASSUME IInv, NEW t \in Tickets, Run(t)
  PROVE  IInv' /\ LeaseStep
<1> DEFINE r == record[t]
           n == LastAttempt(r) + 1
           s == AttemptStarted(r)
           o == RunOperation(Queued(r))
           ps == processes[t] \union {AttemptOp(n)}
<1>1. /\ TicketInv(r, "none", processes[t]) /\ ~Owned(r) /\ Typed(r)
      /\ Bookkeeping' /\ LastAttempt(r) < MaxAttempts /\ r.prepared
      /\ processes[t] \in SUBSET WriterOps /\ HasCapacity
  BY TicketFacts, BookkeepingStep DEF Run
<1>2. TicketInv(s, "run", ps)
  BY <1>1, StartedKeeps
<1>3. o \in Operation /\ o.kind = "run"
  BY DEF RunOperation, NoOperation, Operation, Stages, Queued,
         OptionalSnapshot
<1>4. ps \in SUBSET WriterOps
  <2>1. n \in AttemptIds
    BY <1>1, CurrentTyped, BoundAssumption DEF AttemptIds
  <2> QED
    BY <1>1, <2>1 DEF WriterOps
<1>5. /\ record' = [record EXCEPT ![t] = s]
      /\ operations' = [operations EXCEPT ![t] = o]
      /\ processes' = [processes EXCEPT ![t] = ps]
  BY DEF Run, Update
<1>6. LegalChange(t, s, o, ps)
  BY <1>1, <1>3, TicketFacts DEF LegalChange, Run
<1> HIDE DEF s, o, ps
<1> QED
  BY <1>1, <1>2, <1>3, <1>4, <1>5, <1>6, OneTicketStep

\* The run body reaches its next stage, with or without starting processes.
LEMMA StageStep ==
  ASSUME IInv, NEW t \in Tickets, operations[t].kind = "run",
         NEW r, TicketInv(r, "run", processes[t]),
         NEW stage \in Stages, record' = [record EXCEPT ![t] = r],
         operations' = [operations EXCEPT ![t].stage = stage],
         NEW ps \in {processes[t],
                     processes[t] \union {AttemptOp(LastAttempt(r))}},
         processes' = [processes EXCEPT ![t] = ps],
         Bookkeeping'
  PROVE  IInv' /\ LeaseStep
<1> DEFINE o == [operations[t] EXCEPT !.stage = stage]
<1>1. operations[t] \in Operation /\ processes[t] \in SUBSET WriterOps
  BY TicketFacts
<1>2. o \in Operation /\ o.kind = "run"
  BY <1>1 DEF Operation
<1>3. TicketInv(r, "run", ps)
  BY ProcessesKeep
<1>4. ps \in SUBSET WriterOps
  <2>1. LastAttempt(r) \in AttemptIds
    <3>1. Typed(r) /\ LastAttempt(r) > 0
      BY DEF TicketInv
    <3> QED
      BY <3>1, CurrentTyped, BoundAssumption DEF AttemptIds
  <2> QED
    BY <1>1, <2>1 DEF WriterOps
<1>5. operations' = [operations EXCEPT ![t] = o]
  BY DEF IInv, TypeOK
<1>6. Holds(r, o) => Holds(record[t], operations[t]) \/ HasCapacity
  BY DEF Holds
<1>7. LegalChange(t, r, o, ps)
  <2>1. Owned(r) /\ Owned(record[t])
    BY TicketFacts, Operators DEF TicketInv, Owned
  <2> QED
    BY <1>2, <2>1 DEF LegalChange
<1> HIDE DEF o
<1> QED
  BY <1>2, <1>3, <1>4, <1>5, <1>6, <1>7, OneTicketStep

LEMMA SetupPassedStep ==
  ASSUME IInv, NEW t \in Tickets, SetupPassed(t)
  PROVE  IInv' /\ LeaseStep
<1> DEFINE r == record[t]
           more == processes[t] \union {AttemptOp(LastAttempt(r))}
<1>1. /\ TicketInv(r, "run", processes[t]) /\ Typed(r)
      /\ operations[t].kind = "run" /\ Bookkeeping'
  BY TicketFacts, BookkeepingStep DEF SetupPassed, Running
<1>2. "baseline" \in Stages /\ "launch" \in Stages
  BY DEF Stages
<1>3. CASE NeedsBaseline(r)
  <2> DEFINE s == BaselineReserved(r)
  <2>1. TicketInv(s, "run", processes[t])
    BY <1>1, BaselineKeeps
  <2>2. LastAttempt(s) = LastAttempt(r)
    BY <1>1 DEF BaselineReserved, LastAttempt, Typed, Record
  <2>3. /\ record' = [record EXCEPT ![t] = s]
        /\ operations' = [operations EXCEPT ![t].stage = "baseline"]
        /\ processes' = [processes EXCEPT ![t] = more]
    BY <1>3 DEF SetupPassed, Update
  <2>4. more \in {processes[t], processes[t] \union {AttemptOp(LastAttempt(s))}}
    BY <2>2
  <2> HIDE DEF s, more
  <2> QED
    BY <1>1, <1>2, <2>1, <2>3, <2>4, StageStep
<1>4. CASE ~NeedsBaseline(r)
  <2>1. /\ record' = [record EXCEPT ![t] = r]
        /\ operations' = [operations EXCEPT ![t].stage = "launch"]
        /\ processes' = [processes EXCEPT ![t] = processes[t]]
    BY <1>4 DEF SetupPassed, IInv, TypeOK
  <2> QED
    BY <1>1, <1>2, <2>1, StageStep
<1> QED
  BY <1>3, <1>4

LEMMA BaselineDoneStep ==
  ASSUME IInv, NEW t \in Tickets, BaselineDone(t)
  PROVE  IInv' /\ LeaseStep
<1>1. /\ TicketInv(record[t], "run", processes[t])
      /\ operations[t].kind = "run" /\ Bookkeeping'
  BY TicketFacts, BookkeepingStep DEF BaselineDone, Running
<1>2. PICK c \in BOOLEAN : Update(t, BaselineSettled(record[t], c))
  BY DEF BaselineDone
<1>3. TicketInv(BaselineSettled(record[t], c), "run", processes[t])
  BY <1>1, BaselineKeeps
<1>4. /\ record' = [record EXCEPT ![t] = BaselineSettled(record[t], c)]
      /\ operations' = [operations EXCEPT ![t].stage = "launch"]
      /\ processes' = [processes EXCEPT ![t] = processes[t]]
  BY <1>2 DEF BaselineDone, Update, IInv, TypeOK
<1>5. "launch" \in Stages
  BY DEF Stages
<1> QED
  BY <1>1, <1>3, <1>4, <1>5, StageStep

LEMMA EnterRuntimeStep ==
  ASSUME IInv, NEW t \in Tickets, EnterRuntime(t)
  PROVE  IInv' /\ LeaseStep
<1> DEFINE r == record[t]
           more == processes[t] \union {AttemptOp(LastAttempt(r))}
<1>1. /\ TicketInv(r, "run", processes[t]) /\ operations[t].kind = "run"
      /\ Bookkeeping
  BY TicketFacts DEF EnterRuntime, Running
<1>2. Bookkeeping'
  BY <1>1 DEF Bookkeeping, EnterRuntime
<1>3. /\ record' = [record EXCEPT ![t] = r]
      /\ operations' = [operations EXCEPT ![t].stage = "runtime"]
      /\ processes' = [processes EXCEPT ![t] = more]
  BY DEF EnterRuntime, IInv, TypeOK
<1>4. "runtime" \in Stages
  BY DEF Stages
<1> HIDE DEF more
<1>5. more \in {processes[t], processes[t] \union {AttemptOp(LastAttempt(r))}}
  BY DEF more
<1> QED
  BY <1>1, <1>2, <1>3, <1>4, <1>5, StageStep

LEMMA BlockOnSetupStep ==
  ASSUME IInv, NEW t \in Tickets, BlockOnSetup(t)
  PROVE  IInv' /\ LeaseStep
<1> DEFINE s == SetupBlocked(record[t], worktree[t])
<1>1. /\ TicketInv(record[t], "run", processes[t]) /\ Bookkeeping'
      /\ operations[t].kind # "none" /\ worktree[t] \in Snapshots
  BY TicketFacts, BookkeepingStep DEF BlockOnSetup, Running
<1>2. AttemptOp(LastAttempt(record[t])) \notin processes[t]
  BY DEF BlockOnSetup, HasProcesses
<1>3. TicketInv(s, "none", processes[t])
  BY <1>1, <1>2, SetupBlockedKeeps
<1>4. Update(t, s) /\ Finish(t) /\ UNCHANGED processes
  BY DEF BlockOnSetup
<1> HIDE DEF s
<1> QED
  BY <1>1, <1>3, <1>4, FinishStep

LEMMA SettleStep ==
  ASSUME IInv, NEW t \in Tickets, Settle(t)
  PROVE  IInv' /\ LeaseStep
<1>1. /\ TicketInv(record[t], "run", processes[t]) /\ Bookkeeping'
      /\ operations[t].kind # "none" /\ worktree[t] \in Snapshots
  BY TicketFacts, BookkeepingStep DEF Settle, Running
<1>2. PICK o \in Outcomes, digest \in {worktree[t], NoSnapshot} :
        /\ o.cleanExit => ~HasProcesses(t, AttemptOp(LastAttempt(record[t])))
        /\ Update(t, AttemptSettled(record[t], operations[t].batch, o, digest))
  BY DEF Settle
<1> DEFINE s == AttemptSettled(record[t], operations[t].batch, o, digest)
<1>3. digest \in OptionalSnapshot
  BY <1>1, <1>2 DEF OptionalSnapshot
<1>4. o.cleanExit => AttemptOp(LastAttempt(record[t])) \notin processes[t]
  BY <1>2 DEF HasProcesses
<1>5. TicketInv(s, "none", processes[t])
  BY <1>1, <1>2, <1>3, <1>4, SettledKeeps
<1>6. Update(t, s) /\ Finish(t) /\ UNCHANGED processes
  BY <1>2 DEF Settle
<1> HIDE DEF s
<1> QED
  BY <1>1, <1>5, <1>6, FinishStep

LEMMA RunFailsStep ==
  ASSUME IInv, NEW t \in Tickets, RunFails(t)
  PROVE  IInv' /\ LeaseStep
<1> DEFINE entered == operations[t].stage = "runtime"
           s == AttemptFailed(record[t], entered)
<1>1. /\ TicketInv(record[t], "run", processes[t]) /\ Bookkeeping'
      /\ operations[t].kind # "none"
  BY TicketFacts, BookkeepingStep DEF RunFails
<1>2. entered \in BOOLEAN
  OBVIOUS
<1>3. Update(t, s) /\ Finish(t) /\ UNCHANGED processes
  BY DEF RunFails
<1> HIDE DEF entered
<1>4. TicketInv(s, "none", processes[t])
  BY <1>1, <1>2, FailedKeeps
<1> HIDE DEF s
<1> QED
  BY <1>1, <1>3, <1>4, FinishStep

LEMMA ObserveStep ==
  ASSUME IInv, NEW t \in Tickets, ObserveReceipt(t)
  PROVE  IInv' /\ LeaseStep
<1> DEFINE s == InboxSpliced(record[t], operations[t].batch)
<1>1. /\ TicketInv(record[t], "run", processes[t]) /\ Typed(record[t])
      /\ operations[t].kind = "run" /\ Bookkeeping'
  BY TicketFacts, BookkeepingStep DEF ObserveReceipt, Running, memory
<1>2. TicketInv(s, "run", processes[t])
  BY <1>1, SplicedKeeps
<1>3. Owned(s) <=> Owned(record[t])
  BY <1>1 DEF InboxSpliced, Owned, Typed, Record
<1>4. Update(t, s) /\ UNCHANGED <<operations, processes>>
  BY DEF ObserveReceipt, memory
<1> HIDE DEF s
<1> QED
  BY <1>1, <1>2, <1>3, <1>4, RecordStep

LEMMA AbortStep ==
  ASSUME IInv, NEW t \in Tickets, Abort(t)
  PROVE  IInv' /\ LeaseStep
<1> DEFINE o == [operations[t] EXCEPT !.abort = TRUE]
<1>1. /\ operations[t] \in Operation /\ Bookkeeping'
      /\ TicketInv(record[t], operations[t].kind, processes[t])
      /\ processes[t] \in SUBSET WriterOps
  BY TicketFacts, BookkeepingStep DEF Abort
<1>2. o \in Operation /\ o.kind = operations[t].kind
  BY <1>1 DEF Operation
<1>3. /\ record' = [record EXCEPT ![t] = record[t]]
      /\ operations' = [operations EXCEPT ![t] = o]
      /\ processes' = [processes EXCEPT ![t] = processes[t]]
  BY DEF Abort, IInv, TypeOK
<1>4. /\ Holds(record[t], o) => Holds(record[t], operations[t]) \/ HasCapacity
      /\ LegalChange(t, record[t], o, processes[t])
  BY <1>2 DEF Holds, LegalChange
<1> HIDE DEF o
<1>5. TicketInv(record[t], o.kind, processes[t])
  BY <1>1, <1>2
<1> QED
  BY <1>1, <1>2, <1>3, <1>4, <1>5, OneTicketStep

LEMMA VerifyStep ==
  ASSUME IInv, NEW t \in Tickets, Verify(t)
  PROVE  IInv' /\ LeaseStep
<1> DEFINE r == record[t]
           n == LastVerification(r) + 1
           s == VerificationStarted(r, worktree[t])
           o == VerifyOperation
           ps == processes[t] \union {VerificationOp(n)}
<1>1. /\ TicketInv(r, "none", processes[t]) /\ ~Owned(r) /\ Typed(r)
      /\ Bookkeeping' /\ LastVerification(r) < MaxVerifications
      /\ r.state = "awaiting_review" /\ worktree[t] \in Snapshots
      /\ processes[t] \in SUBSET WriterOps /\ HasCapacity
  BY TicketFacts, BookkeepingStep DEF Verify
<1>2. TicketInv(s, "verify", ps)
  BY <1>1, VerificationStartedKeeps
<1>3. o \in Operation /\ o.kind = "verify"
  BY DEF VerifyOperation, NoOperation, Operation, Stages, OptionalSnapshot
<1>4. ps \in SUBSET WriterOps
  <2>1. n \in 1 .. MaxVerifications
    BY <1>1, CurrentTyped, BoundAssumption
  <2> QED
    BY <1>1, <2>1 DEF WriterOps
<1>5. /\ record' = [record EXCEPT ![t] = s]
      /\ operations' = [operations EXCEPT ![t] = o]
      /\ processes' = [processes EXCEPT ![t] = ps]
  BY DEF Verify, Update
<1>6. LegalChange(t, s, o, ps)
  BY <1>1, <1>3, TicketFacts DEF LegalChange, Verify
<1> HIDE DEF s, o, ps
<1> QED
  BY <1>1, <1>2, <1>3, <1>4, <1>5, <1>6, OneTicketStep

LEMMA VerifyEndsStep ==
  ASSUME IInv, NEW t \in Tickets, VerifySettles(t) \/ VerifyFails(t)
  PROVE  IInv' /\ LeaseStep
<1> DEFINE r == record[t]
<1>1. /\ TicketInv(r, "verify", processes[t]) /\ Bookkeeping'
      /\ operations[t].kind # "none" /\ worktree[t] \in Snapshots
  BY TicketFacts, BookkeepingStep DEF VerifySettles, VerifyFails
<1>2. CASE VerifySettles(t)
  <2>1. PICK passed \in BOOLEAN :
          Update(t, VerificationSettled(r, worktree[t], passed))
    BY <1>2 DEF VerifySettles
  <2>2. VerificationOp(LastVerification(r)) \notin processes[t]
    BY <1>2 DEF VerifySettles, HasProcesses
  <2>3. TicketInv(VerificationSettled(r, worktree[t], passed), "none",
                  processes[t])
    BY <1>1, <2>2, VerificationSettledKeeps
  <2>4. Finish(t) /\ UNCHANGED processes
    BY <1>2 DEF VerifySettles
  <2> QED
    BY <1>1, <2>1, <2>3, <2>4, FinishStep
<1>3. CASE VerifyFails(t)
  <2>1. TicketInv(VerificationFailed(r), "none", processes[t])
    BY <1>1, VerificationFailedKeeps
  <2>2. Update(t, VerificationFailed(r)) /\ Finish(t) /\ UNCHANGED processes
    BY <1>3 DEF VerifyFails
  <2> QED
    BY <1>1, <2>1, <2>2, FinishStep
<1> QED
  BY <1>2, <1>3

LEMMA RecordReviewStep ==
  ASSUME IInv, NEW t \in Tickets, NEW verdict \in Verdicts,
         RecordReview(t, verdict)
  PROVE  IInv' /\ LeaseStep
<1> DEFINE s == ReviewRecorded(record[t], worktree[t], verdict)
<1>1. /\ TicketInv(record[t], "none", processes[t]) /\ ~Owned(record[t])
      /\ Typed(record[t]) /\ operations[t].kind = "none" /\ Bookkeeping'
      /\ worktree[t] \in Snapshots /\ record[t].state = "awaiting_review"
  BY TicketFacts, BookkeepingStep DEF RecordReview, memory
<1>2. TicketInv(s, "none", processes[t])
  BY <1>1, ReviewKeeps
<1>3. ~Owned(s)
  BY <1>1 DEF Owned, ReviewRecorded, Typed, Record
<1>4. Update(t, s) /\ UNCHANGED <<operations, processes>>
  BY DEF RecordReview, memory
<1> HIDE DEF s
<1> QED
  BY <1>1, <1>2, <1>3, <1>4, RecordStep

LEMMA RecoverStep ==
  ASSUME IInv, NEW t \in Tickets, NEW kind \in ContinuationKinds,
         Recover(t, kind)
  PROVE  IInv' /\ LeaseStep
<1> DEFINE r == record[t]
           s == RecoveryStarted(r)
           o == RecoverOperation(kind, worktree[t])
<1>1. /\ TicketInv(r, "none", processes[t]) /\ Bookkeeping'
      /\ worktree[t] \in Snapshots /\ processes[t] \in SUBSET WriterOps
  BY TicketFacts, BookkeepingStep DEF Recover, Live
<1>2. Restartable(r)
  BY DEF Recover, Recoverable, Restartable
<1>3. TicketInv(s, "recover", processes[t])
  BY <1>1, <1>2, RecoveryStartedKeeps
<1>4. o \in Operation /\ o.kind = "recover"
  BY <1>1 DEF RecoverOperation, NoOperation, Operation, Stages,
              OptionalSnapshot
<1>5. /\ record' = [record EXCEPT ![t] = s]
      /\ operations' = [operations EXCEPT ![t] = o]
      /\ processes' = [processes EXCEPT ![t] = processes[t]]
  BY DEF Recover, Update, IInv, TypeOK
<1>6. Holds(s, o) => Holds(r, operations[t]) \/ HasCapacity
  BY DEF Recover, Holds
<1>7. LegalChange(t, s, o, processes[t])
  BY <1>4 DEF LegalChange, Recover, Live
<1> HIDE DEF s, o
<1> QED
  BY <1>1, <1>3, <1>4, <1>5, <1>6, <1>7, OneTicketStep

LEMMA RecoverEndsStep ==
  ASSUME IInv, NEW t \in Tickets, RecoverySettles(t) \/ RecoveryFails(t)
  PROVE  IInv' /\ LeaseStep
<1> DEFINE r == record[t]
           o == operations[t]
<1>1. /\ TicketInv(r, "recover", processes[t]) /\ Bookkeeping'
      /\ o.kind # "none" /\ o \in Operation
  BY TicketFacts, BookkeepingStep DEF RecoverySettles, RecoveryFails
<1>2. CASE RecoverySettles(t)
  <2>1. /\ processes[t] \cap UncleanOps(r) = {}
        /\ o.continuation \in ContinuationKinds \union {"none"}
        /\ o.digest \in OptionalSnapshot
    BY <1>1, <1>2 DEF RecoverySettles, WritersGone, Operation
  <2>2. TicketInv(TicketRecovered(r, o.continuation, o.digest), "none",
                  processes[t])
    BY <1>1, <1>2, <2>1, RecoveredKeeps
  <2>3. /\ Update(t, TicketRecovered(r, o.continuation, o.digest))
        /\ Finish(t) /\ UNCHANGED processes
    BY <1>2 DEF RecoverySettles
  <2> QED
    BY <1>1, <2>2, <2>3, FinishStep
<1>3. CASE RecoveryFails(t)
  <2>1. TicketInv(RecoveryFailed(r), "none", processes[t])
    BY <1>1, RecoveryFailedKeeps
  <2>2. Update(t, RecoveryFailed(r)) /\ Finish(t) /\ UNCHANGED processes
    BY <1>3 DEF RecoveryFails
  <2> QED
    BY <1>1, <2>1, <2>2, FinishStep
<1> QED
  BY <1>2, <1>3

\* Instructions are recorded, consumed and settled without an owner change.
LEMMA InstructionActionStep ==
  ASSUME IInv, NEW t \in Tickets, NEW i \in Instructions,
         \/ ObserveConsumption(t, i) \/ QueueInstruction(t, i)
         \/ SendInstruction(t, i) \/ SendReceived(t, i) \/ SendUncertain(t, i)
  PROVE  IInv' /\ LeaseStep
<1> DEFINE r == record[t]
           kind == operations[t].kind
<1>1. TicketInv(r, kind, processes[t]) /\ Typed(r) /\ Bookkeeping
  BY TicketFacts
<1>2. Bookkeeping'
  <2>1. CASE ObserveConsumption(t, i) \/ QueueInstruction(t, i)
    BY <1>1, <2>1 DEF Bookkeeping, ObserveConsumption, QueueInstruction, memory
  <2>2. CASE SendInstruction(t, i)
    <3>1. /\ worktree' = worktree
          /\ awaiting' = [awaiting EXCEPT ![t] = awaiting[t] \union {i}]
          /\ handed' = [handed EXCEPT ![t] =
                          [handed[t] EXCEPT ![i] = handed[t][i] + 1]]
      BY <1>1, <2>2 DEF SendInstruction, Bookkeeping
    <3>2. [handed[t] EXCEPT ![i] = handed[t][i] + 1] \in [Instructions -> Nat]
      BY <1>1 DEF Bookkeeping
    <3> QED
      BY <1>1, <3>1, <3>2 DEF Bookkeeping
  <2>3. CASE SendReceived(t, i) \/ SendUncertain(t, i)
    BY <1>1, <2>3 DEF Bookkeeping, SendReceived, SendUncertain
  <2> QED
    BY <2>1, <2>2, <2>3
<1>3. PICK s \in {InstructionConsumed(r, i), InstructionReceived(r, i),
                  InstructionUncertain(r, i)}
                   \union {InstructionRecorded(r, i, live) : live \in BOOLEAN} :
        Update(t, s) /\ UNCHANGED <<operations, processes>>
  BY DEF ObserveConsumption, QueueInstruction, SendInstruction, SendReceived,
         SendUncertain, memory
<1>4. TicketInv(s, kind, processes[t])
  BY <1>1, <1>3, InstructionKeeps
<1>5. Owned(s) <=> Owned(r)
  BY <1>1, <1>3
     DEF Owned, InstructionConsumed, InstructionReceived,
         InstructionUncertain, InstructionRecorded, Typed, Record
<1> QED
  BY <1>2, <1>3, <1>4, <1>5, RecordStep

LEMMA EnvironmentStep ==
  ASSUME IInv, NEW t \in Tickets, EditWorktree(t) \/ ProcessesExit(t)
  PROVE  IInv' /\ LeaseStep
<1> DEFINE r == record[t]
           o == operations[t]
<1>1. /\ TicketInv(r, o.kind, processes[t]) /\ Bookkeeping
      /\ o \in Operation /\ processes[t] \in SUBSET WriterOps
  BY TicketFacts
<1>2. Bookkeeping'
  BY <1>1 DEF Bookkeeping, EditWorktree, ProcessesExit, memory
<1>3. PICK ps \in SUBSET processes[t] :
        processes' = [processes EXCEPT ![t] = ps]
  <2>1. CASE EditWorktree(t)
    BY <2>1 DEF EditWorktree, IInv, TypeOK
  <2>2. CASE ProcessesExit(t)
    BY <2>2 DEF ProcessesExit
  <2> QED
    BY <2>1, <2>2
<1>4. TicketInv(r, o.kind, ps) /\ ps \in SUBSET WriterOps
  BY <1>1, ProcessesKeep
<1>5. /\ record' = [record EXCEPT ![t] = r]
      /\ operations' = [operations EXCEPT ![t] = o]
  BY DEF EditWorktree, ProcessesExit, memory, IInv, TypeOK
<1>6. LegalChange(t, r, o, ps)
  BY DEF LegalChange
<1> QED
  BY <1>1, <1>2, <1>3, <1>4, <1>5, <1>6, OneTicketStep

\* A crash, with the records the dying controller left behind.
LEMMA RestartedStep ==
  ASSUME IInv, NEW records \in [Tickets -> Record],
         \A t \in Tickets :
           /\ TicketInv(records[t], operations[t].kind, processes[t])
           /\ Owned(records[t]) <=> Owned(record[t]),
         Restarted(records)
  PROVE  IInv' /\ LeaseStep
<1>1. ASSUME NEW t \in Tickets
      PROVE  /\ TicketInv(record'[t], operations'[t].kind, processes'[t])
             /\ Typed(record'[t])
  <2>1. TicketInv(Fenced(records[t]), "none", processes[t])
    BY TicketFacts, FencedKeeps
  <2>2. /\ record'[t] = Fenced(records[t]) /\ processes' = processes
        /\ operations'[t].kind = "none"
    BY DEF Restarted, NoOperation
  <2>3. TicketInv(record'[t], operations'[t].kind, processes'[t])
    BY <2>1, <2>2
  <2> QED
    BY <2>3 DEF TicketInv
<1>2. TypeOK'
  <2>1. record' \in [Tickets -> Record]
    <3>1. \A t \in Tickets : record'[t] \in Record
      BY <1>1 DEF Typed
    <3>2. record' = [t \in Tickets |-> record'[t]]
      BY DEF Restarted
    <3> QED
      BY <3>1, <3>2
  <2>2. NoOperation \in Operation
    BY DEF NoOperation, Operation, Stages, OptionalSnapshot
  <2>3. /\ worktree' \in [Tickets -> Snapshots]
        /\ processes' \in [Tickets -> SUBSET WriterOps]
        /\ operations' \in [Tickets -> Operation]
        /\ awaiting' \in [Tickets -> SUBSET Instructions]
        /\ handed' \in [Tickets -> [Instructions -> Nat]]
    BY <2>2 DEF Restarted, IInv, TypeOK
  <2>4. \A t \in Tickets : /\ LastAttempt(record'[t]) <= MaxAttempts
                           /\ LastVerification(record'[t]) <= MaxVerifications
    BY <1>1 DEF Typed
  <2> QED
    BY <2>1, <2>3, <2>4 DEF TypeOK, LastAttempt, LastVerification
<1>3. CapacityRespected'
  <2> DEFINE A == ActiveTickets
             B == {t \in Tickets : (Live(t) \/ Owned(record[t]))'}
  <2>1. \A t \in Tickets : Owned(record'[t]) => Owned(record[t])
    BY DEF Restarted, Fenced
  <2>2. \A t \in Tickets : operations'[t].kind = "none"
    BY DEF Restarted, NoOperation
  <2>3. B \subseteq A
    BY <2>1, <2>2 DEF ActiveTickets, Live, Owned
  <2>4. IsFiniteSet(A) /\ Cardinality(A) \in Nat /\ Cardinality(A) <= Capacity
    BY ActiveIsFinite DEF IInv
  <2>5. IsFiniteSet(B) /\ Cardinality(B) <= Cardinality(A)
    BY <2>3, <2>4, FS_Subset
  <2>6. Cardinality(B) \in Nat
    BY <2>5, FS_CardinalityType
  <2>7. Cardinality(B) <= Capacity
    BY <2>4, <2>5, <2>6, CapacityAssumption
  <2> QED
    BY <2>7 DEF CapacityRespected
<1>4. IInv'
  BY <1>1, <1>2, <1>3
     DEF IInv, TicketInv, Typed, LastAttempt, LastVerification, Owned,
         UncleanOps, Restartable
<1>5. LeaseStep
  <2>1. ASSUME NEW t \in Tickets
        PROVE  LeaseOf(t)' = IF LeaseOf(t) = "free" THEN "free" ELSE "fenced"
    <3>1. TicketInv(record[t], operations[t].kind, processes[t])
      BY TicketFacts
    <3>2. LeaseOf(t) = "free" <=> ~Owned(record[t])
      BY <3>1, TicketFacts, Operators DEF LeaseOf, TicketInv, Owned
    <3>3. record'[t] = Fenced(records[t]) /\ operations'[t].kind = "none"
      BY DEF Restarted, NoOperation
    <3>4. Owned(record'[t]) <=> Owned(record[t])
      <4>1. Typed(records[t])
        BY DEF TicketInv
      <4> QED
        BY <3>3, <4>1, Operators DEF Fenced, Owned, Typed, Record
    <3>5. LeaseOf(t)' = IF Owned(record'[t]) THEN "fenced" ELSE "free"
      BY <3>3 DEF LeaseOf, Owned
    <3> QED
      BY <3>2, <3>4, <3>5
  <2>2. Lease!Crash
    BY <2>1 DEF Lease!Crash, Restarted
  <2> QED
    BY <2>2 DEF LeaseStep, Lease!Next
<1> QED
  BY <1>4, <1>5

LEMMA RestartStep ==
  ASSUME IInv, Restart
  PROVE  IInv' /\ LeaseStep
<1>1. record \in [Tickets -> Record]
  BY DEF IInv, TypeOK
<1>2. \A t \in Tickets :
        TicketInv(record[t], operations[t].kind, processes[t])
  BY DEF IInv
<1> QED
  BY <1>1, <1>2, RestartedStep DEF Restart

LEMMA RestartInPrepareStep ==
  ASSUME IInv, NEW t \in Tickets, RestartInPrepare(t)
  PROVE  IInv' /\ LeaseStep
<1> DEFINE q == TicketReserved(record[t])
           records == [record EXCEPT ![t] = q]
<1>1. /\ TicketInv(record[t], "none", processes[t]) /\ ~Owned(record[t])
      /\ operations[t].kind = "none" /\ record[t].revision < MaxRevision
  BY TicketFacts DEF RestartInPrepare, CanReserve
<1>2. TicketInv(q, "none", processes[t]) /\ ~Owned(q)
  BY <1>1, ReservedKeeps
<1>3. record \in [Tickets -> Record] /\ q \in Record
  BY <1>2 DEF IInv, TypeOK, TicketInv, Typed
<1>4. Restarted(records)
  BY DEF RestartInPrepare
<1> HIDE DEF q
<1>5. records \in [Tickets -> Record]
  BY <1>3
<1>6. ASSUME NEW u \in Tickets
      PROVE  /\ TicketInv(records[u], operations[u].kind, processes[u])
             /\ Owned(records[u]) <=> Owned(record[u])
  <2>1. TicketInv(record[u], operations[u].kind, processes[u])
    BY TicketFacts
  <2>2. CASE u = t
    BY <1>1, <1>2, <1>3, <2>2
  <2>3. CASE u # t
    <3>1. records[u] = record[u]
      BY <1>3, <2>3
    <3> HIDE DEF records
    <3> QED
      BY <2>1, <3>1
  <2> QED
    BY <2>2, <2>3
<1> HIDE DEF records
<1> QED
  BY <1>4, <1>5, <1>6, RestartedStep

-----------------------------------------------------------------------------
(***************************************************************************)
(* Part 4.  The theorems.                                                  *)
(***************************************************************************)
LEMMA InitInv == Init => IInv
<1> SUFFICES ASSUME Init PROVE IInv
  OBVIOUS
<1>1. /\ NoRecord \in Record /\ LastAttempt(NoRecord) <= MaxAttempts
      /\ LastVerification(NoRecord) <= MaxVerifications
  BY NoRecordTyped DEF Typed
<1>2. NoOperation \in Operation /\ NoOperation.kind = "none"
  BY DEF NoOperation, Operation, Stages, OptionalSnapshot
<1>3. TypeOK
  BY <1>1, <1>2 DEF Init, TypeOK
<1>4. \A t \in Tickets :
        /\ TicketInv(record[t], operations[t].kind, processes[t])
        /\ ~Live(t) /\ ~Owned(record[t])
  BY <1>2, NoRecordKeeps DEF Init, Live, Owned, NoRecord
<1>5. CapacityRespected
  <2>1. ActiveTickets = {}
    BY <1>4 DEF ActiveTickets
  <2>2. Cardinality(ActiveTickets) = 0
    BY <2>1, FS_EmptySet
  <2> QED
    BY <2>2, ActiveIsFinite, CapacityAssumption
<1> QED
  BY <1>3, <1>4, <1>5 DEF IInv

LEMMA StutterInv ==
  ASSUME IInv, UNCHANGED vars
  PROVE  IInv' /\ LeaseStep
<1>1. /\ record' = record /\ worktree' = worktree /\ processes' = processes
      /\ operations' = operations /\ awaiting' = awaiting /\ handed' = handed
  BY DEF vars
<1>2. TypeOK'
  BY <1>1 DEF IInv, TypeOK, LastAttempt, LastVerification
<1>3. ASSUME NEW t \in Tickets
      PROVE  TicketInv(record[t], operations[t].kind, processes[t])'
  <2>1. TicketInv(record'[t], operations'[t].kind, processes'[t])
    BY <1>1, TicketFacts
  <2> QED
    BY <2>1 DEF TicketInv, Typed, LastAttempt, LastVerification, Owned,
                UncleanOps, Restartable
<1>4. CapacityRespected'
  BY <1>1 DEF IInv, CapacityRespected, Live, Owned
<1>5. LeaseStep
  BY <1>1 DEF LeaseStep, Lease!leaseVars, LeaseOf, Owned
<1> QED
  BY <1>2, <1>3, <1>4, <1>5 DEF IInv

LEMMA StepInv == IInv /\ [Next]_vars => IInv' /\ LeaseStep
<1> SUFFICES ASSUME IInv, [Next]_vars PROVE IInv' /\ LeaseStep
  OBVIOUS
<1>1. CASE UNCHANGED vars
  BY <1>1, StutterInv
<1>2. CASE Restart
  BY <1>2, RestartStep
<1>3. ASSUME NEW t \in Tickets, TicketStep(t) PROVE IInv' /\ LeaseStep
  <2>1. CASE \/ PrepareRevision(t) \/ PrepareRevisionBlocked(t)
             \/ PrepareAgain(t) \/ PrepareAgainBlocked(t) \/ Archive(t)
    BY <2>1, PrepareStep
  <2>2. CASE Run(t)
    BY <2>2, RunStep
  <2>3. CASE SetupPassed(t)
    BY <2>3, SetupPassedStep
  <2>4. CASE BlockOnSetup(t)
    BY <2>4, BlockOnSetupStep
  <2>5. CASE BaselineDone(t)
    BY <2>5, BaselineDoneStep
  <2>6. CASE EnterRuntime(t)
    BY <2>6, EnterRuntimeStep
  <2>7. CASE ObserveReceipt(t)
    BY <2>7, ObserveStep
  <2>8. CASE Settle(t)
    BY <2>8, SettleStep
  <2>9. CASE RunFails(t)
    BY <2>9, RunFailsStep
  <2>10. CASE Cancel(t)
    BY <2>10, AbortStep DEF Cancel
  <2>11. CASE Verify(t)
    BY <2>11, VerifyStep
  <2>12. CASE VerifySettles(t) \/ VerifyFails(t)
    BY <2>12, VerifyEndsStep
  <2>13. ASSUME NEW verdict \in Verdicts, RecordReview(t, verdict) PROVE IInv' /\ LeaseStep
    BY <2>13, RecordReviewStep
  <2>14. ASSUME NEW kind \in ContinuationKinds, Recover(t, kind) PROVE IInv' /\ LeaseStep
    BY <2>14, RecoverStep
  <2>15. CASE RecoverySettles(t) \/ RecoveryFails(t)
    BY <2>15, RecoverEndsStep
  <2>16. CASE EditWorktree(t) \/ ProcessesExit(t)
    BY <2>16, EnvironmentStep
  <2>17. CASE RestartInPrepare(t)
    BY <2>17, RestartInPrepareStep
  <2> QED
    BY <1>3, <2>1, <2>2, <2>3, <2>4, <2>5, <2>6, <2>7, <2>8, <2>9, <2>10,
       <2>11, <2>12, <2>13, <2>14, <2>15, <2>16, <2>17 DEF TicketStep
<1>4. ASSUME NEW t \in Tickets, InstructionStep(t) PROVE IInv' /\ LeaseStep
  <2>1. ASSUME NEW named \in SUBSET Instructions, CancelIfUnconsumed(t, named)
        PROVE  IInv' /\ LeaseStep
    BY <2>1, AbortStep DEF CancelIfUnconsumed
  <2>2. ASSUME NEW i \in Instructions,
               \/ ObserveConsumption(t, i) \/ QueueInstruction(t, i)
               \/ SendInstruction(t, i) \/ SendReceived(t, i)
               \/ SendUncertain(t, i)
        PROVE  IInv' /\ LeaseStep
    BY <2>2, InstructionActionStep
  <2> QED
    BY <1>4, <2>1, <2>2 DEF InstructionStep
<1> QED
  BY <1>1, <1>2, <1>3, <1>4 DEF Next

\* IInv is an invariant: it holds initially and every action preserves it.
THEOREM InductiveInvariant == Spec => []IInv
BY InitInv, StepInv, PTL DEF Spec

\* What the invariant implies of one ticket.
LEMMA InvImplies ==
  ASSUME IInv
  PROVE  /\ TypeOK /\ CapacityRespected
         /\ SingleWriter /\ CleanWhenFree /\ RunningIsLive
         /\ FencedIsRecoverable
<1>1. TypeOK /\ CapacityRespected
  BY DEF IInv
<1>2. SingleWriter
  BY TicketFacts DEF SingleWriter, TicketInv
<1>3. CleanWhenFree
  BY TicketFacts DEF CleanWhenFree, TicketInv
<1>4. RunningIsLive
  BY TicketFacts DEF RunningIsLive, TicketInv
<1>5. FencedIsRecoverable
  BY TicketFacts DEF FencedIsRecoverable, TicketInv, Live, Restartable
<1> QED
  BY <1>1, <1>2, <1>3, <1>4, <1>5

\* Every variable keeps its type, the bounds on the histories included.
THEOREM TypeCorrect == Spec => []TypeOK
BY InductiveInvariant, InvImplies, PTL

\* Live and fenced tickets never exceed the capacity, for any number of
\* tickets and any capacity.
THEOREM CapacityTheorem == Spec => []CapacityRespected
BY InductiveInvariant, InvImplies, PTL

\* A worktree has at most one operation with processes, and an owner while
\* it has one, through crashes, failed runs and failed recoveries.
THEOREM SingleWriterTheorem == Spec => []SingleWriter
BY InductiveInvariant, InvImplies, PTL

\* An unowned ticket has proven the exit of every operation it ever started.
THEOREM CleanWhenFreeTheorem == Spec => []CleanWhenFree
BY InductiveInvariant, InvImplies, PTL

\* "running" means that this process runs the current attempt.
THEOREM RunningIsLiveTheorem == Spec => []RunningIsLive
BY InductiveInvariant, InvImplies, PTL

\* Whoever holds a slot without a live operation can be recovered.
THEOREM FencedIsRecoverableTheorem == Spec => []FencedIsRecoverable
BY InductiveInvariant, InvImplies, PTL

\* The controller implements the abstract lease: nobody writes without a
\* lease, a crash fences, and a fence is lifted by an accounted recovery.
THEOREM ImplementsLeaseTheorem == Spec => ImplementsLease
<1>1. Init => Lease!Init
  <2> SUFFICES ASSUME Init PROVE Lease!Init
    OBVIOUS
  <2>1. \A t \in Tickets : LeaseOf(t) = "free" /\ processes[t] = {}
    BY DEF Init, LeaseOf, NoOperation, NoRecord, Owned
  <2> QED
    BY <2>1 DEF Lease!Init
<1>2. IInv /\ [Next]_vars => [Lease!Next]_(Lease!leaseVars)
  BY StepInv DEF LeaseStep
<1> QED
  BY <1>1, <1>2, InductiveInvariant, PTL
     DEF Spec, ImplementsLease, Lease!Spec
=============================================================================
