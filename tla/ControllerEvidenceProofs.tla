----------------------- MODULE ControllerEvidenceProofs -----------------------
(***************************************************************************)
(* Machine-checked proofs about the evidence of a ticket: what a review    *)
(* finds, what an accepted ticket rests on, where a continuation comes     *)
(* from, that nothing recorded changes later, and that an instruction is   *)
(* handed to a runtime once.  They rest on the ownership invariant of      *)
(* module ControllerProofs.                                                *)
(***************************************************************************)
EXTENDS ControllerProofs

(***************************************************************************)
(* Part 1.  The inductive invariant.  Neither PromotedEvidence nor         *)
(* ContinuationLineage is inductive: a recovery promotes an interrupted    *)
(* verification again, and a run starts from what a recovery found, so the *)
(* invariant says what a live run, verification or recovery, a pending     *)
(* continuation and an interrupted verification each still know about the  *)
(* current attempt.                                                        *)
(***************************************************************************)
\* The body of PromotedEvidence.
Reviewable(r) ==
  LET a == CurrentAttempt(r)
  IN /\ LastAttempt(r) > 0
     /\ a.revision = r.revision
     /\ a.receipt /\ a.completed /\ a.cleanExit
     /\ a.snapshot \in Snapshots \ OutOfScope
     /\ a.delivery = "submitted"
     /\ a.mode = "delivery" => a.snapshot = a.from

\* The body of AcceptedEvidence.
Accepted(r) ==
  /\ r.review.verdict = "accept"
  /\ r.review.revision = r.revision
  /\ r.review.attempt = LastAttempt(r)
  /\ CurrentAttempt(r).snapshot = r.review.snapshot
  /\ VerifiedUnchanged(r, r.review.snapshot)

\* The body of ContinuationLineage.
Descends(attempts, n) ==
  LET a == attempts[n]
      prior == attempts[n - 1]
  IN a.mode # "fresh" =>
       /\ n > 1
       /\ prior.revision = a.revision
       /\ prior.snapshot = a.from
       /\ prior.receipt /\ prior.cleanExit
       /\ IF a.mode = "answer"
          THEN prior.completed /\ prior.delivery = "blocked"
          ELSE prior.delivery = "none" /\ prior.snapshot \notin OutOfScope
Descent(r) == \A n \in DOMAIN r.attempts : Descends(r.attempts, n)

\* What the next attempt may continue.  The exit of the attempt is proven
\* when the recovery starts, so it also is when the run does.
Continues(r, kind, digest) ==
  LET a == CurrentAttempt(r)
  IN /\ LastAttempt(r) > 0
     /\ a.snapshot = digest
     /\ a.receipt /\ a.cleanExit
     /\ IF kind = "answer" THEN a.completed /\ a.delivery = "blocked"
                           ELSE a.delivery = "none" /\ digest \notin OutOfScope

RunInv(r, o) ==
  o.kind = "run" =>
    /\ CurrentAttempt(r).revision = r.revision
    /\ CurrentAttempt(r).snapshot = NoSnapshot
    /\ r.pending.kind = "none" /\ r.interrupted = "none"
    /\ o.stage # "runtime" => ~CurrentAttempt(r).receipt
    /\ o.stage = "baseline" =>
         r.baselines[r.revision] =
           [status |-> "reserved", attempt |-> LastAttempt(r)]

VerifyInv(r, o) ==
  /\ o.kind = "verify" =>
       /\ r.interrupted = "none"
       /\ r.verifications[LastVerification(r)].before =
            CurrentAttempt(r).snapshot
  /\ r.active.kind = "verification" =>
       o.kind = "verify" \/ r.interrupted = "verification"

RecoverInv(r, o) ==
  o.kind = "recover" =>
    /\ o.continuation \in ContinuationKinds
    /\ o.continuation # "restart" => Continues(r, o.continuation, o.digest)

PendingInv(r) ==
  r.pending.kind # "none" => Continues(r, r.pending.kind, r.pending.snapshot)

InterruptedInv(r) ==
  /\ r.interrupted # "none" => Owned(r)
  /\ r.interrupted = "verification" =>
       /\ r.prepared
       /\ LastAttempt(r) > 0
       /\ CurrentAttempt(r).mode = "delivery" =>
            CurrentAttempt(r).snapshot = CurrentAttempt(r).from

PreparedInv(r) ==
  /\ ~r.prepared => r.state \in {"absent", "ready", "blocked", "interrupted"}
  /\ r.revision > 0 => r.state # "absent"

Evidence(r, o) ==
  /\ r.state = "awaiting_review" => Reviewable(r)
  /\ r.state = "accepted" => Accepted(r)
  /\ Descent(r)
  /\ RunInv(r, o) /\ VerifyInv(r, o) /\ RecoverInv(r, o)
  /\ PendingInv(r) /\ InterruptedInv(r) /\ PreparedInv(r)

\* What a transaction may change of the evidence on record.
Frozen(r, s) ==
  /\ AttemptsFrozen(r, s)
  /\ VerificationsFrozen(r, s)
  /\ BaselinesFrozen(r, s)

\* s, with operation q, may follow a record r.
Follows(r, s, q) == Evidence(s, q) /\ Frozen(r, s)

-----------------------------------------------------------------------------
(***************************************************************************)
(* Part 2.  Every transaction of TicketRecord keeps the evidence.          *)
(***************************************************************************)
\* What is said of the attempts and of a review is kept with them.
LEMMA SameHistory ==
  ASSUME NEW r, NEW s, s.attempts = r.attempts
  PROVE  /\ LastAttempt(s) = LastAttempt(r)
         /\ CurrentAttempt(s) = CurrentAttempt(r)
         /\ Descent(r) => Descent(s)
         /\ s.revision = r.revision => (Reviewable(s) <=> Reviewable(r))
         /\ \A kind, digest :
              Continues(s, kind, digest) <=> Continues(r, kind, digest)
         /\ /\ s.revision = r.revision /\ s.review = r.review
            /\ s.verifications = r.verifications
            => (Accepted(s) <=> Accepted(r))
<1>1. /\ LastAttempt(s) = LastAttempt(r)
      /\ CurrentAttempt(s) = CurrentAttempt(r)
  BY DEF LastAttempt, CurrentAttempt
<1>2. Descent(r) => Descent(s)
  BY DEF Descent
<1>3. s.revision = r.revision => (Reviewable(s) <=> Reviewable(r))
  BY <1>1 DEF Reviewable
<1>4. \A kind, digest :
        Continues(s, kind, digest) <=> Continues(r, kind, digest)
  BY <1>1 DEF Continues
<1>5. ASSUME s.revision = r.revision, s.review = r.review,
             s.verifications = r.verifications
      PROVE  Accepted(s) <=> Accepted(r)
  <2>1. ReviewedVerifications(s) = ReviewedVerifications(r)
    BY <1>1, <1>5 DEF ReviewedVerifications
  <2>2. \A digest : VerifiedUnchanged(s, digest) <=>
                      VerifiedUnchanged(r, digest)
    BY <1>5, <2>1 DEF VerifiedUnchanged
  <2> QED
    BY <1>1, <1>5, <2>2 DEF Accepted
<1> QED
  BY <1>1, <1>2, <1>3, <1>4, <1>5

LEMMA SameFrozen ==
  ASSUME NEW r, NEW s
  PROVE  /\ s.attempts = r.attempts => AttemptsFrozen(r, s)
         /\ s.verifications = r.verifications => VerificationsFrozen(r, s)
         /\ s.baselines = r.baselines => BaselinesFrozen(r, s)
BY DEF AttemptsFrozen, VerificationsFrozen, BaselinesFrozen

\* Nothing but instructions, the archive flag, or the stage of a run.
LEMMA StageFollows ==
  ASSUME NEW r, NEW o, Evidence(r, o), NEW s, NEW q,
         s.attempts = r.attempts, s.verifications = r.verifications,
         s.baselines = r.baselines, s.review = r.review,
         s.revision = r.revision, s.state = r.state,
         s.prepared = r.prepared, s.active = r.active,
         s.interrupted = r.interrupted, s.pending = r.pending,
         q.kind = o.kind, q.continuation = o.continuation,
         q.digest = o.digest,
         q.stage = o.stage \/ q.stage = "runtime"
           \/ (q.stage = "launch" /\ o.stage # "runtime")
  PROVE  Follows(r, s, q)
<1>1. Frozen(r, s)
  BY SameFrozen DEF Frozen
<1>2. /\ LastAttempt(s) = LastAttempt(r)
      /\ CurrentAttempt(s) = CurrentAttempt(r)
      /\ LastVerification(s) = LastVerification(r)
      /\ Owned(s) <=> Owned(r)
  BY SameHistory DEF LastVerification, Owned
<1>3. RunInv(s, q)
  BY <1>2 DEF Evidence, RunInv
<1>4. VerifyInv(s, q)
  BY <1>2 DEF Evidence, VerifyInv
<1>5. RecoverInv(s, q) /\ PendingInv(s)
  BY SameHistory DEF Evidence, RecoverInv, PendingInv
<1>6. InterruptedInv(s) /\ PreparedInv(s)
  BY <1>2 DEF Evidence, InterruptedInv, PreparedInv
<1>7. /\ s.state = "awaiting_review" => Reviewable(s)
      /\ s.state = "accepted" => Accepted(s)
      /\ Descent(s)
  BY SameHistory DEF Evidence
<1> QED
  BY <1>1, <1>3, <1>4, <1>5, <1>6, <1>7 DEF Follows, Evidence

\* An unowned ticket waits for nothing that a live operation knows about.
LEMMA IdleEvidence ==
  ASSUME NEW r, ~Owned(r)
  PROVE  /\ RunInv(r, NoOperation) /\ VerifyInv(r, NoOperation)
         /\ RecoverInv(r, NoOperation)
<1>1. NoOperation.kind = "none"
  BY DEF NoOperation
<1>2. r.active.kind # "verification"
  BY DEF Owned, Nobody, Owner
<1> QED
  BY <1>1, <1>2 DEF RunInv, VerifyInv, RecoverInv

LEMMA NoRecordEvidence == Evidence(NoRecord, NoOperation)
<1>1. ~Owned(NoRecord)
  BY DEF Owned, NoRecord
<1>2. /\ NoRecord.state = "absent" /\ NoRecord.revision = 0
      /\ NoRecord.pending.kind = "none" /\ NoRecord.interrupted = "none"
      /\ NoRecord.attempts = << >>
  BY DEF NoRecord, NoPending
<1>3. Descent(NoRecord)
  BY <1>2 DEF Descent
<1>4. PendingInv(NoRecord) /\ InterruptedInv(NoRecord) /\ PreparedInv(NoRecord)
  BY <1>2 DEF PendingInv, InterruptedInv, PreparedInv
<1> QED
  BY <1>1, <1>2, <1>3, <1>4, IdleEvidence DEF Evidence

\* A preparation: of a new revision (nothing pending, nothing interrupted)
\* or of the same one again.
LEMMA PreparationFollows ==
  ASSUME NEW r, Evidence(r, NoOperation), ~Owned(r), NEW s,
         s.attempts = r.attempts, s.verifications = r.verifications,
         s.baselines = r.baselines, s.active = r.active,
         s.state \in {"ready", "blocked"},
         s.pending = NoPending \/ s.pending = r.pending,
         s.interrupted = "none" \/ s.interrupted = r.interrupted
  PROVE  Follows(r, s, NoOperation)
<1>1. Frozen(r, s)
  BY SameFrozen DEF Frozen
<1>2. ~Owned(s) /\ ~Owned(r)
  BY DEF Owned
<1>3. PendingInv(s)
  BY SameHistory DEF Evidence, PendingInv, NoPending
<1>4. InterruptedInv(s)
  BY <1>2 DEF Evidence, InterruptedInv
<1>5. PreparedInv(s)
  BY DEF PreparedInv
<1>6. Descent(s)
  BY SameHistory DEF Evidence
<1> QED
  BY <1>1, <1>2, <1>3, <1>4, <1>5, <1>6, IdleEvidence DEF Follows, Evidence

LEMMA PreparedFollows ==
  ASSUME NEW r, Typed(r), Evidence(r, NoOperation), ~Owned(r)
  PROVE  /\ Follows(r, TicketPrepared(TicketReserved(r)), NoOperation)
         /\ Follows(r, TicketBlocked(TicketReserved(r)), NoOperation)
         /\ Follows(r, TicketReserved(r), NoOperation)
         /\ Follows(r, TicketPrepared(r), NoOperation)
         /\ Follows(r, TicketBlocked(r), NoOperation)
<1> DEFINE outcomes == {TicketPrepared(TicketReserved(r)),
                        TicketBlocked(TicketReserved(r)), TicketReserved(r),
                        TicketPrepared(r), TicketBlocked(r)}
<1>1. ASSUME NEW s \in outcomes
      PROVE  /\ s.attempts = r.attempts /\ s.verifications = r.verifications
             /\ s.baselines = r.baselines /\ s.active = r.active
             /\ s.state \in {"ready", "blocked"}
             /\ s.pending = NoPending \/ s.pending = r.pending
             /\ s.interrupted = "none" \/ s.interrupted = r.interrupted
  BY DEF TicketPrepared, TicketBlocked, TicketReserved, Typed, Record
<1> HIDE DEF outcomes
<1>2. \A s \in outcomes : Follows(r, s, NoOperation)
  BY <1>1, PreparationFollows
<1> QED
  BY <1>2 DEF outcomes

-----------------------------------------------------------------------------
(***************************************************************************)
(* Transactions of a run.                                                  *)
(***************************************************************************)
\* Updating the current attempt: its origin stays, so do the others.
LEMMA CurrentUpdated ==
  ASSUME NEW r, Typed(r), LastAttempt(r) > 0, Descent(r),
         r.active = AttemptOp(LastAttempt(r)), NEW a,
         a.mode = CurrentAttempt(r).mode,
         a.revision = CurrentAttempt(r).revision,
         a.from = CurrentAttempt(r).from,
         NEW s, s.attempts = [r.attempts EXCEPT ![LastAttempt(r)] = a]
  PROVE  /\ LastAttempt(s) = LastAttempt(r)
         /\ CurrentAttempt(s) = a
         /\ Descent(s) /\ AttemptsFrozen(r, s)
<1> DEFINE last == LastAttempt(r)
<1>1. /\ last \in DOMAIN r.attempts
      /\ r.attempts \in Seq(Attempt) /\ last = Len(r.attempts)
      /\ DOMAIN r.attempts = 1 .. last /\ last \in Nat
  BY CurrentTyped DEF LastAttempt, Typed, Record
<1>2. /\ DOMAIN s.attempts = DOMAIN r.attempts
      /\ s.attempts[last] = a
      /\ \A n \in DOMAIN r.attempts \ {last} : s.attempts[n] = r.attempts[n]
  BY <1>1
<1>3. LastAttempt(s) = last
  BY <1>1, <1>2, ReplaceInSeq DEF LastAttempt, Typed, Record
<1>4. CurrentAttempt(s) = a
  BY <1>2, <1>3 DEF CurrentAttempt
<1>5. Descent(s)
  <2> SUFFICES ASSUME NEW n \in DOMAIN r.attempts
               PROVE  Descends(s.attempts, n)
    BY <1>2 DEF Descent
  <2>1. Descends(r.attempts, n)
    BY DEF Descent
  <2>2. /\ s.attempts[n].mode = r.attempts[n].mode
        /\ s.attempts[n].revision = r.attempts[n].revision
        /\ s.attempts[n].from = r.attempts[n].from
    BY <1>2 DEF CurrentAttempt
  <2>3. CASE n > 1
    <3>1. s.attempts[n - 1] = r.attempts[n - 1]
      BY <1>1, <1>2, <2>3
    <3> QED
      BY <2>1, <2>2, <3>1 DEF Descends
  <2>4. CASE ~(n > 1)
    BY <2>1, <2>2, <2>4 DEF Descends
  <2> QED
    BY <2>3, <2>4
<1>6. AttemptsFrozen(r, s)
  BY <1>2 DEF AttemptsFrozen
<1> QED
  BY <1>3, <1>4, <1>5, <1>6

\* A new attempt may only continue what the pending continuation names.
LEMMA StartedFollows ==
  ASSUME NEW r, Typed(r), Evidence(r, NoOperation), ~Owned(r), r.prepared,
         r.pending.kind # "none" => CurrentAttempt(r).revision = r.revision,
         NEW batch
  PROVE  Follows(r, AttemptStarted(r), RunOperation(batch))
<1> DEFINE s == AttemptStarted(r)
           next == LastAttempt(r) + 1
           a == [revision |-> r.revision,
                 mode |-> IF r.pending.kind = "none" THEN "fresh"
                                                     ELSE r.pending.kind,
                 from |-> r.pending.snapshot, receipt |-> FALSE,
                 completed |-> FALSE, cleanExit |-> FALSE,
                 snapshot |-> NoSnapshot, delivery |-> "none"]
           q == RunOperation(batch)
<1>1. /\ s.attempts = Append(r.attempts, a)
      /\ s.verifications = r.verifications /\ s.baselines = r.baselines
      /\ s.active = AttemptOp(next) /\ s.revision = r.revision
      /\ s.state = "running" /\ s.prepared = r.prepared
      /\ s.pending = NoPending /\ s.interrupted = r.interrupted
  BY DEF AttemptStarted, Typed, Record
<1>2. /\ r.attempts \in Seq(Attempt) /\ LastAttempt(r) = Len(r.attempts)
      /\ LastAttempt(r) \in Nat
  BY DEF LastAttempt, Typed, Record
<1>3. /\ a.revision = r.revision /\ ~a.receipt /\ a.snapshot = NoSnapshot
      /\ a.from = r.pending.snapshot
      /\ a.mode = IF r.pending.kind = "none" THEN "fresh" ELSE r.pending.kind
      /\ r.pending.kind \in {"none", "answer", "delivery"}
  BY DEF Typed, Record, Pending
<1>4. q.kind = "run" /\ q.stage = "setup"
  BY DEF RunOperation, NoOperation
<1>5. r.interrupted = "none"
  BY DEF Evidence, InterruptedInv
<1> HIDE DEF s, a, q
<1>6. /\ DOMAIN s.attempts = 1 .. next /\ LastAttempt(s) = next
      /\ s.attempts[next] = a
      /\ \A n \in 1 .. LastAttempt(r) : s.attempts[n] = r.attempts[n]
      /\ DOMAIN r.attempts = 1 .. LastAttempt(r)
  BY <1>1, <1>2 DEF LastAttempt
<1>7. CurrentAttempt(s) = a
  BY <1>6 DEF CurrentAttempt
<1>8. Descent(s)
  <2> SUFFICES ASSUME NEW n \in 1 .. next
               PROVE  Descends(s.attempts, n)
    BY <1>6 DEF Descent
  <2>1. CASE n = next
    <3>1. CASE r.pending.kind = "none"
      BY <1>3, <1>6, <2>1, <3>1 DEF Descends
    <3>2. CASE r.pending.kind # "none"
      <4>1. Continues(r, r.pending.kind, r.pending.snapshot)
        BY <3>2 DEF Evidence, PendingInv
      <4>2. /\ n > 1 /\ n - 1 = LastAttempt(r)
            /\ s.attempts[n - 1] = CurrentAttempt(r)
        BY <1>2, <1>6, <2>1, <4>1 DEF Continues, CurrentAttempt
      <4> QED
        BY <1>3, <1>6, <2>1, <3>2, <4>1, <4>2 DEF Continues, Descends
    <3> QED
      BY <3>1, <3>2
  <2>2. CASE n # next
    <3>1. n \in 1 .. LastAttempt(r) /\ s.attempts[n] = r.attempts[n]
      BY <1>2, <1>6, <2>2
    <3>2. Descends(r.attempts, n)
      BY <1>6, <3>1 DEF Evidence, Descent
    <3>3. n > 1 => s.attempts[n - 1] = r.attempts[n - 1]
      BY <1>2, <1>6, <3>1
    <3> QED
      BY <3>1, <3>2, <3>3 DEF Descends
  <2> QED
    BY <2>1, <2>2
<1>9. Frozen(r, s)
  <2>1. AttemptsFrozen(r, s)
    BY <1>2, <1>6 DEF AttemptsFrozen
  <2> QED
    BY <1>1, <2>1, SameFrozen DEF Frozen
<1>10. RunInv(s, q)
  BY <1>1, <1>3, <1>4, <1>5, <1>7 DEF RunInv, NoPending
<1>11. VerifyInv(s, q) /\ RecoverInv(s, q)
  BY <1>1, <1>4 DEF VerifyInv, RecoverInv, AttemptOp, Owner
<1>12. PendingInv(s) /\ InterruptedInv(s) /\ PreparedInv(s)
  BY <1>1, <1>5 DEF PendingInv, InterruptedInv, PreparedInv, NoPending
<1>13. Follows(r, s, q)
  BY <1>1, <1>8, <1>9, <1>10, <1>11, <1>12 DEF Follows, Evidence
<1> QED
  BY <1>13 DEF s, q

\* A live run owns its ticket, has an attempt and a prepared revision.
LEMMA RunFacts ==
  ASSUME NEW r, NEW o, NEW ps, TicketInv(r, o.kind, ps), Evidence(r, o),
         o.kind = "run"
  PROVE  /\ Typed(r) /\ LastAttempt(r) > 0 /\ r.revision > 0
         /\ r.active = AttemptOp(LastAttempt(r)) /\ r.state = "running"
         /\ r.prepared /\ r.revision \in Revisions
         /\ r.pending.kind = "none" /\ r.interrupted = "none"
         /\ CurrentAttempt(r) = r.attempts[LastAttempt(r)]
         /\ CurrentAttempt(r) \in Attempt
         /\ CurrentAttempt(r).revision = r.revision
<1>1. /\ Typed(r) /\ LastAttempt(r) > 0 /\ r.revision > 0
      /\ r.active = AttemptOp(LastAttempt(r)) /\ r.state = "running"
  BY DEF TicketInv
<1>2. r.prepared
  BY <1>1 DEF Evidence, PreparedInv
<1>3. r.revision \in Revisions
  BY <1>1, BoundAssumption DEF Typed, Record, Revisions
<1>4. /\ r.pending.kind = "none" /\ r.interrupted = "none"
      /\ CurrentAttempt(r).revision = r.revision
  BY DEF Evidence, RunInv
<1>5. /\ CurrentAttempt(r) = r.attempts[LastAttempt(r)]
      /\ CurrentAttempt(r) \in Attempt
  BY <1>1, CurrentTyped DEF CurrentAttempt
<1> QED
  BY <1>1, <1>2, <1>3, <1>4, <1>5

\* A run ends: settled, blocked on setup, or failed.
LEMMA RunEndsFollows ==
  ASSUME NEW r, NEW o, NEW ps, TicketInv(r, o.kind, ps), Evidence(r, o),
         o.kind = "run", NEW a,
         a.mode = CurrentAttempt(r).mode,
         a.revision = CurrentAttempt(r).revision,
         a.from = CurrentAttempt(r).from,
         NEW s, s.attempts = [r.attempts EXCEPT ![LastAttempt(r)] = a],
         s.verifications = r.verifications, s.baselines = r.baselines,
         s.revision = r.revision, s.prepared = r.prepared,
         s.pending = r.pending, s.interrupted = r.interrupted,
         s.active \in {Nobody, r.active},
         \/ s.state \in {"blocked", "interrupted"}
         \/ s.state = "awaiting_review" /\ Reviewable(s)
  PROVE  Follows(r, s, NoOperation)
<1>1. /\ Typed(r) /\ LastAttempt(r) > 0 /\ r.prepared
      /\ r.active = AttemptOp(LastAttempt(r))
      /\ r.pending.kind = "none" /\ r.interrupted = "none"
  BY RunFacts
<1>2. Descent(r)
  BY DEF Evidence
<1>3. Descent(s) /\ AttemptsFrozen(r, s)
  BY <1>1, <1>2, CurrentUpdated
<1>4. Frozen(r, s)
  BY <1>3, SameFrozen DEF Frozen
<1>5. /\ RunInv(s, NoOperation) /\ VerifyInv(s, NoOperation)
      /\ RecoverInv(s, NoOperation)
  <2>1. s.active.kind # "verification"
    BY <1>1 DEF AttemptOp, Nobody, Owner
  <2>2. NoOperation.kind = "none"
    BY DEF NoOperation
  <2> QED
    BY <2>1, <2>2 DEF RunInv, VerifyInv, RecoverInv
<1>6. PendingInv(s) /\ InterruptedInv(s)
  BY <1>1 DEF PendingInv, InterruptedInv
<1>7. PreparedInv(s)
  BY <1>1 DEF PreparedInv
<1>8. /\ s.state = "awaiting_review" => Reviewable(s)
      /\ s.state # "accepted"
  OBVIOUS
<1> QED
  BY <1>3, <1>4, <1>5, <1>6, <1>7, <1>8 DEF Follows, Evidence

LEMMA SetupBlockedFollows ==
  ASSUME NEW r, NEW o, NEW ps, TicketInv(r, o.kind, ps), Evidence(r, o),
         o.kind = "run", NEW digest
  PROVE  Follows(r, SetupBlocked(r, digest), NoOperation)
<1> DEFINE s == SetupBlocked(r, digest)
           a == [r.attempts[LastAttempt(r)] EXCEPT !.snapshot = digest,
                                                   !.cleanExit = TRUE]
<1>1. Typed(r) /\ CurrentAttempt(r) = r.attempts[LastAttempt(r)]
      /\ CurrentAttempt(r) \in Attempt
  BY RunFacts
<1>2. /\ s.attempts = [r.attempts EXCEPT ![LastAttempt(r)] = a]
      /\ s.verifications = r.verifications /\ s.baselines = r.baselines
      /\ s.revision = r.revision /\ s.prepared = r.prepared
      /\ s.pending = r.pending /\ s.interrupted = r.interrupted
      /\ s.active = Nobody /\ s.state = "blocked"
  BY <1>1 DEF SetupBlocked, Typed, Record
<1>3. /\ a.mode = CurrentAttempt(r).mode
      /\ a.revision = CurrentAttempt(r).revision
      /\ a.from = CurrentAttempt(r).from
  BY <1>1 DEF Attempt
<1> HIDE DEF s, a
<1>4. Follows(r, s, NoOperation)
  BY <1>2, <1>3, RunEndsFollows
<1> QED
  BY <1>4 DEF s

LEMMA FailedFollows ==
  ASSUME NEW r, NEW o, NEW ps, TicketInv(r, o.kind, ps), Evidence(r, o),
         o.kind = "run", NEW entered \in BOOLEAN
  PROVE  Follows(r, AttemptFailed(r, entered), NoOperation)
<1> DEFINE s == AttemptFailed(r, entered)
           a == CurrentAttempt(r)
<1>1. Typed(r) /\ a = r.attempts[LastAttempt(r)]
  BY RunFacts
<1>2. /\ s.attempts = r.attempts
      /\ s.verifications = r.verifications /\ s.baselines = r.baselines
      /\ s.revision = r.revision /\ s.prepared = r.prepared
      /\ s.pending = r.pending /\ s.interrupted = r.interrupted
      /\ s.active = r.active /\ s.state = "interrupted"
  BY <1>1 DEF AttemptFailed, Typed, Record
<1>3. r.attempts = [r.attempts EXCEPT ![LastAttempt(r)] = a]
  BY <1>1 DEF Typed, Record
<1> HIDE DEF s, a
<1>4. /\ a.mode = CurrentAttempt(r).mode
      /\ a.revision = CurrentAttempt(r).revision
      /\ a.from = CurrentAttempt(r).from
  BY DEF a
<1>5. Follows(r, s, NoOperation)
  BY <1>2, <1>3, <1>4, RunEndsFollows
<1> QED
  BY <1>5 DEF s

\* Only a complete delivery goes to review, and a delivery-only one from
\* its frozen source.
LEMMA SettledFollows ==
  ASSUME NEW r, NEW o, NEW ps, TicketInv(r, o.kind, ps), Evidence(r, o),
         o.kind = "run", NEW batch, NEW out \in Outcomes,
         NEW digest \in OptionalSnapshot
  PROVE  Follows(r, AttemptSettled(r, batch, out, digest), NoOperation)
<1> DEFINE s == AttemptSettled(r, batch, out, digest)
           c == CurrentAttempt(r)
           a == [c EXCEPT !.receipt = out.receipt,
                          !.completed = out.completed,
                          !.cleanExit = out.cleanExit, !.snapshot = digest,
                          !.delivery = out.delivery]
<1>1. /\ Typed(r) /\ LastAttempt(r) > 0 /\ c \in Attempt
      /\ c = r.attempts[LastAttempt(r)] /\ c.revision = r.revision
      /\ r.active = AttemptOp(LastAttempt(r)) /\ Descent(r)
  BY RunFacts DEF Evidence
<1>2. /\ s.attempts = [r.attempts EXCEPT ![LastAttempt(r)] = a]
      /\ s.verifications = r.verifications /\ s.baselines = r.baselines
      /\ s.revision = r.revision /\ s.prepared = r.prepared
      /\ s.pending = r.pending /\ s.interrupted = r.interrupted
      /\ s.active = OwnerAfter(r, out)
      /\ s.state = SettledState(c, out, digest)
  BY <1>1 DEF AttemptSettled, Typed, Record
<1>3. /\ a.mode = c.mode /\ a.revision = c.revision /\ a.from = c.from
      /\ a.receipt = out.receipt /\ a.completed = out.completed
      /\ a.cleanExit = out.cleanExit /\ a.snapshot = digest
      /\ a.delivery = out.delivery
  BY <1>1 DEF Attempt
<1>4. s.active \in {Nobody, r.active}
  BY <1>2 DEF OwnerAfter
<1> HIDE DEF s, a, c
<1>5. LastAttempt(s) = LastAttempt(r) /\ CurrentAttempt(s) = a
  BY <1>1, <1>2, <1>3, CurrentUpdated DEF c
<1>6. \/ s.state \in {"blocked", "interrupted"}
      \/ s.state = "awaiting_review" /\ Reviewable(s)
  <2>1. CASE Complete(c, out, digest) /\ out.delivery = "submitted"
    <3>1. Reviewable(s)
      BY <1>1, <1>2, <1>3, <1>5, <2>1
         DEF Reviewable, Complete, FrozenSourceChanged
    <3>2. s.state = "awaiting_review"
      BY <1>2, <2>1 DEF SettledState, Complete
    <3> QED
      BY <3>1, <3>2
  <2>2. CASE ~(Complete(c, out, digest) /\ out.delivery = "submitted")
    BY <1>2, <2>2 DEF SettledState
  <2> QED
    BY <2>1, <2>2
<1>7. Follows(r, s, NoOperation)
  BY <1>2, <1>3, <1>4, <1>6, RunEndsFollows DEF c
<1> QED
  BY <1>7 DEF s

\* The inbox receipt of the prompt, while the runtime has it.
LEMMA SplicedFollows ==
  ASSUME NEW r, NEW o, NEW ps, TicketInv(r, o.kind, ps), Evidence(r, o),
         o.kind = "run", o.stage = "runtime", NEW batch
  PROVE  Follows(r, InboxSpliced(r, batch), o)
<1> DEFINE s == InboxSpliced(r, batch)
           c == CurrentAttempt(r)
           a == [c EXCEPT !.receipt = TRUE]
<1>1. /\ Typed(r) /\ LastAttempt(r) > 0 /\ c \in Attempt
      /\ c = r.attempts[LastAttempt(r)] /\ c.revision = r.revision
      /\ r.active = AttemptOp(LastAttempt(r)) /\ Descent(r)
      /\ r.pending.kind = "none" /\ r.interrupted = "none"
      /\ r.state = "running" /\ r.prepared
  BY RunFacts DEF Evidence
<1>2. /\ s.attempts = [r.attempts EXCEPT ![LastAttempt(r)] = a]
      /\ s.verifications = r.verifications /\ s.baselines = r.baselines
      /\ s.revision = r.revision /\ s.prepared = r.prepared
      /\ s.pending = r.pending /\ s.interrupted = r.interrupted
      /\ s.active = r.active /\ s.state = r.state
  BY <1>1 DEF InboxSpliced, Typed, Record
<1>3. /\ a.mode = c.mode /\ a.revision = c.revision /\ a.from = c.from
      /\ a.snapshot = c.snapshot
  BY <1>1 DEF Attempt
<1> HIDE DEF s, a, c
<1>4. /\ CurrentAttempt(s) = a /\ Descent(s) /\ AttemptsFrozen(r, s)
  BY <1>1, <1>2, <1>3, CurrentUpdated DEF c
<1>5. Frozen(r, s)
  BY <1>2, <1>4, SameFrozen DEF Frozen
<1>6. RunInv(s, o)
  BY <1>1, <1>2, <1>3, <1>4 DEF c, Evidence, RunInv
<1>7. VerifyInv(s, o) /\ RecoverInv(s, o)
  BY <1>1, <1>2 DEF VerifyInv, RecoverInv, AttemptOp, Owner
<1>8. PendingInv(s) /\ InterruptedInv(s) /\ PreparedInv(s)
  BY <1>1, <1>2 DEF PendingInv, InterruptedInv, PreparedInv
<1>9. Follows(r, s, o)
  BY <1>1, <1>2, <1>4, <1>5, <1>6, <1>7, <1>8 DEF Follows, Evidence
<1> QED
  BY <1>9 DEF s

\* The baseline of the revision, by the attempt that owns the ticket.
LEMMA BaselineFollows ==
  ASSUME NEW r, NEW o, NEW ps, TicketInv(r, o.kind, ps), Evidence(r, o),
         o.kind = "run", NEW b,
         b.attempt = LastAttempt(r),
         \/ r.baselines[r.revision].status = "unset"
         \/ r.baselines[r.revision] =
              [status |-> "reserved", attempt |-> LastAttempt(r)],
         NEW q, q.kind = "run", q.stage # "baseline" \/
           b = [status |-> "reserved", attempt |-> LastAttempt(r)],
         o.stage # "runtime"
  PROVE  Follows(r, [r EXCEPT !.baselines =
                       [r.baselines EXCEPT ![r.revision] = b]], q)
<1> DEFINE s == [r EXCEPT !.baselines =
                   [r.baselines EXCEPT ![r.revision] = b]]
<1>1. /\ Typed(r) /\ LastAttempt(r) > 0 /\ r.revision \in Revisions
      /\ r.active = AttemptOp(LastAttempt(r)) /\ Descent(r)
      /\ r.pending.kind = "none" /\ r.interrupted = "none"
      /\ r.state = "running" /\ r.prepared
  BY RunFacts DEF Evidence
<1>2. /\ s.attempts = r.attempts /\ s.verifications = r.verifications
      /\ s.revision = r.revision /\ s.prepared = r.prepared
      /\ s.pending = r.pending /\ s.interrupted = r.interrupted
      /\ s.active = r.active /\ s.state = r.state
      /\ s.baselines[r.revision] = b
      /\ \A v \in Revisions \ {r.revision} :
           s.baselines[v] = r.baselines[v]
  BY <1>1 DEF Typed, Record
<1> HIDE DEF s
<1>3. BaselinesFrozen(r, s)
  <2> SUFFICES ASSUME NEW v \in Revisions,
                      r.baselines[v] # s.baselines[v]
               PROVE  /\ r.baselines[v].status # "comparable"
                      /\ r.baselines[v].status = "reserved" =>
                           s.baselines[v].attempt = r.baselines[v].attempt
                      /\ v = r.revision
                      /\ r.active = AttemptOp(s.baselines[v].attempt)
    BY DEF BaselinesFrozen
  <2>1. v = r.revision
    BY <1>2
  <2> QED
    BY <1>1, <1>2, <2>1
<1>4. Frozen(r, s)
  BY <1>2, <1>3, SameFrozen DEF Frozen
<1>5. LastAttempt(s) = LastAttempt(r) /\ CurrentAttempt(s) = CurrentAttempt(r)
  BY <1>2, SameHistory
<1>6. RunInv(s, q)
  BY <1>1, <1>2, <1>5 DEF Evidence, RunInv
<1>7. VerifyInv(s, q) /\ RecoverInv(s, q)
  BY <1>1, <1>2 DEF VerifyInv, RecoverInv, AttemptOp, Owner
<1>8. PendingInv(s) /\ InterruptedInv(s) /\ PreparedInv(s)
  BY <1>1, <1>2 DEF PendingInv, InterruptedInv, PreparedInv
<1>9. Descent(s)
  BY <1>1, <1>2, SameHistory
<1>10. Follows(r, s, q)
  BY <1>1, <1>2, <1>4, <1>6, <1>7, <1>8, <1>9 DEF Follows, Evidence
<1> QED
  BY <1>10 DEF s

LEMMA ReservedFollows ==
  ASSUME NEW r, NEW o \in Operation, NEW ps, TicketInv(r, o.kind, ps),
         Evidence(r, o), o.kind = "run", o.stage = "setup", NeedsBaseline(r)
  PROVE  Follows(r, BaselineReserved(r), [o EXCEPT !.stage = "baseline"])
<1> DEFINE b == [status |-> "reserved", attempt |-> LastAttempt(r)]
           q == [o EXCEPT !.stage = "baseline"]
<1>1. b.attempt = LastAttempt(r)
  OBVIOUS
<1>2. q.kind = "run"
  BY DEF Operation
<1>3. BaselineReserved(r) =
        [r EXCEPT !.baselines = [r.baselines EXCEPT ![r.revision] = b]]
  BY DEF BaselineReserved
<1>4. r.baselines[r.revision].status = "unset" /\ o.stage # "runtime"
  BY DEF NeedsBaseline
<1> HIDE DEF q
<1>5. Follows(r, [r EXCEPT !.baselines =
                    [r.baselines EXCEPT ![r.revision] = b]], q)
  BY <1>1, <1>2, <1>4, BaselineFollows
<1> QED
  BY <1>3, <1>5 DEF q

LEMMA BaselineDoneFollows ==
  ASSUME NEW r, NEW o \in Operation, NEW ps, TicketInv(r, o.kind, ps),
         Evidence(r, o), o.kind = "run", o.stage = "baseline",
         NEW comparable \in BOOLEAN
  PROVE  Follows(r, BaselineSettled(r, comparable),
                 [o EXCEPT !.stage = "launch"])
<1> DEFINE b == [r.baselines[r.revision] EXCEPT
                   !.status = IF comparable THEN "comparable" ELSE "reserved"]
           q == [o EXCEPT !.stage = "launch"]
<1>1. r.baselines[r.revision] =
        [status |-> "reserved", attempt |-> LastAttempt(r)]
  BY DEF Evidence, RunInv
<1>2. Typed(r) /\ r.revision \in Revisions
  BY RunFacts
<1>3. b.attempt = LastAttempt(r)
  BY <1>1
<1>4. q.kind = "run" /\ q.stage # "baseline" /\ o.stage # "runtime"
  BY DEF Operation
<1>5. BaselineSettled(r, comparable) =
        [r EXCEPT !.baselines = [r.baselines EXCEPT ![r.revision] = b]]
  BY <1>2 DEF BaselineSettled, Typed, Record
<1> HIDE DEF b, q
<1>6. Follows(r, [r EXCEPT !.baselines =
                    [r.baselines EXCEPT ![r.revision] = b]], q)
  BY <1>1, <1>3, <1>4, BaselineFollows
<1> QED
  BY <1>5, <1>6 DEF q

-----------------------------------------------------------------------------
(***************************************************************************)
(* Verification and review.                                                *)
(***************************************************************************)
\* What a delivery that waits for review has kept of its origin.
LEMMA ReviewableKept ==
  ASSUME NEW r, Reviewable(r)
  PROVE  /\ LastAttempt(r) > 0
         /\ CurrentAttempt(r).snapshot \in Snapshots
         /\ CurrentAttempt(r).mode = "delivery" =>
              CurrentAttempt(r).snapshot = CurrentAttempt(r).from
BY DEF Reviewable

LEMMA VerificationStartedFollows ==
  ASSUME NEW r, Typed(r), Evidence(r, NoOperation), ~Owned(r),
         r.state = "awaiting_review",
         NEW digest, CurrentAttempt(r).snapshot = digest
  PROVE  Follows(r, VerificationStarted(r, digest), VerifyOperation)
<1> DEFINE s == VerificationStarted(r, digest)
           next == LastVerification(r) + 1
           v == [attempt |-> LastAttempt(r), revision |-> r.revision,
                 before |-> digest, after |-> NoSnapshot,
                 passed |-> FALSE, cleanExit |-> FALSE]
           q == VerifyOperation
<1>1. /\ s.attempts = r.attempts
      /\ s.verifications = Append(r.verifications, v)
      /\ s.baselines = r.baselines /\ s.revision = r.revision
      /\ s.prepared = r.prepared /\ s.pending = r.pending
      /\ s.interrupted = r.interrupted /\ s.state = r.state
      /\ s.active = VerificationOp(next)
  BY DEF VerificationStarted, Typed, Record
<1>2. v.before = digest /\ q.kind = "verify"
  BY DEF VerifyOperation, NoOperation
<1>3. /\ r.verifications \in Seq(Verification)
      /\ LastVerification(r) = Len(r.verifications)
  BY DEF Typed, Record, LastVerification
<1> HIDE DEF s, v, q
<1>4. /\ LastVerification(s) = next /\ s.verifications[next] = v
      /\ DOMAIN r.verifications \subseteq DOMAIN s.verifications
      /\ \A n \in DOMAIN r.verifications :
           s.verifications[n] = r.verifications[n]
  BY <1>1, <1>3 DEF LastVerification
<1>5. Frozen(r, s)
  <2>1. VerificationsFrozen(r, s)
    BY <1>4 DEF VerificationsFrozen
  <2> QED
    BY <1>1, <2>1, SameFrozen DEF Frozen
<1>6. /\ LastAttempt(s) = LastAttempt(r)
      /\ CurrentAttempt(s) = CurrentAttempt(r)
      /\ Descent(s) /\ Reviewable(s)
  BY <1>1, SameHistory DEF Evidence
<1>7. RunInv(s, q) /\ VerifyInv(s, q) /\ RecoverInv(s, q)
  <2>1. s.interrupted = "none"
    BY <1>1 DEF Evidence, InterruptedInv
  <2> QED
    BY <1>2, <1>4, <1>6, <2>1 DEF RunInv, VerifyInv, RecoverInv
<1>8. PendingInv(s)
  BY <1>1, SameHistory DEF Evidence, PendingInv
<1>9. InterruptedInv(s) /\ PreparedInv(s)
  BY <1>1, <1>6 DEF Evidence, InterruptedInv, PreparedInv
<1>10. Follows(r, s, q)
  BY <1>1, <1>5, <1>6, <1>7, <1>8, <1>9 DEF Follows, Evidence
<1> QED
  BY <1>10 DEF s, q

\* Replacing the verification that owns the ticket.
LEMMA VerificationUpdated ==
  ASSUME NEW r, Typed(r), LastVerification(r) > 0,
         r.active = VerificationOp(LastVerification(r)), NEW v, NEW s,
         s.verifications =
           [r.verifications EXCEPT ![LastVerification(r)] = v]
  PROVE  VerificationsFrozen(r, s)
<1>1. /\ DOMAIN s.verifications = DOMAIN r.verifications
      /\ \A n \in DOMAIN r.verifications \ {LastVerification(r)} :
           s.verifications[n] = r.verifications[n]
  BY DEF Typed, Record
<1> QED
  BY <1>1 DEF VerificationsFrozen

\* A verification ends: it settled, or it failed and keeps the ticket.
LEMMA VerifyEndsFollows ==
  ASSUME NEW r, NEW o, NEW ps, TicketInv(r, o.kind, ps), Evidence(r, o),
         o.kind = "verify", NEW v, NEW s,
         s.verifications =
           [r.verifications EXCEPT ![LastVerification(r)] = v],
         s.attempts = r.attempts, s.baselines = r.baselines,
         s.revision = r.revision, s.prepared = r.prepared,
         s.pending = r.pending,
         \/ /\ s.active = Nobody /\ s.interrupted = r.interrupted
            /\ s.state \in {"awaiting_review", "blocked"}
         \/ /\ s.active = r.active /\ s.interrupted = "verification"
            /\ s.state = "interrupted"
  PROVE  Follows(r, s, NoOperation)
<1>1. /\ Typed(r) /\ LastVerification(r) > 0
      /\ r.state = "awaiting_review"
      /\ r.active = VerificationOp(LastVerification(r))
  BY DEF TicketInv
<1>2. Reviewable(r) /\ r.prepared
  BY <1>1 DEF Evidence, PreparedInv
<1>3. /\ LastAttempt(s) = LastAttempt(r)
      /\ CurrentAttempt(s) = CurrentAttempt(r)
      /\ Descent(s) /\ Reviewable(s)
  BY <1>2, SameHistory DEF Evidence
<1>4. Frozen(r, s)
  BY <1>1, VerificationUpdated, SameFrozen DEF Frozen
<1>5. /\ RunInv(s, NoOperation) /\ VerifyInv(s, NoOperation)
      /\ RecoverInv(s, NoOperation)
  <2>1. s.active.kind = "verification" => s.interrupted = "verification"
    BY DEF Nobody, Owner
  <2>2. NoOperation.kind = "none"
    BY DEF NoOperation
  <2> QED
    BY <2>1, <2>2 DEF RunInv, VerifyInv, RecoverInv
<1>6. PendingInv(s)
  BY SameHistory DEF Evidence, PendingInv
<1>7. InterruptedInv(s)
  <2>1. Owned(r) /\ r.interrupted = "none"
    BY <1>1, Operators DEF Evidence, VerifyInv, Owned
  <2> QED
    BY <1>2, <1>3, <2>1, ReviewableKept DEF InterruptedInv, Owned
<1>8. PreparedInv(s)
  BY <1>2 DEF PreparedInv
<1> QED
  BY <1>3, <1>4, <1>5, <1>6, <1>7, <1>8 DEF Follows, Evidence

LEMMA VerificationSettledFollows ==
  ASSUME NEW r, NEW o, NEW ps, TicketInv(r, o.kind, ps), Evidence(r, o),
         o.kind = "verify", NEW digest, NEW passed \in BOOLEAN
  PROVE  Follows(r, VerificationSettled(r, digest, passed), NoOperation)
<1> DEFINE s == VerificationSettled(r, digest, passed)
           n == LastVerification(r)
           changed == r.verifications[n].before # digest
           v == [r.verifications[n] EXCEPT
                   !.after = digest, !.passed = passed /\ ~changed,
                   !.cleanExit = TRUE]
<1>1. Typed(r) /\ r.state = "awaiting_review"
  BY DEF TicketInv
<1>2. /\ s.verifications = [r.verifications EXCEPT ![n] = v]
      /\ s.attempts = r.attempts /\ s.baselines = r.baselines
      /\ s.revision = r.revision /\ s.prepared = r.prepared
      /\ s.pending = r.pending /\ s.interrupted = r.interrupted
      /\ s.active = Nobody /\ s.state \in {"awaiting_review", "blocked"}
  BY <1>1 DEF VerificationSettled, Typed, Record
<1> HIDE DEF s, v
<1>3. Follows(r, s, NoOperation)
  BY <1>2, VerifyEndsFollows
<1> QED
  BY <1>3 DEF s

LEMMA VerificationFailedFollows ==
  ASSUME NEW r, NEW o, NEW ps, TicketInv(r, o.kind, ps), Evidence(r, o),
         o.kind = "verify"
  PROVE  Follows(r, VerificationFailed(r), NoOperation)
<1> DEFINE s == VerificationFailed(r)
           n == LastVerification(r)
           v == [r.verifications[n] EXCEPT !.passed = FALSE]
<1>1. Typed(r)
  BY DEF TicketInv
<1>2. /\ s.verifications = [r.verifications EXCEPT ![n] = v]
      /\ s.attempts = r.attempts /\ s.baselines = r.baselines
      /\ s.revision = r.revision /\ s.prepared = r.prepared
      /\ s.pending = r.pending /\ s.interrupted = "verification"
      /\ s.active = r.active /\ s.state = "interrupted"
  BY <1>1 DEF VerificationFailed, Typed, Record
<1> HIDE DEF s, v
<1>3. Follows(r, s, NoOperation)
  BY <1>2, VerifyEndsFollows
<1> QED
  BY <1>3 DEF s

\* An acceptance records the snapshot that was delivered and verified.
LEMMA ReviewFollows ==
  ASSUME NEW r, Typed(r), Evidence(r, NoOperation), ~Owned(r),
         r.state = "awaiting_review",
         NEW digest, CurrentAttempt(r).snapshot = digest,
         NEW verdict \in Verdicts,
         verdict = "accept" => VerifiedUnchanged(r, digest)
  PROVE  Follows(r, ReviewRecorded(r, digest, verdict), NoOperation)
<1> DEFINE s == ReviewRecorded(r, digest, verdict)
           review == [attempt |-> LastAttempt(r), revision |-> r.revision,
                      snapshot |-> digest, verdict |-> verdict]
<1>1. /\ s.attempts = r.attempts /\ s.verifications = r.verifications
      /\ s.baselines = r.baselines /\ s.revision = r.revision
      /\ s.prepared = r.prepared /\ s.pending = r.pending
      /\ s.interrupted = r.interrupted /\ s.active = r.active
      /\ s.review = review /\ s.state = ReviewState(verdict)
  BY DEF ReviewRecorded, Typed, Record
<1>2. /\ s.state \in {"accepted", "changes_requested", "blocked"}
      /\ s.state = "accepted" => verdict = "accept"
  BY <1>1 DEF ReviewState, Verdicts
<1>3. /\ review.verdict = verdict /\ review.revision = r.revision
      /\ review.attempt = LastAttempt(r) /\ review.snapshot = digest
  OBVIOUS
<1> HIDE DEF s, review
<1>4. /\ LastAttempt(s) = LastAttempt(r)
      /\ CurrentAttempt(s) = CurrentAttempt(r)
      /\ Descent(s)
  BY <1>1, SameHistory DEF Evidence
<1>5. s.state = "accepted" => Accepted(s)
  <2> SUFFICES ASSUME s.state = "accepted" PROVE Accepted(s)
    OBVIOUS
  <2>1. ReviewedVerifications(s) = ReviewedVerifications(r)
    BY <1>1, <1>4 DEF ReviewedVerifications
  <2>2. VerifiedUnchanged(s, digest)
    BY <1>1, <1>2, <2>1 DEF VerifiedUnchanged
  <2> QED
    BY <1>1, <1>2, <1>3, <1>4, <2>2 DEF Accepted
<1>6. Frozen(r, s)
  BY <1>1, SameFrozen DEF Frozen
<1>7. /\ RunInv(s, NoOperation) /\ VerifyInv(s, NoOperation)
      /\ RecoverInv(s, NoOperation)
  BY <1>1, IdleEvidence DEF Owned
<1>8. PendingInv(s)
  BY <1>1, SameHistory DEF Evidence, PendingInv
<1>9. InterruptedInv(s)
  BY <1>1 DEF Evidence, InterruptedInv, Owned
<1>10. PreparedInv(s)
  BY <1>1, <1>2 DEF Evidence, PreparedInv
<1>11. Follows(r, s, NoOperation)
  BY <1>2, <1>4, <1>5, <1>6, <1>7, <1>8, <1>9, <1>10 DEF Follows, Evidence
<1> QED
  BY <1>11 DEF s

-----------------------------------------------------------------------------
(***************************************************************************)
(* Recovery and fencing.                                                   *)
(***************************************************************************)
\* An explicit continuation names the current attempt as it was inspected.
LEMMA RecoveryStartedFollows ==
  ASSUME NEW r, NEW ps, TicketInv(r, "none", ps), Evidence(r, NoOperation),
         NEW kind \in ContinuationKinds, Recoverable(r, kind), NEW digest,
         kind # "restart" => Continues(r, kind, digest)
  PROVE  Follows(r, RecoveryStarted(r), RecoverOperation(kind, digest))
<1> DEFINE s == RecoveryStarted(r)
           q == RecoverOperation(kind, digest)
<1>1. Typed(r)
  BY DEF TicketInv
<1>2. /\ s.attempts = r.attempts /\ s.verifications = r.verifications
      /\ s.baselines = r.baselines /\ s.revision = r.revision
      /\ s.prepared = r.prepared /\ s.pending = r.pending
      /\ s.interrupted = r.interrupted /\ s.active = Recovery
      /\ s.state = r.state
  BY <1>1 DEF RecoveryStarted, Typed, Record
<1>3. q.kind = "recover" /\ q.continuation = kind /\ q.digest = digest
  BY DEF RecoverOperation, NoOperation
<1>4. r.state \in {"blocked", "interrupted", "ready"}
  BY DEF Recoverable
<1> HIDE DEF s, q
<1>5. /\ LastAttempt(s) = LastAttempt(r)
      /\ CurrentAttempt(s) = CurrentAttempt(r)
      /\ Descent(s)
  BY <1>2, SameHistory DEF Evidence
<1>6. Frozen(r, s)
  BY <1>2, SameFrozen DEF Frozen
<1>7. RunInv(s, q) /\ VerifyInv(s, q)
  BY <1>2, <1>3 DEF RunInv, VerifyInv, Recovery, Owner
<1>8. RecoverInv(s, q)
  BY <1>2, <1>3, SameHistory DEF RecoverInv
<1>9. PendingInv(s)
  BY <1>2, SameHistory DEF Evidence, PendingInv
<1>10. InterruptedInv(s) /\ PreparedInv(s)
  BY <1>2, <1>5, Operators DEF Evidence, InterruptedInv, PreparedInv, Owned
<1>11. Follows(r, s, q)
  BY <1>2, <1>4, <1>5, <1>6, <1>7, <1>8, <1>9, <1>10 DEF Follows, Evidence
<1> QED
  BY <1>11 DEF s, q

LEMMA RecoveryFailedFollows ==
  ASSUME NEW r, NEW o, NEW ps, TicketInv(r, o.kind, ps), Evidence(r, o),
         o.kind = "recover"
  PROVE  Follows(r, RecoveryFailed(r), NoOperation)
<1> DEFINE s == RecoveryFailed(r)
<1>1. Typed(r)
  BY DEF TicketInv
<1>2. /\ s.attempts = r.attempts /\ s.verifications = r.verifications
      /\ s.baselines = r.baselines /\ s.revision = r.revision
      /\ s.prepared = r.prepared /\ s.pending = r.pending
      /\ s.interrupted = r.interrupted /\ s.active = Uncertain
      /\ s.state = r.state
  BY <1>1 DEF RecoveryFailed, Typed, Record
<1>3. r.state \in {"blocked", "interrupted", "ready"}
  BY DEF TicketInv, Restartable
<1> HIDE DEF s
<1>4. /\ LastAttempt(s) = LastAttempt(r)
      /\ CurrentAttempt(s) = CurrentAttempt(r)
      /\ Descent(s)
  BY <1>2, SameHistory DEF Evidence
<1>5. Frozen(r, s)
  BY <1>2, SameFrozen DEF Frozen
<1>6. /\ RunInv(s, NoOperation) /\ VerifyInv(s, NoOperation)
      /\ RecoverInv(s, NoOperation)
  BY <1>2 DEF RunInv, VerifyInv, RecoverInv, NoOperation, Uncertain, Owner
<1>7. PendingInv(s)
  BY <1>2, SameHistory DEF Evidence, PendingInv
<1>8. InterruptedInv(s) /\ PreparedInv(s)
  BY <1>2, <1>4, Operators DEF Evidence, InterruptedInv, PreparedInv, Owned
<1>9. Follows(r, s, NoOperation)
  BY <1>2, <1>3, <1>4, <1>5, <1>6, <1>7, <1>8 DEF Follows, Evidence
<1> QED
  BY <1>9 DEF s

\* A recovery adds the proof of a clean exit to every attempt, no more.
LEMMA RecoveredAttempts ==
  ASSUME NEW r, Typed(r), LastAttempt(r) > 0, Descent(r), NEW s,
         s.attempts = [n \in DOMAIN r.attempts |->
                         [r.attempts[n] EXCEPT !.cleanExit = TRUE]]
  PROVE  /\ LastAttempt(s) = LastAttempt(r)
         /\ CurrentAttempt(s) = [CurrentAttempt(r) EXCEPT !.cleanExit = TRUE]
         /\ CurrentAttempt(r) \in Attempt
         /\ Descent(s) /\ AttemptsFrozen(r, s)
<1>1. /\ DOMAIN r.attempts = 1 .. LastAttempt(r) /\ LastAttempt(r) \in Nat
      /\ \A n \in DOMAIN r.attempts : r.attempts[n] \in Attempt
  BY DEF Typed, Record, LastAttempt
<1>2. /\ DOMAIN s.attempts = DOMAIN r.attempts
      /\ \A n \in DOMAIN r.attempts :
           s.attempts[n] = [r.attempts[n] EXCEPT !.cleanExit = TRUE]
  OBVIOUS
<1>3. LastAttempt(s) = LastAttempt(r)
  <2>1. /\ s.attempts \in Seq(Attempt)
        /\ Len(s.attempts) = LastAttempt(r)
    <3>1. \A a \in Attempt : [a EXCEPT !.cleanExit = TRUE] \in Attempt
      BY DEF Attempt
    <3>2. s.attempts \in [1 .. LastAttempt(r) -> Attempt]
      BY <1>1, <3>1
    <3> QED
      BY <1>1, <3>2, FunctionIsSeq
  <2> QED
    BY <2>1 DEF LastAttempt
<1>4. LastAttempt(r) \in DOMAIN r.attempts
  BY <1>1
<1>5. /\ CurrentAttempt(s) = [CurrentAttempt(r) EXCEPT !.cleanExit = TRUE]
      /\ CurrentAttempt(r) \in Attempt
  BY <1>1, <1>2, <1>3, <1>4 DEF CurrentAttempt
<1>6. \A n \in DOMAIN r.attempts :
        /\ s.attempts[n].mode = r.attempts[n].mode
        /\ s.attempts[n].revision = r.attempts[n].revision
        /\ s.attempts[n].from = r.attempts[n].from
        /\ s.attempts[n].snapshot = r.attempts[n].snapshot
        /\ s.attempts[n].receipt = r.attempts[n].receipt
        /\ s.attempts[n].completed = r.attempts[n].completed
        /\ s.attempts[n].delivery = r.attempts[n].delivery
        /\ s.attempts[n].cleanExit
  BY <1>1, <1>2 DEF Attempt
<1>7. Descent(s)
  <2> SUFFICES ASSUME NEW n \in DOMAIN r.attempts
               PROVE  Descends(s.attempts, n)
    BY <1>2 DEF Descent
  <2>1. Descends(r.attempts, n)
    BY DEF Descent
  <2>2. n > 1 => n - 1 \in DOMAIN r.attempts
    BY <1>1
  <2> QED
    BY <1>6, <2>1, <2>2 DEF Descends
<1>8. AttemptsFrozen(r, s)
  BY <1>2 DEF AttemptsFrozen
<1> QED
  BY <1>3, <1>5, <1>7, <1>8

LEMMA RecoveredFollows ==
  ASSUME NEW r, NEW o, NEW ps, TicketInv(r, o.kind, ps), Evidence(r, o),
         o.kind = "recover", o.digest \in Snapshots
  PROVE  Follows(r, TicketRecovered(r, o.continuation, o.digest), NoOperation)
<1> DEFINE kind == o.continuation
           digest == o.digest
           s == TicketRecovered(r, kind, digest)
           vs == [n \in DOMAIN r.verifications |->
                    [r.verifications[n] EXCEPT !.cleanExit = TRUE]]
<1>1. /\ Typed(r) /\ LastAttempt(r) > 0 /\ r.revision > 0
  BY DEF TicketInv, Restartable
<1>2. /\ s.attempts = [n \in DOMAIN r.attempts |->
                         [r.attempts[n] EXCEPT !.cleanExit = TRUE]]
      /\ s.verifications = vs
      /\ s.baselines = r.baselines /\ s.revision = r.revision
      /\ s.prepared = r.prepared /\ s.interrupted = "none"
      /\ s.active = Nobody
      /\ s.pending = IF kind = "restart" THEN NoPending
                     ELSE [kind |-> kind, attempt |-> LastAttempt(r),
                           snapshot |-> digest]
      /\ s.state = IF ResumesVerification(r, digest) THEN "awaiting_review"
                                                     ELSE "ready"
  BY <1>1 DEF TicketRecovered, Typed, Record
<1>3. VerificationsFrozen(r, s)
  <2>1. /\ DOMAIN vs = DOMAIN r.verifications
        /\ \A n \in DOMAIN r.verifications :
             vs[n] = [r.verifications[n] EXCEPT !.cleanExit = TRUE]
    OBVIOUS
  <2> HIDE DEF vs
  <2> QED
    BY <1>2, <2>1 DEF VerificationsFrozen
<1> HIDE DEF s, vs
<1>4. Descent(r)
  BY DEF Evidence
<1>5. /\ LastAttempt(s) = LastAttempt(r)
      /\ CurrentAttempt(s) = [CurrentAttempt(r) EXCEPT !.cleanExit = TRUE]
      /\ CurrentAttempt(r) \in Attempt
      /\ Descent(s) /\ AttemptsFrozen(r, s)
  BY <1>1, <1>2, <1>4, RecoveredAttempts
<1>6. Frozen(r, s)
  BY <1>2, <1>3, <1>5, SameFrozen DEF Frozen
<1>7. /\ CurrentAttempt(s).mode = CurrentAttempt(r).mode
      /\ CurrentAttempt(s).revision = CurrentAttempt(r).revision
      /\ CurrentAttempt(s).from = CurrentAttempt(r).from
      /\ CurrentAttempt(s).snapshot = CurrentAttempt(r).snapshot
      /\ CurrentAttempt(s).receipt = CurrentAttempt(r).receipt
      /\ CurrentAttempt(s).completed = CurrentAttempt(r).completed
      /\ CurrentAttempt(s).delivery = CurrentAttempt(r).delivery
      /\ CurrentAttempt(s).cleanExit
  BY <1>5 DEF Attempt
<1>8. /\ s.state = "awaiting_review" => Reviewable(s) /\ s.prepared
      /\ s.state # "accepted"
  <2>1. CASE ResumesVerification(r, digest)
    <3>1. InterruptedInv(r)
      BY DEF Evidence
    <3>2. Reviewable(s)
      BY <1>1, <1>2, <1>5, <1>7, <2>1, <3>1
         DEF Reviewable, ResumesVerification, InterruptedInv
    <3> QED
      BY <1>2, <2>1, <3>1, <3>2 DEF InterruptedInv, ResumesVerification
  <2>2. CASE ~ResumesVerification(r, digest)
    BY <1>2, <2>2
  <2> QED
    BY <2>1, <2>2
<1>9. /\ RunInv(s, NoOperation) /\ VerifyInv(s, NoOperation)
      /\ RecoverInv(s, NoOperation)
  BY <1>2, IdleEvidence DEF Owned
<1>10. PendingInv(s)
  <2>1. CASE kind = "restart"
    BY <1>2, <2>1 DEF PendingInv, NoPending
  <2>2. CASE kind # "restart"
    <3>1. Continues(r, kind, digest)
      BY <2>2 DEF Evidence, RecoverInv
    <3>2. Continues(s, kind, digest)
      BY <1>5, <1>7, <3>1 DEF Continues
    <3> QED
      BY <1>2, <2>2, <3>2 DEF PendingInv
  <2> QED
    BY <2>1, <2>2
<1>11. InterruptedInv(s) /\ PreparedInv(s)
  BY <1>2, <1>8 DEF InterruptedInv, PreparedInv
<1>12. Follows(r, s, NoOperation)
  BY <1>5, <1>6, <1>8, <1>9, <1>10, <1>11 DEF Follows, Evidence
<1> QED
  BY <1>12 DEF s

\* A starting controller drops every operation and fences what is owned.
LEMMA FencedFollows ==
  ASSUME NEW r, NEW o, NEW ps, TicketInv(r, o.kind, ps), Evidence(r, o),
         o.kind \in {"none", "run", "verify", "recover"}
  PROVE  Follows(r, Fenced(r), NoOperation)
<1>1. Typed(r)
  BY DEF TicketInv
<1>2. CASE ~Owned(r)
  <2>1. Fenced(r) = r
    BY <1>2 DEF Fenced
  <2>2. Frozen(r, r)
    BY SameFrozen DEF Frozen
  <2>3. Evidence(r, NoOperation)
    BY <1>2, IdleEvidence DEF Evidence
  <2> QED
    BY <2>1, <2>2, <2>3 DEF Follows
<1>3. CASE Owned(r)
  <2> DEFINE s == Fenced(r)
  <2>1. /\ s.attempts = r.attempts /\ s.verifications = r.verifications
        /\ s.baselines = r.baselines /\ s.revision = r.revision
        /\ s.prepared = r.prepared /\ s.pending = r.pending
        /\ s.active = Uncertain /\ s.state = "interrupted"
        /\ s.interrupted =
             IF r.interrupted # "none" THEN r.interrupted
             ELSE IF r.active.kind = "verification" THEN "verification"
             ELSE "execution"
    BY <1>1, <1>3 DEF Fenced, Typed, Record
  <2> HIDE DEF s
  <2>2. /\ LastAttempt(s) = LastAttempt(r)
        /\ CurrentAttempt(s) = CurrentAttempt(r) /\ Descent(s)
    BY <2>1, SameHistory DEF Evidence
  <2>3. Frozen(r, s)
    BY <2>1, SameFrozen DEF Frozen
  <2>4. /\ RunInv(s, NoOperation) /\ VerifyInv(s, NoOperation)
        /\ RecoverInv(s, NoOperation)
    BY <2>1 DEF RunInv, VerifyInv, RecoverInv, NoOperation, Uncertain, Owner
  <2>5. PendingInv(s)
    BY <2>1, SameHistory DEF Evidence, PendingInv
  <2>6. InterruptedInv(s)
    <3>1. Owned(s)
      BY <2>1, Operators DEF Owned
    <3>2. CASE r.interrupted # "none"
      BY <2>1, <2>2, <3>1, <3>2 DEF Evidence, InterruptedInv
    <3>3. CASE r.interrupted = "none" /\ r.active.kind = "verification"
      <4>1. o.kind = "verify"
        BY <3>3 DEF Evidence, VerifyInv
      <4>2. r.state = "awaiting_review"
        BY <4>1 DEF TicketInv
      <4>3. Reviewable(r) /\ r.prepared
        BY <4>2 DEF Evidence, PreparedInv
      <4> QED
        BY <2>1, <2>2, <3>1, <4>3, ReviewableKept DEF InterruptedInv
    <3>4. CASE r.interrupted = "none" /\ r.active.kind # "verification"
      BY <2>1, <3>1, <3>4 DEF InterruptedInv
    <3> QED
      BY <3>2, <3>3, <3>4
  <2>7. PreparedInv(s)
    BY <2>1 DEF PreparedInv
  <2>8. Follows(r, s, NoOperation)
    BY <2>1, <2>2, <2>3, <2>4, <2>5, <2>6, <2>7 DEF Follows, Evidence
  <2> QED
    BY <2>8 DEF s
<1> QED
  BY <1>2, <1>3

-----------------------------------------------------------------------------
(***************************************************************************)
(* Part 3.  Instructions.  The text of an instruction is in one place: the *)
(* queue, the batch of a run that has not reached its runtime, or with a   *)
(* runtime, which then is awaited or was told.  aw are the instructions    *)
(* awaited, h how often each was handed over.                              *)
(***************************************************************************)
HandedInv(r, o, aw, h) ==
  \A i \in Instructions :
    LET x == r.instructions[i]
    IN /\ h[i] \in {0, 1}
       /\ x.status \in {"absent", "queued"} => h[i] = 0
       /\ x.status = "received" => h[i] = 1
       /\ i \in aw => h[i] = 1
       /\ x.attempt <= LastAttempt(r)
       /\ o.kind = "run" /\ o.stage # "runtime" =>
            /\ x.status = "sending" /\ x.attempt = LastAttempt(r) => h[i] = 0
            /\ i \in o.batch => x.status = "sending" /\ h[i] = 0
       /\ o.kind = "run" /\ o.stage = "runtime" /\ i \in o.batch => h[i] = 1

\* The operation goes on before, or with, its runtime, or there is no run.
SameSide(o, q) ==
  q.kind = "run" => /\ o.kind = "run" /\ q.batch = o.batch
                    /\ q.stage = "runtime" <=> o.stage = "runtime"

LEMMA HandedKept ==
  ASSUME NEW r, NEW o, NEW aw, NEW h, HandedInv(r, o, aw, h),
         NEW s, NEW q, SameSide(o, q),
         s.instructions = r.instructions, LastAttempt(s) = LastAttempt(r)
  PROVE  HandedInv(s, q, aw, h)
BY DEF HandedInv, SameSide

\* A transaction that changes instructions one by one.
LEMMA HandedOneByOne ==
  ASSUME NEW r, NEW o, NEW aw, NEW h, HandedInv(r, o, aw, h),
         NEW s, NEW q, SameSide(o, q), LastAttempt(s) = LastAttempt(r),
         0 <= LastAttempt(r),
         \A i \in Instructions :
           LET x == r.instructions[i]
               y == s.instructions[i]
           IN \/ y = x
              \/ y.status = "received" /\ y.attempt = x.attempt /\ h[i] = 1
              \/ y.status = "uncertain" /\ y.attempt = x.attempt /\ h[i] = 1
              \/ y.status = "uncertain" /\ y.attempt = x.attempt
                   /\ q.kind # "run"
              \/ y.status = x.status /\ y.attempt = x.attempt
              \/ y.status = "queued" /\ y.attempt = 0 /\ q.kind # "run"
                   /\ h[i] = 0
  PROVE  HandedInv(s, q, aw, h)
BY DEF HandedInv, SameSide

\* A run takes the queued instructions into its batch, none was handed over.
LEMMA StartedHands ==
  ASSUME NEW r, Typed(r), NEW o, NEW aw, NEW h, HandedInv(r, o, aw, h)
  PROVE  HandedInv(AttemptStarted(r), RunOperation(Queued(r)), aw, h)
<1> DEFINE s == AttemptStarted(r)
           q == RunOperation(Queued(r))
           next == LastAttempt(r) + 1
<1>1. q.kind = "run" /\ q.stage = "setup" /\ q.batch = Queued(r)
  BY DEF RunOperation, NoOperation
<1>2. LastAttempt(r) \in Nat /\ LastAttempt(s) = next
  BY DEF AttemptStarted, Typed, Record, LastAttempt
<1>3. \A i \in Instructions :
        s.instructions[i] =
          IF i \in Queued(r)
          THEN [r.instructions[i] EXCEPT !.status = "sending",
                                         !.attempt = next]
          ELSE r.instructions[i]
  BY DEF AttemptStarted, Typed, Record
<1> HIDE DEF s, q
<1>4. ASSUME NEW i \in Instructions
      PROVE  IF i \in Queued(r)
             THEN /\ s.instructions[i].status = "sending"
                  /\ s.instructions[i].attempt = next
                  /\ r.instructions[i].status = "queued"
             ELSE /\ s.instructions[i] = r.instructions[i]
                  /\ s.instructions[i].attempt # next
  <2>1. r.instructions[i] \in Instruction
    BY DEF Typed, Record
  <2>2. r.instructions[i].attempt <= LastAttempt(r)
    BY DEF HandedInv
  <2>3. r.instructions[i].attempt \in 0 .. MaxAttempts
    BY <2>1 DEF Instruction
  <2>4. r.instructions[i].attempt # next
    BY <1>2, <2>2, <2>3, BoundAssumption
  <2>5. CASE i \in Queued(r)
    <3>1. s.instructions[i] =
            [r.instructions[i] EXCEPT !.status = "sending", !.attempt = next]
      BY <1>3, <2>5
    <3>2. r.instructions[i].status = "queued"
      BY <2>5 DEF Queued
    <3> QED
      BY <2>1, <2>5, <3>1, <3>2 DEF Instruction
  <2>6. CASE i \notin Queued(r)
    BY <1>3, <2>4, <2>6
  <2> QED
    BY <2>5, <2>6
<1>5. HandedInv(s, q, aw, h)
  <2> SUFFICES ASSUME NEW i \in Instructions
               PROVE  LET x == s.instructions[i]
                      IN /\ h[i] \in {0, 1}
                         /\ x.status \in {"absent", "queued"} => h[i] = 0
                         /\ x.status = "received" => h[i] = 1
                         /\ i \in aw => h[i] = 1
                         /\ x.attempt <= next
                         /\ x.status = "sending" /\ x.attempt = next =>
                              h[i] = 0
                         /\ i \in Queued(r) =>
                              x.status = "sending" /\ h[i] = 0
    BY <1>1, <1>2 DEF HandedInv
  <2>1. /\ h[i] \in {0, 1}
        /\ r.instructions[i].status \in {"absent", "queued"} => h[i] = 0
        /\ r.instructions[i].status = "received" => h[i] = 1
        /\ i \in aw => h[i] = 1
        /\ r.instructions[i].attempt <= LastAttempt(r)
        /\ r.instructions[i].attempt \in 0 .. MaxAttempts
    BY DEF HandedInv, Typed, Record, Instruction
  <2> QED
    BY <1>2, <1>4, <2>1, BoundAssumption
<1> QED
  BY <1>5 DEF s, q

\* Requeued by a run that never got to its runtime: nothing was handed over.
LEMMA RequeuedHands ==
  ASSUME NEW r, Typed(r), NEW o, NEW aw, NEW h, HandedInv(r, o, aw, h),
         o.kind = "run", o.stage # "runtime",
         NEW s, s.instructions = RequeueSending(r),
         LastAttempt(s) = LastAttempt(r)
  PROVE  HandedInv(s, NoOperation, aw, h)
<1>1. NoOperation.kind = "none"
  BY DEF NoOperation
<1>2. 0 <= LastAttempt(r)
  BY CurrentTyped, BoundAssumption
<1>3. ASSUME NEW i \in Instructions
      PROVE  \/ s.instructions[i] = r.instructions[i]
             \/ /\ s.instructions[i].status = "queued"
                /\ s.instructions[i].attempt = 0
                /\ h[i] = 0
  <2>1. r.instructions[i] \in Instruction
    BY DEF Typed, Record
  <2> QED
    BY <2>1 DEF RequeueSending, HandedInv, Instruction
<1>4. SameSide(o, NoOperation)
  BY <1>1 DEF SameSide
<1> QED
  BY <1>1, <1>2, <1>3, <1>4, HandedOneByOne

LEMMA FailedHands ==
  ASSUME NEW r, Typed(r), NEW o, NEW aw, NEW h, HandedInv(r, o, aw, h),
         o.kind = "run"
  PROVE  HandedInv(AttemptFailed(r, o.stage = "runtime"), NoOperation, aw, h)
<1> DEFINE s == AttemptFailed(r, o.stage = "runtime")
<1>1. /\ s.instructions = IF o.stage = "runtime" THEN r.instructions
                                                 ELSE RequeueSending(r)
      /\ LastAttempt(s) = LastAttempt(r)
  BY DEF AttemptFailed, Typed, Record, LastAttempt
<1>2. SameSide(o, NoOperation)
  BY DEF SameSide, NoOperation
<1> HIDE DEF s
<1>3. CASE o.stage = "runtime"
  BY <1>1, <1>2, <1>3, HandedKept DEF s
<1>4. CASE o.stage # "runtime"
  BY <1>1, <1>4, RequeuedHands DEF s
<1> QED
  BY <1>3, <1>4

LEMMA SetupBlockedHands ==
  ASSUME NEW r, Typed(r), LastAttempt(r) > 0, NEW o, NEW aw, NEW h,
         HandedInv(r, o, aw, h), o.kind = "run", o.stage # "runtime",
         NEW digest \in Snapshots
  PROVE  HandedInv(SetupBlocked(r, digest), NoOperation, aw, h)
<1> DEFINE s == SetupBlocked(r, digest)
           a == [r.attempts[LastAttempt(r)] EXCEPT !.snapshot = digest,
                                                   !.cleanExit = TRUE]
<1>1. /\ s.instructions = RequeueSending(r)
      /\ s.attempts = [r.attempts EXCEPT ![LastAttempt(r)] = a]
  BY DEF SetupBlocked, Typed, Record
<1>2. LastAttempt(s) = LastAttempt(r)
  BY <1>1 DEF Typed, Record, LastAttempt
<1> HIDE DEF s
<1>3. HandedInv(s, NoOperation, aw, h)
  BY <1>1, <1>2, RequeuedHands
<1> QED
  BY <1>3 DEF s

\* The prompt goes to the runtime with the batch in it.
LEMMA EnteredHands ==
  ASSUME NEW r, NEW o, NEW aw, NEW h \in [Instructions -> Nat],
         HandedInv(r, o, aw, h), o.kind = "run", o.stage # "runtime",
         NEW q, q.kind = "run", q.stage = "runtime", q.batch = o.batch
  PROVE  HandedInv(r, q, aw,
                   [i \in Instructions |->
                      IF i \in o.batch THEN h[i] + 1 ELSE h[i]])
BY DEF HandedInv

LEMMA SplicedHands ==
  ASSUME NEW r, Typed(r), LastAttempt(r) > 0, NEW o, NEW aw, NEW h,
         HandedInv(r, o, aw, h), o.kind = "run", o.stage = "runtime"
  PROVE  HandedInv(InboxSpliced(r, o.batch), o, aw, h)
<1> DEFINE s == InboxSpliced(r, o.batch)
           a == [r.attempts[LastAttempt(r)] EXCEPT !.receipt = TRUE]
<1>1. /\ \A i \in Instructions :
           s.instructions[i] =
             IF i \in o.batch
             THEN [r.instructions[i] EXCEPT !.status = "received"]
             ELSE r.instructions[i]
      /\ s.attempts = [r.attempts EXCEPT ![LastAttempt(r)] = a]
  BY DEF InboxSpliced, Typed, Record
<1>2. LastAttempt(s) = LastAttempt(r)
  BY <1>1 DEF Typed, Record, LastAttempt
<1> HIDE DEF s
<1>3. ASSUME NEW i \in Instructions
      PROVE  \/ s.instructions[i] = r.instructions[i]
             \/ /\ s.instructions[i].status = "received"
                /\ s.instructions[i].attempt = r.instructions[i].attempt
                /\ h[i] = 1
  <2>1. r.instructions[i] \in Instruction
    BY DEF Typed, Record
  <2> QED
    BY <1>1, <2>1 DEF HandedInv, Instruction
<1>4. SameSide(o, o)
  BY DEF SameSide
<1>5. 0 <= LastAttempt(r)
  BY CurrentTyped, BoundAssumption
<1>6. HandedInv(s, o, aw, h)
  BY <1>2, <1>3, <1>4, <1>5, HandedOneByOne
<1> QED
  BY <1>6 DEF s

LEMMA SettledHands ==
  ASSUME NEW r, Typed(r), LastAttempt(r) > 0, NEW o, NEW aw, NEW h,
         HandedInv(r, o, aw, h), o.kind = "run", o.stage = "runtime",
         NEW out \in Outcomes, NEW digest
  PROVE  HandedInv(AttemptSettled(r, o.batch, out, digest), NoOperation,
                   aw, h)
<1> DEFINE s == AttemptSettled(r, o.batch, out, digest)
           c == CurrentAttempt(r)
           a == [c EXCEPT !.receipt = out.receipt,
                          !.completed = out.completed,
                          !.cleanExit = out.cleanExit, !.snapshot = digest,
                          !.delivery = out.delivery]
<1>1. /\ \A i \in Instructions :
           s.instructions[i] =
             IF i \in o.batch /\ r.instructions[i].status = "sending"
             THEN [r.instructions[i] EXCEPT
                     !.status = IF out.receipt THEN "received"
                                               ELSE "uncertain"]
             ELSE r.instructions[i]
      /\ s.attempts = [r.attempts EXCEPT ![LastAttempt(r)] = a]
  BY DEF AttemptSettled, Typed, Record
<1>2. LastAttempt(s) = LastAttempt(r)
  BY <1>1 DEF Typed, Record, LastAttempt
<1> HIDE DEF s
<1>3. ASSUME NEW i \in Instructions
      PROVE  \/ s.instructions[i] = r.instructions[i]
             \/ /\ s.instructions[i].status = "received"
                /\ s.instructions[i].attempt = r.instructions[i].attempt
                /\ h[i] = 1
             \/ /\ s.instructions[i].status = "uncertain"
                /\ s.instructions[i].attempt = r.instructions[i].attempt
                /\ h[i] = 1
  <2>1. r.instructions[i] \in Instruction
    BY DEF Typed, Record
  <2> QED
    BY <1>1, <2>1 DEF HandedInv, Instruction
<1>4. SameSide(o, NoOperation)
  BY DEF SameSide, NoOperation
<1>5. 0 <= LastAttempt(r)
  BY CurrentTyped, BoundAssumption
<1>6. HandedInv(s, NoOperation, aw, h)
  BY <1>2, <1>3, <1>4, <1>5, HandedOneByOne
<1> QED
  BY <1>6 DEF s

LEMMA FencedHands ==
  ASSUME NEW r, Typed(r), NEW o, NEW aw, NEW h, HandedInv(r, o, aw, h)
  PROVE  HandedInv(Fenced(r), NoOperation, {}, h)
<1> DEFINE s == Fenced(r)
<1>1. /\ \A i \in Instructions :
           \/ s.instructions[i] = r.instructions[i]
           \/ /\ s.instructions[i].status = "uncertain"
              /\ s.instructions[i].attempt = r.instructions[i].attempt
      /\ LastAttempt(s) = LastAttempt(r)
  BY DEF Fenced, Typed, Record, LastAttempt, Instruction
<1>2. NoOperation.kind = "none"
  BY DEF NoOperation
<1>3. SameSide(o, NoOperation)
  BY <1>2 DEF SameSide
<1> HIDE DEF s
<1>4. 0 <= LastAttempt(r)
  BY CurrentTyped, BoundAssumption
<1>5. HandedInv(r, o, {}, h)
  BY DEF HandedInv
<1>6. HandedInv(s, NoOperation, {}, h)
  BY <1>1, <1>2, <1>3, <1>4, <1>5, HandedOneByOne
<1> QED
  BY <1>6 DEF s

\* Only what a runtime was given is received, late or uncertain.
LEMMA AnsweredHands ==
  ASSUME NEW r, Typed(r), NEW o, NEW aw, NEW h, HandedInv(r, o, aw, h),
         NEW i \in Instructions
  PROVE  /\ HandedInv(InstructionConsumed(r, i), o, aw, h)
         /\ i \in aw =>
              /\ HandedInv(InstructionReceived(r, i), o, aw \ {i}, h)
              /\ HandedInv(InstructionUncertain(r, i), o, aw \ {i}, h)
<1>1. SameSide(o, o) /\ 0 <= LastAttempt(r)
  BY CurrentTyped, BoundAssumption DEF SameSide
<1>2. \A j \in Instructions : r.instructions[j] \in Instruction
  BY DEF Typed, Record
<1>3. HandedInv(InstructionConsumed(r, i), o, aw, h)
  <2> DEFINE s == InstructionConsumed(r, i)
  <2>1. /\ LastAttempt(s) = LastAttempt(r)
        /\ \A j \in Instructions :
             /\ s.instructions[j].status = r.instructions[j].status
             /\ s.instructions[j].attempt = r.instructions[j].attempt
    BY <1>2 DEF InstructionConsumed, Typed, Record, LastAttempt, Instruction
  <2> HIDE DEF s
  <2>2. HandedInv(s, o, aw, h)
    BY <1>1, <2>1, HandedOneByOne
  <2> QED
    BY <2>2 DEF s
<1>4. ASSUME i \in aw,
             NEW s \in {InstructionReceived(r, i), InstructionUncertain(r, i)}
      PROVE  HandedInv(s, o, aw \ {i}, h)
  <2>1. h[i] = 1
    BY <1>4 DEF HandedInv
  <2>2. HandedInv(r, o, aw \ {i}, h)
    BY DEF HandedInv
  <2>3. /\ LastAttempt(s) = LastAttempt(r)
        /\ s.instructions[i].status \in {"received", "uncertain"}
        /\ s.instructions[i].attempt = r.instructions[i].attempt
        /\ \A j \in Instructions \ {i} :
             s.instructions[j] = r.instructions[j]
    <3> DEFINE x == [r.instructions[i] EXCEPT !.status = "received",
                                              !.messageId = TRUE]
               y == [r.instructions[i] EXCEPT !.status = "uncertain"]
    <3>1. /\ x.status = "received" /\ x.attempt = r.instructions[i].attempt
          /\ y.status = "uncertain" /\ y.attempt = r.instructions[i].attempt
      BY <1>2 DEF Instruction
    <3>4. CASE s = InstructionReceived(r, i)
      <4>1. s = [r EXCEPT !.instructions = [r.instructions EXCEPT ![i] = x]]
        BY <3>4, <1>2 DEF InstructionReceived, Typed, Record
      <4> QED
        BY <4>1, <3>1 DEF Typed, Record, LastAttempt
    <3>5. CASE s = InstructionUncertain(r, i)
      <4>1. s = [r EXCEPT !.instructions = [r.instructions EXCEPT ![i] = y]]
        BY <3>5, <1>2 DEF InstructionUncertain, Typed, Record
      <4> QED
        BY <4>1, <3>1 DEF Typed, Record, LastAttempt
    <3> QED
      BY <1>4, <3>4, <3>5
  <2>4. \A j \in Instructions :
          \/ s.instructions[j] = r.instructions[j]
          \/ /\ s.instructions[j].status = "received"
             /\ s.instructions[j].attempt = r.instructions[j].attempt
             /\ h[j] = 1
          \/ /\ s.instructions[j].status = "uncertain"
             /\ s.instructions[j].attempt = r.instructions[j].attempt
             /\ h[j] = 1
    BY <2>1, <2>3
  <2> QED
    BY <1>1, <2>2, <2>3, <2>4, HandedOneByOne
<1> QED
  BY <1>3, <1>4

\* A new instruction waits in the queue, or goes to the running attempt,
\* whose receipt says that its runtime was entered.
LEMMA RecordedHands ==
  ASSUME NEW r, Typed(r), NEW o, NEW aw,
         NEW h \in [Instructions -> Nat], HandedInv(r, o, aw, h),
         NEW i \in Instructions, r.instructions[i].status = "absent"
  PROVE  /\ o.kind # "run" =>
              HandedInv(InstructionRecorded(r, i, FALSE), o, aw, h)
         /\ o.kind = "run" /\ o.stage = "runtime" =>
              HandedInv(InstructionRecorded(r, i, TRUE), o, aw \union {i},
                        [h EXCEPT ![i] = h[i] + 1])
<1>1. LastAttempt(r) \in Nat
  BY CurrentTyped, BoundAssumption
<1>2. h[i] = 0
  BY DEF HandedInv
<1>3. ASSUME o.kind # "run"
      PROVE  HandedInv(InstructionRecorded(r, i, FALSE), o, aw, h)
  <2> DEFINE s == InstructionRecorded(r, i, FALSE)
  <2>1. /\ LastAttempt(s) = LastAttempt(r)
        /\ s.instructions[i].status = "queued"
        /\ s.instructions[i].attempt = 0
        /\ \A j \in Instructions \ {i} :
             s.instructions[j] = r.instructions[j]
    BY DEF InstructionRecorded, Typed, Record, LastAttempt
  <2> HIDE DEF s
  <2>2. \A j \in Instructions :
          \/ s.instructions[j] = r.instructions[j]
          \/ /\ s.instructions[j].status = "queued"
             /\ s.instructions[j].attempt = 0
             /\ h[j] = 0
    BY <1>2, <2>1
  <2>3. SameSide(o, o) /\ 0 <= LastAttempt(r)
    BY <1>1 DEF SameSide
  <2>4. HandedInv(s, o, aw, h)
    BY <1>3, <2>1, <2>2, <2>3, HandedOneByOne
  <2> QED
    BY <2>4 DEF s
<1>4. ASSUME o.kind = "run", o.stage = "runtime"
      PROVE  HandedInv(InstructionRecorded(r, i, TRUE), o, aw \union {i},
                       [h EXCEPT ![i] = h[i] + 1])
  <2> DEFINE s == InstructionRecorded(r, i, TRUE)
             g == [h EXCEPT ![i] = h[i] + 1]
  <2>1. /\ LastAttempt(s) = LastAttempt(r)
        /\ s.instructions[i].status = "sending"
        /\ s.instructions[i].attempt = LastAttempt(r)
        /\ \A j \in Instructions \ {i} :
             s.instructions[j] = r.instructions[j]
    BY DEF InstructionRecorded, Typed, Record, LastAttempt
  <2>2. g[i] = 1 /\ \A j \in Instructions \ {i} : g[j] = h[j]
    BY <1>2
  <2> HIDE DEF s, g
  <2>3. HandedInv(s, o, aw \union {i}, g)
    BY <1>1, <1>4, <2>1, <2>2 DEF HandedInv
  <2> QED
    BY <2>3 DEF s, g
<1> QED
  BY <1>3, <1>4

-----------------------------------------------------------------------------
(***************************************************************************)
(* Part 4.  The actions.                                                   *)
(***************************************************************************)
TicketEvidence(r, o, aw, h) == Evidence(r, o) /\ HandedInv(r, o, aw, h)

EvidenceInv ==
  \A t \in Tickets :
    TicketEvidence(record[t], operations[t], awaiting[t], handed[t])

EvidenceStep == \A t \in Tickets : Frozen(record[t], record'[t])

\* The invariant after a step, from what it says of the new values.
LEMMA EvidencePrimed ==
  ASSUME \A t \in Tickets :
           TicketEvidence(record'[t], operations'[t], awaiting'[t],
                          handed'[t])
  PROVE  EvidenceInv'
<1> SUFFICES ASSUME NEW t \in Tickets
             PROVE  TicketEvidence(record[t], operations[t], awaiting[t],
                                   handed[t])'
  BY DEF EvidenceInv
<1>1. TicketEvidence(record'[t], operations'[t], awaiting'[t], handed'[t])
  OBVIOUS
<1> QED
  BY <1>1
     DEF TicketEvidence, Evidence, Reviewable, Accepted, Descent, Descends,
         RunInv, VerifyInv, RecoverInv, PendingInv, InterruptedInv,
         PreparedInv, HandedInv, Continues, LastAttempt, CurrentAttempt,
         LastVerification, VerifiedUnchanged, ReviewedVerifications, Owned

\* A step of one ticket.
LEMMA OneTicketEvidence ==
  ASSUME IInv, EvidenceInv, NEW t \in Tickets, NEW r, NEW o, NEW aw, NEW h,
         record' = [record EXCEPT ![t] = r],
         operations' = [operations EXCEPT ![t] = o],
         awaiting' = [awaiting EXCEPT ![t] = aw],
         handed' = [handed EXCEPT ![t] = h],
         Follows(record[t], r, o), HandedInv(r, o, aw, h)
  PROVE  EvidenceInv' /\ EvidenceStep
<1>1. /\ record'[t] = r /\ operations'[t] = o
      /\ awaiting'[t] = aw /\ handed'[t] = h
      /\ \A u \in Tickets \ {t} :
           /\ record'[u] = record[u] /\ operations'[u] = operations[u]
           /\ awaiting'[u] = awaiting[u] /\ handed'[u] = handed[u]
  BY DEF IInv, TypeOK
<1>2. ASSUME NEW u \in Tickets
      PROVE  /\ TicketEvidence(record'[u], operations'[u], awaiting'[u],
                               handed'[u])
             /\ Frozen(record[u], record'[u])
  <2>1. CASE u = t
    BY <1>1, <2>1 DEF TicketEvidence, Follows
  <2>2. CASE u # t
    <3>1. TicketEvidence(record[u], operations[u], awaiting[u], handed[u])
      BY DEF EvidenceInv
    <3>2. Frozen(record[u], record[u])
      BY SameFrozen DEF Frozen
    <3> QED
      BY <1>1, <2>2, <3>1, <3>2
  <2> QED
    BY <2>1, <2>2
<1>3. EvidenceInv'
  BY <1>2, EvidencePrimed
<1> QED
  BY <1>2, <1>3 DEF EvidenceStep

\* An action that replaces the record and the operation of a ticket.
LEMMA OperationEvidence ==
  ASSUME IInv, EvidenceInv, NEW t \in Tickets, NEW r, NEW o,
         Update(t, r), operations' = [operations EXCEPT ![t] = o],
         UNCHANGED <<awaiting, handed>>,
         Follows(record[t], r, o), HandedInv(r, o, awaiting[t], handed[t])
  PROVE  EvidenceInv' /\ EvidenceStep
<1>1. /\ awaiting' = [awaiting EXCEPT ![t] = awaiting[t]]
      /\ handed' = [handed EXCEPT ![t] = handed[t]]
  BY DEF IInv, TypeOK
<1> QED
  BY <1>1, OneTicketEvidence DEF Update

\* An action that only replaces the record of a ticket.
LEMMA RecordEvidence ==
  ASSUME IInv, EvidenceInv, NEW t \in Tickets, NEW r,
         Update(t, r), UNCHANGED <<operations, awaiting, handed>>,
         Follows(record[t], r, operations[t]),
         HandedInv(r, operations[t], awaiting[t], handed[t])
  PROVE  EvidenceInv' /\ EvidenceStep
<1>1. operations' = [operations EXCEPT ![t] = operations[t]]
  BY DEF IInv, TypeOK
<1> QED
  BY <1>1, OperationEvidence

\* An action that leaves records, operations and instructions alone.
LEMMA SameEvidence ==
  ASSUME IInv, EvidenceInv, UNCHANGED <<record, operations, awaiting, handed>>
  PROVE  EvidenceInv' /\ EvidenceStep
<1>1. \A t \in Tickets :
        TicketEvidence(record'[t], operations'[t], awaiting'[t], handed'[t])
  BY DEF EvidenceInv
<1>2. EvidenceInv'
  BY <1>1, EvidencePrimed
<1>3. EvidenceStep
  BY SameFrozen DEF EvidenceStep, Frozen
<1> QED
  BY <1>2, <1>3

\* What the invariants say of one ticket.
LEMMA EvidenceFacts ==
  ASSUME IInv, EvidenceInv, NEW t \in Tickets
  PROVE  /\ TicketInv(record[t], operations[t].kind, processes[t])
         /\ Typed(record[t])
         /\ Evidence(record[t], operations[t])
         /\ HandedInv(record[t], operations[t], awaiting[t], handed[t])
         /\ operations[t] \in Operation
         /\ operations[t].kind \in {"none", "run", "verify", "recover"}
         /\ worktree[t] \in Snapshots
         /\ handed[t] \in [Instructions -> Nat]
<1>1. TicketEvidence(record[t], operations[t], awaiting[t], handed[t])
  BY DEF EvidenceInv
<1>2. handed[t] \in [Instructions -> Nat]
  BY DEF IInv, TypeOK
<1> QED
  BY <1>1, <1>2, TicketFacts DEF TicketEvidence

\* The invariants do not look at an operation that is not live.
LEMMA NotLiveEvidence ==
  ASSUME NEW r, NEW o, o.kind = "none", NEW aw, NEW h
  PROVE  /\ Evidence(r, o) <=> Evidence(r, NoOperation)
         /\ HandedInv(r, o, aw, h) <=> HandedInv(r, NoOperation, aw, h)
         /\ \A s : Follows(r, s, NoOperation) => Follows(r, s, o)
<1>1. NoOperation.kind = "none"
  BY DEF NoOperation
<1>2. ASSUME NEW s PROVE Evidence(s, o) <=> Evidence(s, NoOperation)
  BY <1>1 DEF Evidence, RunInv, VerifyInv, RecoverInv
<1>3. HandedInv(r, o, aw, h) <=> HandedInv(r, NoOperation, aw, h)
  BY <1>1 DEF HandedInv
<1> QED
  BY <1>2, <1>3 DEF Follows

\* An idle ticket.
LEMMA IdleFacts ==
  ASSUME IInv, EvidenceInv, NEW t \in Tickets, Idle(t)
  PROVE  /\ operations[t].kind = "none" /\ ~Owned(record[t])
         /\ TicketInv(record[t], "none", processes[t])
         /\ Evidence(record[t], NoOperation)
         /\ \A s : Follows(record[t], s, NoOperation) =>
                     Follows(record[t], s, operations[t])
<1>1. operations[t].kind = "none" /\ ~Owned(record[t])
  BY TicketFacts
<1> QED
  BY <1>1, EvidenceFacts, NotLiveEvidence

\* A preparation or an archive flag of an idle ticket.
LEMMA PrepareEvidence ==
  ASSUME IInv, EvidenceInv, NEW t \in Tickets,
         \/ PrepareRevision(t) \/ PrepareRevisionBlocked(t)
         \/ PrepareAgain(t) \/ PrepareAgainBlocked(t) \/ Archive(t)
  PROVE  EvidenceInv' /\ EvidenceStep
<1> DEFINE r == record[t]
           o == operations[t]
           archived == [r EXCEPT !.archived = ~@]
           outcomes == {TicketPrepared(TicketReserved(r)),
                        TicketBlocked(TicketReserved(r)),
                        TicketPrepared(r), TicketBlocked(r), archived}
<1>1. Idle(t) /\ UNCHANGED <<operations, awaiting, handed>>
  BY DEF PrepareRevision, PrepareRevisionBlocked, PrepareAgain,
         PrepareAgainBlocked, Archive, CanReserve, memory
<1>2. PICK s \in outcomes : Update(t, s)
  BY DEF PrepareRevision, PrepareRevisionBlocked, PrepareAgain,
         PrepareAgainBlocked, Archive
<1>3. /\ Typed(r) /\ ~Owned(r) /\ Evidence(r, NoOperation)
      /\ Evidence(r, o) /\ HandedInv(r, o, awaiting[t], handed[t])
      /\ \A u : Follows(r, u, NoOperation) => Follows(r, u, o)
  BY <1>1, IdleFacts, EvidenceFacts
<1>4. Follows(r, s, o)
  <2>1. CASE s = archived
    <3>1. /\ s.attempts = r.attempts /\ s.verifications = r.verifications
          /\ s.baselines = r.baselines /\ s.review = r.review
          /\ s.revision = r.revision /\ s.state = r.state
          /\ s.prepared = r.prepared /\ s.active = r.active
          /\ s.interrupted = r.interrupted /\ s.pending = r.pending
      BY <1>3, <2>1 DEF Typed, Record
    <3> QED
      BY <1>3, <3>1, StageFollows
  <2>2. CASE s # archived
    BY <1>2, <1>3, <2>2, PreparedFollows
  <2> QED
    BY <2>1, <2>2
<1>5. s.instructions = r.instructions /\ LastAttempt(s) = LastAttempt(r)
  BY <1>2, <1>3
     DEF TicketPrepared, TicketBlocked, TicketReserved, Typed, Record,
         LastAttempt
<1>6. HandedInv(s, o, awaiting[t], handed[t])
  <2>1. SameSide(o, o)
    BY DEF SameSide
  <2> QED
    BY <1>3, <1>5, <2>1, HandedKept
<1> QED
  BY <1>1, <1>2, <1>4, <1>6, RecordEvidence

LEMMA RunEvidence ==
  ASSUME IInv, EvidenceInv, NEW t \in Tickets, Run(t)
  PROVE  EvidenceInv' /\ EvidenceStep
<1> DEFINE r == record[t]
           q == RunOperation(Queued(r))
<1>1. /\ Idle(t) /\ r.prepared /\ ContinuationBinds(t)
      /\ Update(t, AttemptStarted(r))
      /\ operations' = [operations EXCEPT ![t] = q]
      /\ UNCHANGED <<awaiting, handed>>
  BY DEF Run
<1>2. r.pending.kind # "none" => CurrentAttempt(r).revision = r.revision
  BY <1>1 DEF ContinuationBinds
<1>3. /\ Typed(r) /\ ~Owned(r) /\ Evidence(r, NoOperation)
      /\ HandedInv(r, operations[t], awaiting[t], handed[t])
  BY <1>1, IdleFacts, EvidenceFacts
<1>4. Follows(r, AttemptStarted(r), q)
  BY <1>1, <1>2, <1>3, StartedFollows
<1>5. HandedInv(AttemptStarted(r), q, awaiting[t], handed[t])
  BY <1>3, StartedHands
<1> HIDE DEF q
<1> QED
  BY <1>1, <1>4, <1>5, OperationEvidence

\* The stages of a run up to its runtime.
LEMMA StageEvidence ==
  ASSUME IInv, EvidenceInv, NEW t \in Tickets,
         SetupPassed(t) \/ BaselineDone(t)
  PROVE  EvidenceInv' /\ EvidenceStep
<1> DEFINE r == record[t]
           o == operations[t]
<1>1. /\ o.kind = "run" /\ o.stage \in {"setup", "baseline"}
      /\ UNCHANGED <<awaiting, handed>>
  BY DEF SetupPassed, BaselineDone, Running
<1>2. /\ Typed(r) /\ Evidence(r, o) /\ o \in Operation
      /\ TicketInv(r, o.kind, processes[t])
      /\ HandedInv(r, o, awaiting[t], handed[t])
  BY EvidenceFacts
<1>3. \/ /\ o.stage = "setup" /\ NeedsBaseline(r)
         /\ Update(t, BaselineReserved(r))
         /\ operations' = [operations EXCEPT ![t].stage = "baseline"]
      \/ /\ o.stage = "setup"
         /\ UNCHANGED record
         /\ operations' = [operations EXCEPT ![t].stage = "launch"]
      \/ /\ o.stage = "baseline"
         /\ \E comparable \in BOOLEAN :
              Update(t, BaselineSettled(r, comparable))
         /\ operations' = [operations EXCEPT ![t].stage = "launch"]
  BY DEF SetupPassed, BaselineDone, Running
<1>4. PICK stage \in {"baseline", "launch"} :
        operations' = [operations EXCEPT ![t] = [o EXCEPT !.stage = stage]]
  BY <1>3 DEF IInv, TypeOK
<1> DEFINE q == [o EXCEPT !.stage = stage]
<1>5. /\ q.kind = "run" /\ q.stage = stage /\ q.batch = o.batch
      /\ q.continuation = o.continuation /\ q.digest = o.digest
      /\ SameSide(o, q)
  BY <1>1, <1>2 DEF Operation, SameSide
<1>6. operations'[t].stage = stage
  BY <1>4, <1>5 DEF IInv, TypeOK
<1>7. PICK s : Update(t, s) /\ Follows(r, s, q)
               /\ s.instructions = r.instructions
               /\ LastAttempt(s) = LastAttempt(r)
  <2>1. CASE /\ o.stage = "setup" /\ NeedsBaseline(r)
             /\ Update(t, BaselineReserved(r))
             /\ operations' = [operations EXCEPT ![t].stage = "baseline"]
    <3>1. stage = "baseline"
      BY <1>6, <2>1, <1>2 DEF IInv, TypeOK, Operation
    <3>2. Follows(r, BaselineReserved(r), q)
      BY <1>1, <1>2, <2>1, <3>1, ReservedFollows
    <3>3. /\ BaselineReserved(r).instructions = r.instructions
          /\ LastAttempt(BaselineReserved(r)) = LastAttempt(r)
      BY <1>2 DEF BaselineReserved, Typed, Record, LastAttempt
    <3> QED
      BY <2>1, <3>2, <3>3
  <2>2. CASE /\ o.stage = "setup"
             /\ UNCHANGED record
             /\ operations' = [operations EXCEPT ![t].stage = "launch"]
    <3>1. stage = "launch"
      BY <1>6, <2>2, <1>2 DEF IInv, TypeOK, Operation
    <3>2. Follows(r, r, q)
      BY <1>1, <1>2, <1>5, <2>2, <3>1, StageFollows
    <3>3. Update(t, r)
      BY <2>2 DEF Update, IInv, TypeOK
    <3> QED
      BY <3>2, <3>3
  <2>3. CASE /\ o.stage = "baseline"
             /\ \E comparable \in BOOLEAN :
                  Update(t, BaselineSettled(r, comparable))
             /\ operations' = [operations EXCEPT ![t].stage = "launch"]
    <3>1. stage = "launch"
      BY <1>6, <2>3, <1>2 DEF IInv, TypeOK, Operation
    <3>2. PICK comparable \in BOOLEAN :
            Update(t, BaselineSettled(r, comparable))
      BY <2>3
    <3>3. Follows(r, BaselineSettled(r, comparable), q)
      BY <1>1, <1>2, <2>3, <3>1, BaselineDoneFollows
    <3>4. /\ BaselineSettled(r, comparable).instructions = r.instructions
          /\ LastAttempt(BaselineSettled(r, comparable)) = LastAttempt(r)
      BY <1>2 DEF BaselineSettled, Typed, Record, LastAttempt
    <3> QED
      BY <3>2, <3>3, <3>4
  <2> QED
    BY <1>3, <2>1, <2>2, <2>3
<1>8. HandedInv(s, q, awaiting[t], handed[t])
  BY <1>2, <1>5, <1>7, HandedKept
<1> HIDE DEF q
<1> QED
  BY <1>1, <1>4, <1>7, <1>8, OperationEvidence DEF q

LEMMA EnterRuntimeEvidence ==
  ASSUME IInv, EvidenceInv, NEW t \in Tickets, EnterRuntime(t)
  PROVE  EvidenceInv' /\ EvidenceStep
<1> DEFINE r == record[t]
           o == operations[t]
           q == [o EXCEPT !.stage = "runtime"]
           h == [i \in Instructions |->
                   IF i \in o.batch THEN handed[t][i] + 1 ELSE handed[t][i]]
<1>1. /\ o.kind = "run" /\ o.stage = "launch"
      /\ UNCHANGED <<record, awaiting>>
  BY DEF EnterRuntime, Running
<1>2. /\ Typed(r) /\ Evidence(r, o) /\ o \in Operation
      /\ HandedInv(r, o, awaiting[t], handed[t])
      /\ handed[t] \in [Instructions -> Nat]
  BY EvidenceFacts
<1>3. /\ q.kind = "run" /\ q.stage = "runtime" /\ q.batch = o.batch
      /\ q.continuation = o.continuation /\ q.digest = o.digest
  BY <1>1, <1>2 DEF Operation
<1>4. operations' = [operations EXCEPT ![t] = q]
  BY DEF EnterRuntime, IInv, TypeOK
<1>5. handed' = [handed EXCEPT ![t] = h]
  BY DEF EnterRuntime
<1>6. record' = [record EXCEPT ![t] = r]
      /\ awaiting' = [awaiting EXCEPT ![t] = awaiting[t]]
  BY <1>1 DEF IInv, TypeOK
<1>7. Follows(r, r, q)
  <2> HIDE DEF q
  <2> QED
    BY <1>1, <1>2, <1>3, StageFollows
<1>8. HandedInv(r, q, awaiting[t], h)
  <2> HIDE DEF q
  <2> QED
    BY <1>1, <1>2, <1>3, EnteredHands
<1> HIDE DEF q, h
<1> QED
  BY <1>4, <1>5, <1>6, <1>7, <1>8, OneTicketEvidence

\* What the inbox and the transcript of a running attempt tell.
LEMMA ObserveEvidence ==
  ASSUME IInv, EvidenceInv, NEW t \in Tickets, ObserveReceipt(t)
  PROVE  EvidenceInv' /\ EvidenceStep
<1> DEFINE r == record[t]
           o == operations[t]
<1>1. /\ o.kind = "run" /\ o.stage = "runtime"
      /\ Update(t, InboxSpliced(r, o.batch))
      /\ UNCHANGED <<operations, awaiting, handed>>
  BY DEF ObserveReceipt, Running, memory
<1>2. /\ Typed(r) /\ Evidence(r, o) /\ TicketInv(r, o.kind, processes[t])
      /\ HandedInv(r, o, awaiting[t], handed[t])
  BY EvidenceFacts
<1>3. LastAttempt(r) > 0
  BY <1>1, <1>2, RunFacts
<1>4. Follows(r, InboxSpliced(r, o.batch), o)
  BY <1>1, <1>2, SplicedFollows
<1>5. HandedInv(InboxSpliced(r, o.batch), o, awaiting[t], handed[t])
  BY <1>1, <1>2, <1>3, SplicedHands
<1> QED
  BY <1>1, <1>4, <1>5, RecordEvidence

\* The three ends of a run.
LEMMA RunEndsEvidence ==
  ASSUME IInv, EvidenceInv, NEW t \in Tickets,
         Settle(t) \/ RunFails(t) \/ BlockOnSetup(t)
  PROVE  EvidenceInv' /\ EvidenceStep
<1> DEFINE r == record[t]
           o == operations[t]
<1>1. /\ o.kind = "run"
      /\ operations' = [operations EXCEPT ![t] = NoOperation]
      /\ UNCHANGED <<awaiting, handed>>
  BY DEF Settle, RunFails, BlockOnSetup, Running, Finish
<1>2. /\ Typed(r) /\ Evidence(r, o) /\ TicketInv(r, o.kind, processes[t])
      /\ HandedInv(r, o, awaiting[t], handed[t])
      /\ worktree[t] \in Snapshots
  BY EvidenceFacts
<1>3. LastAttempt(r) > 0
  BY <1>1, <1>2, RunFacts
<1>4. PICK s : /\ Update(t, s) /\ Follows(r, s, NoOperation)
               /\ HandedInv(s, NoOperation, awaiting[t], handed[t])
  <2>1. CASE Settle(t)
    <3>1. o.stage = "runtime"
      BY <2>1 DEF Settle, Running
    <3>2. PICK out \in Outcomes, digest \in {worktree[t], NoSnapshot} :
            Update(t, AttemptSettled(r, o.batch, out, digest))
      BY <2>1 DEF Settle
    <3>3. digest \in OptionalSnapshot
      BY <1>2 DEF OptionalSnapshot
    <3>4. Follows(r, AttemptSettled(r, o.batch, out, digest), NoOperation)
      BY <1>1, <1>2, <3>3, SettledFollows
    <3>5. HandedInv(AttemptSettled(r, o.batch, out, digest), NoOperation,
                    awaiting[t], handed[t])
      BY <1>1, <1>2, <1>3, <3>1, SettledHands
    <3> QED
      BY <3>2, <3>4, <3>5
  <2>2. CASE RunFails(t)
    <3>1. Update(t, AttemptFailed(r, o.stage = "runtime"))
      BY <2>2 DEF RunFails
    <3>2. Follows(r, AttemptFailed(r, o.stage = "runtime"), NoOperation)
      BY <1>1, <1>2, FailedFollows
    <3>3. HandedInv(AttemptFailed(r, o.stage = "runtime"), NoOperation,
                    awaiting[t], handed[t])
      BY <1>1, <1>2, FailedHands
    <3> QED
      BY <3>1, <3>2, <3>3
  <2>3. CASE BlockOnSetup(t)
    <3>1. /\ Update(t, SetupBlocked(r, worktree[t]))
          /\ o.stage # "runtime"
      BY <2>3 DEF BlockOnSetup, Running
    <3>2. Follows(r, SetupBlocked(r, worktree[t]), NoOperation)
      BY <1>1, <1>2, SetupBlockedFollows
    <3>3. HandedInv(SetupBlocked(r, worktree[t]), NoOperation,
                    awaiting[t], handed[t])
      BY <1>1, <1>2, <1>3, <3>1, SetupBlockedHands
    <3> QED
      BY <3>1, <3>2, <3>3
  <2> QED
    BY <2>1, <2>2, <2>3
<1> QED
  BY <1>1, <1>4, OperationEvidence

LEMMA AbortEvidence ==
  ASSUME IInv, EvidenceInv, NEW t \in Tickets, Abort(t)
  PROVE  EvidenceInv' /\ EvidenceStep
<1> DEFINE r == record[t]
           o == operations[t]
           q == [o EXCEPT !.abort = TRUE]
<1>1. UNCHANGED <<record, awaiting, handed>>
  BY DEF Abort
<1>2. /\ Typed(r) /\ Evidence(r, o) /\ o \in Operation
      /\ HandedInv(r, o, awaiting[t], handed[t])
  BY EvidenceFacts
<1>3. /\ q.kind = o.kind /\ q.stage = o.stage /\ q.batch = o.batch
      /\ q.continuation = o.continuation /\ q.digest = o.digest
  BY <1>2 DEF Operation
<1>4. operations' = [operations EXCEPT ![t] = q] /\ Update(t, r)
  BY <1>1 DEF Abort, IInv, TypeOK, Update
<1> HIDE DEF q
<1>5. Follows(r, r, q)
  BY <1>2, <1>3, StageFollows
<1>6. HandedInv(r, q, awaiting[t], handed[t])
  BY <1>2, <1>3, HandedKept DEF SameSide
<1> QED
  BY <1>1, <1>4, <1>5, <1>6, OperationEvidence

LEMMA VerifyEvidence ==
  ASSUME IInv, EvidenceInv, NEW t \in Tickets, Verify(t)
  PROVE  EvidenceInv' /\ EvidenceStep
<1> DEFINE r == record[t]
           s == VerificationStarted(r, worktree[t])
<1>1. /\ Idle(t) /\ r.state = "awaiting_review"
      /\ CurrentAttempt(r).snapshot = worktree[t]
      /\ Update(t, s)
      /\ operations' = [operations EXCEPT ![t] = VerifyOperation]
      /\ UNCHANGED <<awaiting, handed>>
  BY DEF Verify
<1>2. /\ Typed(r) /\ ~Owned(r) /\ Evidence(r, NoOperation)
      /\ HandedInv(r, operations[t], awaiting[t], handed[t])
  BY <1>1, IdleFacts, EvidenceFacts
<1>3. Follows(r, s, VerifyOperation)
  BY <1>1, <1>2, VerificationStartedFollows
<1>4. HandedInv(s, VerifyOperation, awaiting[t], handed[t])
  <2>1. s.instructions = r.instructions /\ LastAttempt(s) = LastAttempt(r)
    BY <1>2 DEF VerificationStarted, Typed, Record, LastAttempt
  <2>2. SameSide(operations[t], VerifyOperation)
    BY DEF SameSide, VerifyOperation, NoOperation
  <2> QED
    BY <1>2, <2>1, <2>2, HandedKept
<1> HIDE DEF s
<1> QED
  BY <1>1, <1>3, <1>4, OperationEvidence

LEMMA VerifyEndsEvidence ==
  ASSUME IInv, EvidenceInv, NEW t \in Tickets,
         VerifySettles(t) \/ VerifyFails(t)
  PROVE  EvidenceInv' /\ EvidenceStep
<1> DEFINE r == record[t]
           o == operations[t]
<1>1. /\ o.kind = "verify"
      /\ operations' = [operations EXCEPT ![t] = NoOperation]
      /\ UNCHANGED <<awaiting, handed>>
  BY DEF VerifySettles, VerifyFails, Finish
<1>2. /\ Typed(r) /\ Evidence(r, o) /\ TicketInv(r, o.kind, processes[t])
      /\ HandedInv(r, o, awaiting[t], handed[t])
  BY EvidenceFacts
<1>3. PICK s : /\ Update(t, s) /\ Follows(r, s, NoOperation)
               /\ s.instructions = r.instructions
               /\ LastAttempt(s) = LastAttempt(r)
  <2>1. CASE VerifySettles(t)
    <3>1. PICK passed \in BOOLEAN :
            Update(t, VerificationSettled(r, worktree[t], passed))
      BY <2>1 DEF VerifySettles
    <3> DEFINE s == VerificationSettled(r, worktree[t], passed)
    <3>2. Follows(r, s, NoOperation)
      BY <1>1, <1>2, VerificationSettledFollows
    <3>3. s.instructions = r.instructions /\ LastAttempt(s) = LastAttempt(r)
      BY <1>2 DEF VerificationSettled, Typed, Record, LastAttempt
    <3> QED
      BY <3>1, <3>2, <3>3
  <2>2. CASE VerifyFails(t)
    <3> DEFINE s == VerificationFailed(r)
    <3>1. Update(t, s)
      BY <2>2 DEF VerifyFails
    <3>2. Follows(r, s, NoOperation)
      BY <1>1, <1>2, VerificationFailedFollows
    <3>3. s.instructions = r.instructions /\ LastAttempt(s) = LastAttempt(r)
      BY <1>2 DEF VerificationFailed, Typed, Record, LastAttempt
    <3> QED
      BY <3>1, <3>2, <3>3
  <2> QED
    BY <2>1, <2>2
<1>4. HandedInv(s, NoOperation, awaiting[t], handed[t])
  BY <1>2, <1>3, HandedKept DEF SameSide, NoOperation
<1> QED
  BY <1>1, <1>3, <1>4, OperationEvidence

LEMMA ReviewEvidence ==
  ASSUME IInv, EvidenceInv, NEW t \in Tickets, NEW verdict \in Verdicts,
         RecordReview(t, verdict)
  PROVE  EvidenceInv' /\ EvidenceStep
<1> DEFINE r == record[t]
           o == operations[t]
           s == ReviewRecorded(r, worktree[t], verdict)
<1>1. /\ Idle(t) /\ r.state = "awaiting_review"
      /\ CurrentAttempt(r).snapshot = worktree[t]
      /\ verdict = "accept" => VerifiedUnchanged(r, worktree[t])
      /\ Update(t, s)
      /\ UNCHANGED <<operations, awaiting, handed>>
  BY DEF RecordReview, memory
<1>2. /\ Typed(r) /\ ~Owned(r) /\ Evidence(r, NoOperation)
      /\ HandedInv(r, o, awaiting[t], handed[t])
      /\ \A u : Follows(r, u, NoOperation) => Follows(r, u, o)
  BY <1>1, IdleFacts, EvidenceFacts
<1>3. Follows(r, s, o)
  BY <1>1, <1>2, ReviewFollows
<1>4. HandedInv(s, o, awaiting[t], handed[t])
  <2>1. s.instructions = r.instructions /\ LastAttempt(s) = LastAttempt(r)
    BY <1>2 DEF ReviewRecorded, Typed, Record, LastAttempt
  <2> QED
    BY <1>2, <2>1, HandedKept DEF SameSide
<1> HIDE DEF s
<1> QED
  BY <1>1, <1>3, <1>4, RecordEvidence

LEMMA RecoverEvidence ==
  ASSUME IInv, EvidenceInv, NEW t \in Tickets, NEW kind \in ContinuationKinds,
         Recover(t, kind)
  PROVE  EvidenceInv' /\ EvidenceStep
<1> DEFINE r == record[t]
           s == RecoveryStarted(r)
           q == RecoverOperation(kind, worktree[t])
<1>1. /\ operations[t].kind = "none"
      /\ Recoverable(r, kind) /\ LastAttempt(r) > 0
      /\ kind = "answer" => Answerable(t)
      /\ kind = "delivery" => Reportable(t)
      /\ Update(t, s) /\ operations' = [operations EXCEPT ![t] = q]
      /\ UNCHANGED <<awaiting, handed>>
  BY DEF Recover, Live
<1>2. /\ TicketInv(r, "none", processes[t]) /\ Typed(r)
      /\ Evidence(r, NoOperation)
      /\ HandedInv(r, operations[t], awaiting[t], handed[t])
  BY <1>1, EvidenceFacts, NotLiveEvidence
<1>3. kind # "restart" => Continues(r, kind, worktree[t])
  <2>1. CASE kind = "answer"
    BY <1>1, <2>1 DEF Answerable, Continues
  <2>2. CASE kind = "delivery"
    BY <1>1, <2>2 DEF Reportable, InScope, Continues
  <2> QED
    BY <2>1, <2>2 DEF ContinuationKinds
<1>4. Follows(r, s, q)
  BY <1>1, <1>2, <1>3, RecoveryStartedFollows
<1>5. HandedInv(s, q, awaiting[t], handed[t])
  <2>1. s.instructions = r.instructions /\ LastAttempt(s) = LastAttempt(r)
    BY <1>2 DEF RecoveryStarted, Typed, Record, LastAttempt
  <2>2. SameSide(operations[t], q)
    BY DEF SameSide, RecoverOperation, NoOperation
  <2> QED
    BY <1>2, <2>1, <2>2, HandedKept
<1> HIDE DEF s, q
<1> QED
  BY <1>1, <1>4, <1>5, OperationEvidence

LEMMA RecoverEndsEvidence ==
  ASSUME IInv, EvidenceInv, NEW t \in Tickets,
         RecoverySettles(t) \/ RecoveryFails(t)
  PROVE  EvidenceInv' /\ EvidenceStep
<1> DEFINE r == record[t]
           o == operations[t]
<1>1. /\ o.kind = "recover"
      /\ operations' = [operations EXCEPT ![t] = NoOperation]
      /\ UNCHANGED <<awaiting, handed>>
  BY DEF RecoverySettles, RecoveryFails, Finish
<1>2. /\ Typed(r) /\ Evidence(r, o) /\ TicketInv(r, o.kind, processes[t])
      /\ HandedInv(r, o, awaiting[t], handed[t])
      /\ worktree[t] \in Snapshots /\ o \in Operation
  BY EvidenceFacts
<1>3. PICK s : /\ Update(t, s) /\ Follows(r, s, NoOperation)
               /\ s.instructions = r.instructions
               /\ LastAttempt(s) = LastAttempt(r)
  <2>1. CASE RecoverySettles(t)
    <3> DEFINE s == TicketRecovered(r, o.continuation, o.digest)
    <3>1. Update(t, s) /\ o.digest \in Snapshots
      BY <1>2, <2>1 DEF RecoverySettles
    <3>2. Follows(r, s, NoOperation)
      BY <1>1, <1>2, <3>1, RecoveredFollows
    <3>3. s.instructions = r.instructions
      BY <1>2 DEF TicketRecovered, Typed, Record
    <3>4. LastAttempt(s) = LastAttempt(r)
      <4>1. LastAttempt(r) > 0 /\ Descent(r)
        BY <1>1, <1>2 DEF TicketInv, Restartable, Evidence
      <4>2. s.attempts = [n \in DOMAIN r.attempts |->
                            [r.attempts[n] EXCEPT !.cleanExit = TRUE]]
        BY <1>2 DEF TicketRecovered, Typed, Record
      <4> HIDE DEF s
      <4> QED
        BY <1>2, <4>1, <4>2, RecoveredAttempts
    <3> QED
      BY <3>1, <3>2, <3>3, <3>4
  <2>2. CASE RecoveryFails(t)
    <3> DEFINE s == RecoveryFailed(r)
    <3>1. Update(t, s)
      BY <2>2 DEF RecoveryFails
    <3>2. Follows(r, s, NoOperation)
      BY <1>1, <1>2, RecoveryFailedFollows
    <3>3. s.instructions = r.instructions /\ LastAttempt(s) = LastAttempt(r)
      BY <1>2 DEF RecoveryFailed, Typed, Record, LastAttempt
    <3> QED
      BY <3>1, <3>2, <3>3
  <2> QED
    BY <2>1, <2>2
<1>4. HandedInv(s, NoOperation, awaiting[t], handed[t])
  BY <1>2, <1>3, HandedKept DEF SameSide, NoOperation
<1> QED
  BY <1>1, <1>3, <1>4, OperationEvidence

\* A transaction that only writes instructions leaves the evidence alone.
LEMMA InstructionFollows ==
  ASSUME NEW r, Typed(r), NEW o, Evidence(r, o), NEW i \in Instructions
  PROVE  /\ Follows(r, InstructionConsumed(r, i), o)
         /\ Follows(r, InstructionReceived(r, i), o)
         /\ Follows(r, InstructionUncertain(r, i), o)
         /\ \A live \in BOOLEAN :
              Follows(r, InstructionRecorded(r, i, live), o)
<1> DEFINE events == {InstructionConsumed(r, i), InstructionReceived(r, i),
                      InstructionUncertain(r, i)}
                       \union {InstructionRecorded(r, i, live) :
                                 live \in BOOLEAN}
<1>1. ASSUME NEW s \in events
      PROVE  /\ s.attempts = r.attempts /\ s.verifications = r.verifications
             /\ s.baselines = r.baselines /\ s.review = r.review
             /\ s.revision = r.revision /\ s.state = r.state
             /\ s.prepared = r.prepared /\ s.active = r.active
             /\ s.interrupted = r.interrupted /\ s.pending = r.pending
  BY DEF InstructionConsumed, InstructionReceived, InstructionUncertain,
         InstructionRecorded, Typed, Record
<1> HIDE DEF events
<1>2. \A s \in events : Follows(r, s, o)
  BY <1>1, StageFollows
<1> QED
  BY <1>2 DEF events

LEMMA InstructionEvidence ==
  ASSUME IInv, EvidenceInv, NEW t \in Tickets, NEW i \in Instructions,
         \/ ObserveConsumption(t, i) \/ QueueInstruction(t, i)
         \/ SendInstruction(t, i) \/ SendReceived(t, i)
         \/ SendUncertain(t, i)
  PROVE  EvidenceInv' /\ EvidenceStep
<1> DEFINE r == record[t]
           o == operations[t]
<1>1. /\ Typed(r) /\ Evidence(r, o) /\ TicketInv(r, o.kind, processes[t])
      /\ HandedInv(r, o, awaiting[t], handed[t])
      /\ handed[t] \in [Instructions -> Nat]
  BY EvidenceFacts
<1>2. CASE ObserveConsumption(t, i)
  <2>1. /\ Update(t, InstructionConsumed(r, i))
        /\ UNCHANGED <<operations, awaiting, handed>>
    BY <1>2 DEF ObserveConsumption, memory
  <2>2. Follows(r, InstructionConsumed(r, i), o)
    BY <1>1, InstructionFollows
  <2>3. HandedInv(InstructionConsumed(r, i), o, awaiting[t], handed[t])
    BY <1>1, AnsweredHands
  <2> QED
    BY <2>1, <2>2, <2>3, RecordEvidence
<1>3. CASE QueueInstruction(t, i)
  <2>1. /\ Update(t, InstructionRecorded(r, i, FALSE))
        /\ r.instructions[i].status = "absent"
        /\ UNCHANGED <<operations, awaiting, handed>>
    BY <1>3 DEF QueueInstruction, Instructable, memory
  <2>2. Follows(r, InstructionRecorded(r, i, FALSE), o)
    BY <1>1, InstructionFollows
  <2>3. o.kind # "run"
    BY <1>3, TicketFacts DEF QueueInstruction
  <2>4. HandedInv(InstructionRecorded(r, i, FALSE), o, awaiting[t],
                  handed[t])
    BY <1>1, <2>1, <2>3, RecordedHands
  <2> QED
    BY <2>1, <2>2, <2>4, RecordEvidence
<1>4. CASE SendInstruction(t, i)
  <2>1. /\ Update(t, InstructionRecorded(r, i, TRUE))
        /\ r.instructions[i].status = "absent"
        /\ r.state = "running" /\ CurrentAttempt(r).receipt
        /\ awaiting' = [awaiting EXCEPT ![t] = @ \union {i}]
        /\ handed' = [handed EXCEPT ![t][i] = @ + 1]
        /\ UNCHANGED operations
    BY <1>4 DEF SendInstruction, Instructable
  <2>2. Follows(r, InstructionRecorded(r, i, TRUE), o)
    BY <1>1, InstructionFollows
  <2>3. o.kind = "run"
    BY <1>1, <2>1 DEF TicketInv
  <2>4. o.stage = "runtime"
    BY <1>1, <2>1, <2>3 DEF Evidence, RunInv
  <2> DEFINE s == InstructionRecorded(r, i, TRUE)
             aw == awaiting[t] \union {i}
             h == [handed[t] EXCEPT ![i] = handed[t][i] + 1]
  <2>5. HandedInv(s, o, aw, h)
    BY <1>1, <2>1, <2>3, <2>4, RecordedHands
  <2>6. /\ record' = [record EXCEPT ![t] = s]
        /\ awaiting' = [awaiting EXCEPT ![t] = aw]
        /\ handed' = [handed EXCEPT ![t] = h]
        /\ operations' = [operations EXCEPT ![t] = o]
    BY <2>1 DEF Update, IInv, TypeOK
  <2> HIDE DEF s, aw, h
  <2> QED
    BY <2>2, <2>5, <2>6, OneTicketEvidence DEF s
<1>5. CASE SendReceived(t, i) \/ SendUncertain(t, i)
  <2>1. PICK s \in {InstructionReceived(r, i), InstructionUncertain(r, i)} :
          Update(t, s)
    BY <1>5 DEF SendReceived, SendUncertain
  <2>2. /\ i \in awaiting[t] /\ UNCHANGED <<operations, handed>>
        /\ awaiting' = [awaiting EXCEPT ![t] = awaiting[t] \ {i}]
    BY <1>5 DEF SendReceived, SendUncertain
  <2>3. Follows(r, s, o)
    BY <1>1, <2>1, InstructionFollows
  <2>4. HandedInv(s, o, awaiting[t] \ {i}, handed[t])
    BY <1>1, <2>1, <2>2, AnsweredHands
  <2>5. /\ operations' = [operations EXCEPT ![t] = o]
        /\ handed' = [handed EXCEPT ![t] = handed[t]]
    BY <2>2 DEF IInv, TypeOK
  <2> QED
    BY <2>1, <2>2, <2>3, <2>4, <2>5, OneTicketEvidence DEF Update
<1> QED
  BY <1>2, <1>3, <1>4, <1>5

\* The controller dies and fences; with records, what it had stored by then.
LEMMA RestartedEvidence ==
  ASSUME IInv, EvidenceInv, NEW records,
         \A t \in Tickets :
           LET r == records[t]
           IN /\ TicketInv(r, operations[t].kind, processes[t])
              /\ Follows(record[t], r, operations[t])
              /\ HandedInv(r, operations[t], awaiting[t], handed[t])
              /\ r = record[t] \/ ~Owned(r),
         Restarted(records)
  PROVE  EvidenceInv' /\ EvidenceStep
<1>1. ASSUME NEW t \in Tickets
      PROVE  /\ TicketEvidence(record'[t], operations'[t], awaiting'[t],
                               handed'[t])
             /\ Frozen(record[t], record'[t])
  <2> DEFINE r == records[t]
             o == operations[t]
  <2>1. /\ record'[t] = Fenced(r) /\ operations'[t] = NoOperation
        /\ awaiting'[t] = {} /\ handed'[t] = handed[t]
    BY DEF Restarted
  <2>2. /\ TicketInv(r, o.kind, processes[t]) /\ Evidence(r, o)
        /\ HandedInv(r, o, awaiting[t], handed[t]) /\ Typed(r)
        /\ Frozen(record[t], r)
    BY DEF Follows, TicketInv
  <2>3. o.kind \in {"none", "run", "verify", "recover"}
    BY EvidenceFacts
  <2>4. Evidence(Fenced(r), NoOperation) /\ Frozen(r, Fenced(r))
    BY <2>2, <2>3, FencedFollows DEF Follows
  <2>5. HandedInv(Fenced(r), NoOperation, {}, handed[t])
    BY <2>2, FencedHands
  <2>6. Frozen(record[t], Fenced(r))
    <3>1. CASE r = record[t]
      BY <2>4, <3>1
    <3>2. CASE ~Owned(r)
      BY <2>2, <3>2 DEF Fenced
    <3> QED
      BY <3>1, <3>2
  <2> QED
    BY <2>1, <2>4, <2>5, <2>6 DEF TicketEvidence
<1>2. EvidenceInv'
  BY <1>1, EvidencePrimed
<1> QED
  BY <1>1, <1>2 DEF EvidenceStep

LEMMA RestartEvidence ==
  ASSUME IInv, EvidenceInv, Restart
  PROVE  EvidenceInv' /\ EvidenceStep
<1>1. ASSUME NEW t \in Tickets
      PROVE  /\ TicketInv(record[t], operations[t].kind, processes[t])
             /\ Follows(record[t], record[t], operations[t])
             /\ HandedInv(record[t], operations[t], awaiting[t], handed[t])
  BY EvidenceFacts, SameFrozen DEF Follows, Frozen
<1> QED
  BY <1>1, RestartedEvidence DEF Restart

LEMMA RestartInPrepareEvidence ==
  ASSUME IInv, EvidenceInv, NEW t \in Tickets, RestartInPrepare(t)
  PROVE  EvidenceInv' /\ EvidenceStep
<1> DEFINE q == TicketReserved(record[t])
           records == [record EXCEPT ![t] = q]
<1>1. /\ Idle(t) /\ record[t].revision < MaxRevision
      /\ Restarted(records)
  BY DEF RestartInPrepare, CanReserve
<1>2. /\ TicketInv(record[t], "none", processes[t]) /\ ~Owned(record[t])
      /\ operations[t].kind = "none" /\ Typed(record[t])
      /\ Evidence(record[t], NoOperation)
      /\ \A s : Follows(record[t], s, NoOperation) =>
                  Follows(record[t], s, operations[t])
      /\ HandedInv(record[t], operations[t], awaiting[t], handed[t])
  BY <1>1, IdleFacts, EvidenceFacts
<1>3. TicketInv(q, "none", processes[t]) /\ ~Owned(q)
  BY <1>1, <1>2, ReservedKeeps
<1>4. Follows(record[t], q, operations[t])
  BY <1>2, PreparedFollows
<1>5. HandedInv(q, operations[t], awaiting[t], handed[t])
  <2>1. /\ q.instructions = record[t].instructions
        /\ LastAttempt(q) = LastAttempt(record[t])
    BY <1>2 DEF TicketReserved, Typed, Record, LastAttempt
  <2> HIDE DEF q
  <2> QED
    BY <1>2, <2>1, HandedKept DEF SameSide
<1> HIDE DEF q
<1>6. /\ records[t] = q
      /\ \A u \in Tickets \ {t} : records[u] = record[u]
  BY DEF IInv, TypeOK
<1> HIDE DEF records
<1>7. ASSUME NEW u \in Tickets
      PROVE  /\ TicketInv(records[u], operations[u].kind, processes[u])
             /\ Follows(record[u], records[u], operations[u])
             /\ HandedInv(records[u], operations[u], awaiting[u], handed[u])
             /\ records[u] = record[u] \/ ~Owned(records[u])
  <2>1. CASE u = t
    BY <1>2, <1>3, <1>4, <1>5, <1>6, <2>1
  <2>2. CASE u # t
    BY <1>6, <2>2, EvidenceFacts, SameFrozen DEF Follows, Frozen
  <2> QED
    BY <2>1, <2>2
<1> QED
  BY <1>1, <1>7, RestartedEvidence

-----------------------------------------------------------------------------
(***************************************************************************)
(* Part 5.  The theorems.                                                  *)
(***************************************************************************)
LEMMA EvidenceInit == Init => EvidenceInv
<1> SUFFICES ASSUME Init, NEW t \in Tickets
             PROVE  TicketEvidence(record[t], operations[t], awaiting[t],
                                   handed[t])
  BY DEF EvidenceInv
<1>1. /\ record[t] = NoRecord /\ operations[t] = NoOperation
      /\ awaiting[t] = {} /\ handed[t] = [i \in Instructions |-> 0]
  BY DEF Init
<1>2. HandedInv(NoRecord, NoOperation, {}, [i \in Instructions |-> 0])
  BY DEF HandedInv, NoRecord, NoInstruction, NoOperation, LastAttempt
<1> QED
  BY <1>1, <1>2, NoRecordEvidence DEF TicketEvidence

LEMMA EvidenceNext ==
  IInv /\ EvidenceInv /\ [Next]_vars => EvidenceInv' /\ EvidenceStep
<1> SUFFICES ASSUME IInv, EvidenceInv, [Next]_vars
             PROVE  EvidenceInv' /\ EvidenceStep
  OBVIOUS
<1>1. CASE UNCHANGED vars
  BY <1>1, SameEvidence DEF vars
<1>2. CASE Restart
  BY <1>2, RestartEvidence
<1>3. ASSUME NEW t \in Tickets, TicketStep(t)
      PROVE  EvidenceInv' /\ EvidenceStep
  <2>1. CASE \/ PrepareRevision(t) \/ PrepareRevisionBlocked(t)
             \/ PrepareAgain(t) \/ PrepareAgainBlocked(t) \/ Archive(t)
    BY <2>1, PrepareEvidence
  <2>2. CASE Run(t)
    BY <2>2, RunEvidence
  <2>3. CASE SetupPassed(t) \/ BaselineDone(t)
    BY <2>3, StageEvidence
  <2>4. CASE EnterRuntime(t)
    BY <2>4, EnterRuntimeEvidence
  <2>5. CASE ObserveReceipt(t)
    BY <2>5, ObserveEvidence
  <2>6. CASE Settle(t) \/ RunFails(t) \/ BlockOnSetup(t)
    BY <2>6, RunEndsEvidence
  <2>7. CASE Cancel(t)
    BY <2>7, AbortEvidence DEF Cancel
  <2>8. CASE Verify(t)
    BY <2>8, VerifyEvidence
  <2>9. CASE VerifySettles(t) \/ VerifyFails(t)
    BY <2>9, VerifyEndsEvidence
  <2>10. ASSUME NEW verdict \in Verdicts, RecordReview(t, verdict)
         PROVE  EvidenceInv' /\ EvidenceStep
    BY <2>10, ReviewEvidence
  <2>11. ASSUME NEW kind \in ContinuationKinds, Recover(t, kind)
         PROVE  EvidenceInv' /\ EvidenceStep
    BY <2>11, RecoverEvidence
  <2>12. CASE RecoverySettles(t) \/ RecoveryFails(t)
    BY <2>12, RecoverEndsEvidence
  <2>13. CASE EditWorktree(t) \/ ProcessesExit(t)
    BY <2>13, SameEvidence DEF EditWorktree, ProcessesExit, memory
  <2>14. CASE RestartInPrepare(t)
    BY <2>14, RestartInPrepareEvidence
  <2> QED
    BY <1>3, <2>1, <2>2, <2>3, <2>4, <2>5, <2>6, <2>7, <2>8, <2>9, <2>10,
       <2>11, <2>12, <2>13, <2>14 DEF TicketStep
<1>4. ASSUME NEW t \in Tickets, InstructionStep(t)
      PROVE  EvidenceInv' /\ EvidenceStep
  <2>1. ASSUME NEW named \in SUBSET Instructions, CancelIfUnconsumed(t, named)
        PROVE  EvidenceInv' /\ EvidenceStep
    BY <2>1, AbortEvidence DEF CancelIfUnconsumed
  <2>2. ASSUME NEW i \in Instructions,
               \/ ObserveConsumption(t, i) \/ QueueInstruction(t, i)
               \/ SendInstruction(t, i) \/ SendReceived(t, i)
               \/ SendUncertain(t, i)
        PROVE  EvidenceInv' /\ EvidenceStep
    BY <2>2, InstructionEvidence
  <2> QED
    BY <1>4, <2>1, <2>2 DEF InstructionStep
<1> QED
  BY <1>1, <1>2, <1>3, <1>4 DEF Next

\* What the invariant implies of every ticket.
LEMMA EvidenceImplies ==
  ASSUME IInv, EvidenceInv
  PROVE  /\ PromotedEvidence /\ AcceptedEvidence /\ ContinuationLineage
         /\ HandedOnce
<1>1. PromotedEvidence
  BY EvidenceFacts DEF PromotedEvidence, Evidence, Reviewable
<1>2. AcceptedEvidence
  <2> SUFFICES ASSUME NEW t \in Tickets, record[t].state = "accepted"
               PROVE  LET r == record[t]
                          verified ==
                            {v \in DOMAIN r.verifications :
                               /\ r.verifications[v].attempt = LastAttempt(r)
                               /\ r.verifications[v].revision = r.revision}
                      IN /\ r.review.verdict = "accept"
                         /\ r.review.revision = r.revision
                         /\ r.review.attempt = LastAttempt(r)
                         /\ CurrentAttempt(r).snapshot = r.review.snapshot
                         /\ verified # {}
                         /\ \A v \in verified :
                              \/ \E newer \in verified : newer > v
                              \/ /\ r.verifications[v].passed
                                 /\ r.verifications[v].cleanExit
                                 /\ r.verifications[v].before =
                                      r.review.snapshot
                                 /\ r.verifications[v].after =
                                      r.review.snapshot
    BY DEF AcceptedEvidence
  <2> DEFINE r == record[t]
             verified == ReviewedVerifications(r)
  <2>1. Accepted(r) /\ Typed(r)
    BY EvidenceFacts DEF Evidence
  <2>2. PICK n \in verified :
          /\ \A m \in verified : m <= n
          /\ r.verifications[n].passed /\ r.verifications[n].cleanExit
          /\ r.verifications[n].before = r.review.snapshot
          /\ r.verifications[n].after = r.review.snapshot
    BY <2>1 DEF Accepted, VerifiedUnchanged
  <2>3. verified \subseteq Nat
    BY <2>1 DEF ReviewedVerifications, Typed, Record
  <2>4. \A v \in verified : v = n \/ n > v
    BY <2>2, <2>3
  <2>5. \A v \in verified :
          \/ \E newer \in verified : newer > v
          \/ /\ r.verifications[v].passed /\ r.verifications[v].cleanExit
             /\ r.verifications[v].before = r.review.snapshot
             /\ r.verifications[v].after = r.review.snapshot
    BY <2>2, <2>4
  <2> QED
    BY <2>1, <2>2, <2>5 DEF Accepted, ReviewedVerifications
<1>3. ContinuationLineage
  BY EvidenceFacts DEF ContinuationLineage, Evidence, Descent, Descends
<1>4. HandedOnce
  BY EvidenceFacts DEF HandedOnce, HandedInv
<1> QED
  BY <1>1, <1>2, <1>3, <1>4

\* EvidenceInv is an invariant: it holds initially and every action of the
\* controller preserves it, given the ownership invariant.
THEOREM EvidenceInvariant == Spec => [](IInv /\ EvidenceInv)
<1>1. Init => IInv /\ EvidenceInv
  BY InitInv, EvidenceInit
<1>2. IInv /\ EvidenceInv /\ [Next]_vars => (IInv /\ EvidenceInv)'
  BY StepInv, EvidenceNext
<1> QED
  BY <1>1, <1>2, PTL DEF Spec

\* Whatever leads to awaiting_review, the delivery under review is complete,
\* clean, in scope and of the current revision.
THEOREM PromotedEvidenceTheorem == Spec => []PromotedEvidence
BY EvidenceInvariant, EvidenceImplies, PTL

\* An accepted ticket rests on the newest verification of what was accepted.
THEOREM AcceptedEvidenceTheorem == Spec => []AcceptedEvidence
BY EvidenceInvariant, EvidenceImplies, PTL

\* A continuation starts from the snapshot of the attempt it continues.
THEOREM ContinuationLineageTheorem == Spec => []ContinuationLineage
BY EvidenceInvariant, EvidenceImplies, PTL

\* An instruction's text reaches a runtime at most once.
THEOREM HandedOnceTheorem == Spec => []HandedOnce
BY EvidenceInvariant, EvidenceImplies, PTL

\* Evidence only changes while its attempt or verification owns the ticket.
THEOREM EvidenceFrozenTheorem == Spec => EvidenceFrozen
<1>1. IInv /\ EvidenceInv /\ [Next]_vars =>
        [\A t \in Tickets :
           /\ AttemptsFrozen(record[t], record'[t])
           /\ VerificationsFrozen(record[t], record'[t])
           /\ BaselinesFrozen(record[t], record'[t])]_vars
  BY EvidenceNext DEF EvidenceStep, Frozen
<1> QED
  BY <1>1, EvidenceInvariant, PTL DEF Spec, EvidenceFrozen
=============================================================================
