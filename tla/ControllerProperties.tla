------------------------ MODULE ControllerProperties ------------------------
(***************************************************************************)
(* What the ticket lifecycle guarantees.                                   *)
(***************************************************************************)
EXTENDS Controller

\* Every variable has its type: the durable record, the operation map, the
\* processes by marker and the instruction bookkeeping.
TypeOK ==
  /\ record \in [Tickets -> Record]
  /\ \A t \in Tickets : /\ LastAttempt(record[t]) <= MaxAttempts
                        /\ LastVerification(record[t]) <= MaxVerifications
  /\ worktree \in [Tickets -> Snapshots]
  /\ processes \in [Tickets -> SUBSET WriterOps]
  /\ operations \in [Tickets -> Operation]
  /\ awaiting \in [Tickets -> SUBSET Instructions]
  /\ handed \in [Tickets -> [Instructions -> Nat]]

-----------------------------------------------------------------------------
(***************************************************************************)
(* Ownership of the worktree.                                              *)
(***************************************************************************)
\* At most one operation has processes in a worktree, and while it has any
\* the ticket is owned: idle() refuses every new writer until cleanup is
\* proven, across crashes and failed recoveries.
SingleWriter ==
  \A t \in Tickets :
    /\ \A p, q \in processes[t] : p = q
    /\ processes[t] # {} => Owned(record[t])

\* An unowned ticket has no attempt or verification left without a proven
\* clean exit, and processes only belong to operations without that proof:
\* discover() over the unclean ones misses nobody.
CleanWhenFree ==
  \A t \in Tickets :
    /\ ~Owned(record[t]) => UncleanOps(record[t]) = {}
    /\ processes[t] \subseteq UncleanOps(record[t])

\* Live and fenced tickets together never exceed the capacity, although
\* recovery of an owned ticket is admitted without a slot.
CapacityRespected ==
  Cardinality({t \in Tickets : Live(t) \/ Owned(record[t])}) <= Capacity

\* A ticket says "running" exactly while this process runs its current
\* attempt; a crash, a failure or a settlement never leaves it behind.
RunningIsLive ==
  \A t \in Tickets :
    record[t].state = "running" <=>
      /\ operations[t].kind = "run"
      /\ record[t].active = AttemptOp(LastAttempt(record[t]))

\* Whoever holds a slot without a live operation can be recovered: recover()
\* accepts an explicit restart of it, so no ticket keeps its slot forever.
FencedIsRecoverable ==
  \A t \in Tickets :
    Owned(record[t]) /\ ~Live(t) =>
      /\ LastAttempt(record[t]) > 0
      /\ \/ record[t].state \in {"blocked", "interrupted"}
         \/ record[t].state = "ready" /\ record[t].pending.kind = "delivery"

-----------------------------------------------------------------------------
(***************************************************************************)
(* Evidence.                                                               *)
(***************************************************************************)
\* Whatever path leads to awaiting_review (a settled run, a verification, a
\* recovered verification), the current attempt of the current revision was
\* received, completed, cleanly ended in scope and delivered "submitted"
\* without blockers; a delivery-only attempt kept its frozen source.
PromotedEvidence ==
  \A t \in Tickets :
    LET r == record[t]
        a == CurrentAttempt(r)
    IN r.state = "awaiting_review" =>
         /\ LastAttempt(r) > 0
         /\ a.revision = r.revision
         /\ a.receipt /\ a.completed /\ a.cleanExit
         /\ a.snapshot \in Snapshots \ OutOfScope
         /\ a.delivery = "submitted"
         /\ a.mode = "delivery" => a.snapshot = a.from

\* An accepted ticket was accepted at its current revision and attempt for
\* the delivered snapshot, and the newest verification of that attempt and
\* revision passed on it without changing it.
AcceptedEvidence ==
  \A t \in Tickets :
    LET r == record[t]
        verified == {v \in DOMAIN r.verifications :
                       /\ r.verifications[v].attempt = LastAttempt(r)
                       /\ r.verifications[v].revision = r.revision}
    IN r.state = "accepted" =>
         /\ r.review.verdict = "accept"
         /\ r.review.revision = r.revision
         /\ r.review.attempt = LastAttempt(r)
         /\ CurrentAttempt(r).snapshot = r.review.snapshot
         /\ verified # {}
         /\ \A v \in verified :
              \/ \E newer \in verified : newer > v
              \/ /\ r.verifications[v].passed /\ r.verifications[v].cleanExit
                 /\ r.verifications[v].before = r.review.snapshot
                 /\ r.verifications[v].after = r.review.snapshot

\* A resumed or delivery-only attempt continues the attempt before it, of
\* the same revision, from that attempt's own snapshot; a resumed one
\* answers a clean blocked delivery, a delivery-only one repairs a received
\* attempt without a valid delivery.
ContinuationLineage ==
  \A t \in Tickets : \A n \in DOMAIN record[t].attempts :
    LET a == record[t].attempts[n]
        prior == record[t].attempts[n - 1]
    IN a.mode # "fresh" =>
         /\ n > 1
         /\ prior.revision = a.revision
         /\ prior.snapshot = a.from
         /\ prior.receipt /\ prior.cleanExit
         /\ IF a.mode = "answer"
            THEN prior.completed /\ prior.delivery = "blocked"
            ELSE prior.delivery = "none" /\ prior.snapshot \notin OutOfScope

\* Evidence of an attempt or a verification changes only while it owns the
\* ticket; afterwards the proof of a clean exit is all that is added, and
\* nothing is dropped from the history.
AttemptsFrozen(r, s) ==
  \A n \in DOMAIN r.attempts :
    r.active # AttemptOp(n) =>
      /\ n \in DOMAIN s.attempts
      /\ s.attempts[n] \in
           {r.attempts[n], [r.attempts[n] EXCEPT !.cleanExit = TRUE]}
VerificationsFrozen(r, s) ==
  \A n \in DOMAIN r.verifications :
    r.active # VerificationOp(n) =>
      /\ n \in DOMAIN s.verifications
      /\ s.verifications[n] \in
           {r.verifications[n], [r.verifications[n] EXCEPT !.cleanExit = TRUE]}
\* A revision has one baseline: the attempt that reserved it keeps it, only
\* that attempt can complete it, and a completed one never changes.
BaselinesFrozen(r, s) ==
  \A v \in Revisions :
    LET b == r.baselines[v]
        c == s.baselines[v]
    IN b # c =>
         /\ b.status # "comparable"
         /\ b.status = "reserved" => c.attempt = b.attempt
         /\ v = r.revision /\ r.active = AttemptOp(c.attempt)

\* Evidence never changes behind its owner, whatever crashes, fails, comes late
\* or is done again: neither attempts, nor verifications, nor baselines.
EvidenceFrozen ==
  [][\A t \in Tickets :
       /\ AttemptsFrozen(record[t], record'[t])
       /\ VerificationsFrozen(record[t], record'[t])
       /\ BaselinesFrozen(record[t], record'[t])]_vars

-----------------------------------------------------------------------------
(***************************************************************************)
(* Instructions.                                                           *)
(***************************************************************************)
\* An instruction's text reaches a runtime at most once, never while it is
\* queued for a later attempt, and only what reached one counts as received.
HandedOnce ==
  \A t \in Tickets, i \in Instructions :
    LET status == record[t].instructions[i].status
    IN /\ handed[t][i] <= 1
       /\ status = "queued" => handed[t][i] = 0
       /\ status = "received" => handed[t][i] = 1

\* skill/SKILL.md: "sending" means awaiting a receipt.  Then somebody must
\* still be able to deliver it: the ticket is owned.
SendingAwaitsReceipt ==
  \A t \in Tickets, i \in Instructions :
    record[t].instructions[i].status = "sending" => Owned(record[t])

-----------------------------------------------------------------------------
(***************************************************************************)
(* The controller implements the abstract worktree lease.                  *)
(***************************************************************************)
LeaseOf(t) ==
  IF operations[t].kind \in {"run", "verify"} THEN "live"
  ELSE IF operations[t].kind = "recover" THEN "recovering"
  ELSE IF Owned(record[t]) THEN "fenced" ELSE "free"

Lease == INSTANCE WorktreeLease
           WITH lease <- [t \in Tickets |-> LeaseOf(t)],
                occupied <- [t \in Tickets |-> processes[t] # {}]

\* Every step of the controller is a step of WorktreeLease or changes
\* neither a lease nor the occupancy of a worktree.
ImplementsLease == Lease!Spec
-----------------------------------------------------------------------------
(***************************************************************************)
(* What the review coordinator may assume about tickets.                   *)
(***************************************************************************)
ViewState(r) ==
  CASE r.state \in {"ready", "changes_requested"} ->
         IF r.prepared THEN "ready" ELSE "stopped"
    [] r.state \in {"blocked", "interrupted"} -> "stopped"
    [] OTHER -> r.state

ViewOf(t) ==
  LET r == record[t]
  IN [state |-> ViewState(r),
      owner |-> [kind |-> r.active.kind, run |-> 0],
      live |-> Live(t),
      interrupted |-> r.interrupted, revision |-> r.revision,
      attempt |-> LastAttempt(r),
      unchanged |-> /\ LastAttempt(r) > 0
                    /\ CurrentAttempt(r).snapshot = worktree[t]]

View == INSTANCE TicketView
          WITH ticket <- [t \in Tickets |-> ViewOf(t)]

\* Every step of the controller is a step of TicketView, on which the review
\* coordinator is modelled: what the coordinator reads of a ticket never
\* changes in a way that model does not allow.
ImplementsTicketView == View!TicketSpec
=============================================================================
