------------------------- MODULE ControllerViewProofs -------------------------
(***************************************************************************)
(* Machine-checked proof that the controller implements TicketView, the    *)
(* abstraction of its tickets on which the review coordinator is modelled. *)
(* What the coordinator reads of a ticket depends on its record, the kind  *)
(* of its operation and the digest of its worktree.  Part 2 shows what     *)
(* each transaction does to that view, part 3 that each action then is one *)
(* of TicketView or leaves every view alone; the invariants of modules     *)
(* ControllerProofs and ControllerEvidenceProofs say what a transaction    *)
(* finds.                                                                  *)
(***************************************************************************)
EXTENDS ControllerEvidenceProofs

(***************************************************************************)
(* Part 1.  Views.                                                         *)
(***************************************************************************)
\* The delivered snapshot is what the worktree holds.
Unmoved(r, digest) ==
  LastAttempt(r) > 0 /\ CurrentAttempt(r).snapshot = digest

OwnerView(r) == View!By(r.active.kind)

\* The view of a record with an operation of that kind, on that content.
ViewValue(r, kind, digest) ==
  [state |-> ViewState(r), owner |-> OwnerView(r), live |-> kind # "none",
   interrupted |-> r.interrupted, revision |-> r.revision,
   attempt |-> LastAttempt(r), unchanged |-> Unmoved(r, digest)]

Views == [t \in Tickets |-> ViewOf(t)]
ViewStep == [View!TicketNext]_Views

LEMMA ViewValues ==
  ASSUME NEW t \in Tickets
  PROVE  /\ Views[t] = ViewValue(record[t], operations[t].kind, worktree[t])
         /\ Views'[t] =
              ViewValue(record'[t], operations'[t].kind, worktree'[t])
<1>1. Views[t] = ViewValue(record[t], operations[t].kind, worktree[t])
  BY DEF Views, ViewOf, ViewValue, OwnerView, View!By, Unmoved, Live
<1>2. Views'[t] = ViewValue(record'[t], operations'[t].kind, worktree'[t])
  BY DEF Views, ViewOf, ViewValue, OwnerView, View!By, Unmoved, Live,
         ViewState, LastAttempt, CurrentAttempt
<1> QED
  BY <1>1, <1>2

\* A step of one ticket changes the view of no other.
LEMMA OneViewChanges ==
  ASSUME NEW t \in Tickets,
         \A u \in Tickets \ {t} : /\ record'[u] = record[u]
                                  /\ operations'[u] = operations[u]
                                  /\ worktree'[u] = worktree[u]
  PROVE  Views' = [Views EXCEPT ![t] = Views'[t]]
<1>1. \A u \in Tickets \ {t} : Views'[u] = Views[u]
  BY ViewValues
<1>2. /\ Views = [u \in Tickets |-> Views[u]]
      /\ Views' = [u \in Tickets |-> Views'[u]]
  BY DEF Views
<1> QED
  BY <1>1, <1>2

\* A step that changes no view.
LEMMA SameViews ==
  ASSUME \A t \in Tickets : Views'[t] = Views[t]
  PROVE  ViewStep
<1>1. /\ Views = [u \in Tickets |-> Views[u]]
      /\ Views' = [u \in Tickets |-> Views'[u]]
  BY DEF Views
<1>2. Views' = Views
  BY <1>1
<1> QED
  BY <1>2 DEF ViewStep

\* A ticket has an owner exactly when the kind of its owner says so.
LEMMA OwnerKinds ==
  ASSUME NEW r, Typed(r)
  PROVE  Owned(r) <=> r.active.kind # "none"
BY DEF Owned, Typed, Record, Owners, WriterOps, AttemptOp, VerificationOp,
       Recovery, Uncertain, Nobody, Owner

LEMMA ViewStates ==
  ASSUME NEW r
  PROVE  /\ r.state \in {"ready", "changes_requested"} =>
              ViewState(r) = IF r.prepared THEN "ready" ELSE "stopped"
         /\ r.state \in {"blocked", "interrupted"} => ViewState(r) = "stopped"
         /\ r.state \in {"absent", "running", "awaiting_review", "accepted"}
              => ViewState(r) = r.state
BY DEF ViewState

\* The tickets that count against the capacity are the busy ones.
LEMMA BusyIsActive ==
  ASSUME IInv
  PROVE  View!HasCapacity <=> HasCapacity
<1>1. \A t \in Tickets :
        Owned(record[t]) <=>
          [kind |-> record[t].active.kind, run |-> 0] # View!Nobody
  BY TicketFacts, OwnerKinds DEF View!Nobody, View!By
<1>2. View!Busy = ActiveTickets
  BY <1>1 DEF View!Busy, View!Owned, ActiveTickets, ViewOf
<1>3. View!Cardinality(View!Busy) = Cardinality(View!Busy)
  BY DEF View!Cardinality, Cardinality
<1> QED
  BY <1>2, <1>3 DEF View!HasCapacity, HasCapacity

-----------------------------------------------------------------------------
(***************************************************************************)
(* Part 2.  The actions of TicketView on one ticket, with their guards     *)
(* read off the record; w is the view after the action.                    *)
(***************************************************************************)
Reserves(t, w) ==
  /\ ~Owned(record[t]) /\ record[t].revision < MaxRevision
  /\ \E state \in {"ready", "stopped"} : w = View!Reserved(ViewOf(t), state)

PreparesAgain(t, w) ==
  /\ ~Owned(record[t]) /\ record[t].revision > 0
  /\ \/ w = [ViewOf(t) EXCEPT !.state = "stopped"]
     \/ /\ ViewState(record[t]) = "stopped"
        /\ w = [ViewOf(t) EXCEPT !.state = "ready"]

Runs(t, w) ==
  /\ HasCapacity /\ ~Owned(record[t]) /\ ViewState(record[t]) = "ready"
  /\ LastAttempt(record[t]) < MaxAttempts
  /\ w = View!RunStarted(ViewOf(t))

RunEnds(t, w) ==
  /\ Live(t) /\ record[t].active.kind = "attempt"
  /\ \/ w = [View!Released(ViewOf(t), TRUE) EXCEPT
               !.state = "awaiting_review", !.unchanged = TRUE]
     \/ \E clean, unchanged \in BOOLEAN :
          w = [View!Released(ViewOf(t), clean) EXCEPT
                 !.state = "stopped", !.unchanged = unchanged]

Verifies(t, w) ==
  /\ HasCapacity /\ ~Owned(record[t])
  /\ record[t].state = "awaiting_review" /\ Unmoved(record[t], worktree[t])
  /\ w = View!VerifyStarted(ViewOf(t))

VerifyEnds(t, w) ==
  /\ Live(t) /\ record[t].active.kind = "verification"
  /\ \/ w = [View!Released(ViewOf(t), TRUE) EXCEPT
               !.state = IF Unmoved(record[t], worktree[t]) THEN @
                                                            ELSE "stopped"]
     \/ w = [View!Released(ViewOf(t), FALSE) EXCEPT
               !.state = "stopped", !.interrupted = "verification"]

Decides(t, w) ==
  /\ ~Owned(record[t])
  /\ record[t].state = "awaiting_review" /\ Unmoved(record[t], worktree[t])
  /\ \E verdict \in Verdicts :
       w = [ViewOf(t) EXCEPT !.state = View!Decided(verdict)]

Recovers(t, w) ==
  /\ ~Live(t) /\ ViewState(record[t]) \in {"stopped", "ready"}
  /\ LastAttempt(record[t]) > 0
  /\ Owned(record[t]) \/ HasCapacity
  /\ w = [ViewOf(t) EXCEPT !.owner = View!By("recovery"), !.live = TRUE]

RecoverEnds(t, w) ==
  /\ Live(t) /\ record[t].active.kind = "recovery"
  /\ \/ \E state \in {"ready", "stopped"} :
          w = [View!Released(ViewOf(t), TRUE) EXCEPT
                 !.state = state, !.interrupted = "none"]
     \/ /\ record[t].interrupted = "verification"
        /\ Unmoved(record[t], worktree[t])
        /\ w = [View!Released(ViewOf(t), TRUE) EXCEPT
                  !.state = "awaiting_review", !.interrupted = "none"]
     \/ w = [ViewOf(t) EXCEPT !.owner = View!By("uncertain"), !.live = FALSE]

Edits(t, w) ==
  /\ LastAttempt(record[t]) > 0 /\ record[t].state # "running"
  /\ \E unchanged \in BOOLEAN : w = [ViewOf(t) EXCEPT !.unchanged = unchanged]

LegalView(t, w) ==
  \/ Reserves(t, w) \/ PreparesAgain(t, w) \/ Runs(t, w) \/ RunEnds(t, w)
  \/ Verifies(t, w) \/ VerifyEnds(t, w) \/ Decides(t, w)
  \/ Recovers(t, w) \/ RecoverEnds(t, w) \/ Edits(t, w)
  \/ w = ViewOf(t)

LEMMA LegalViews ==
  ASSUME IInv, NEW t \in Tickets, NEW w,
         Views' = [Views EXCEPT ![t] = w], LegalView(t, w)
  PROVE  ViewStep
<1> DEFINE r == record[t]
           v == ViewOf(t)
<1>1. /\ View!Owned(t) <=> Owned(r)
      /\ \A kind : View!LiveAs(t, kind) <=> Live(t) /\ r.active.kind = kind
  <2>1. Owned(r) <=> [kind |-> r.active.kind, run |-> 0] # View!Nobody
    BY TicketFacts, OwnerKinds DEF View!Nobody, View!By
  <2> QED
    BY <2>1 DEF View!Owned, View!LiveAs, ViewOf
<1>2. View!HasCapacity <=> HasCapacity
  BY BusyIsActive
<1>3. \A x : w = x => View!Set(t, x)
  BY DEF View!Set, Views
<1>4. /\ v.state = ViewState(r) /\ v.interrupted = r.interrupted
       /\ v.revision = r.revision /\ v.attempt = LastAttempt(r)
  BY DEF ViewOf
<1>5. v.live <=> Live(t)
  BY DEF ViewOf
<1>6. v.unchanged <=> Unmoved(r, worktree[t])
  BY DEF ViewOf, Unmoved
<1>7. CASE Reserves(t, w)
  <2>1. View!PrepareTicket(t)
    BY <1>1, <1>3, <1>4, <1>5, <1>6, <1>7 DEF Reserves, View!PrepareTicket
  <2> QED
    BY <2>1 DEF ViewStep, View!TicketNext
<1>8. CASE PreparesAgain(t, w)
  <2>1. View!PrepareTicketAgain(t)
    BY <1>1, <1>3, <1>4, <1>5, <1>6, <1>8
       DEF PreparesAgain, View!PrepareTicketAgain
  <2> QED
    BY <2>1 DEF ViewStep, View!TicketNext
<1>9. CASE Runs(t, w)
  <2>1. View!RunTicket(t)
    BY <1>1, <1>2, <1>3, <1>4, <1>5, <1>6, <1>9
       DEF Runs, View!RunTicket, View!CanRun
  <2> QED
    BY <2>1 DEF ViewStep, View!TicketNext
<1>10. CASE RunEnds(t, w)
  <2>1. View!RunTicketEnds(t)
    BY <1>1, <1>3, <1>4, <1>5, <1>6, <1>10 DEF RunEnds, View!RunTicketEnds
  <2> QED
    BY <2>1 DEF ViewStep, View!TicketNext
<1>11. CASE Verifies(t, w)
  <2>1. View!VerifyTicket(t)
    BY <1>1, <1>2, <1>3, <1>4, <1>5, <1>6, <1>11, ViewStates
       DEF Verifies, View!VerifyTicket, View!CanVerify
  <2> QED
    BY <2>1 DEF ViewStep, View!TicketNext
<1>12. CASE VerifyEnds(t, w)
  <2>1. View!VerifyTicketEnds(t)
    BY <1>1, <1>3, <1>4, <1>5, <1>6, <1>12
       DEF VerifyEnds, View!VerifyTicketEnds
  <2> QED
    BY <2>1 DEF ViewStep, View!TicketNext
<1>13. CASE Decides(t, w)
  <2>1. \E verdict \in Verdicts : View!DecideTicket(t, verdict)
    BY <1>1, <1>3, <1>4, <1>5, <1>6, <1>13, ViewStates
       DEF Decides, View!DecideTicket
  <2> QED
    BY <2>1 DEF ViewStep, View!TicketNext, Verdicts
<1>14. CASE Recovers(t, w)
  <2>1. View!RecoverTicket(t)
    BY <1>1, <1>2, <1>3, <1>4, <1>5, <1>6, <1>14
       DEF Recovers, View!RecoverTicket
  <2> QED
    BY <2>1 DEF ViewStep, View!TicketNext
<1>15. CASE RecoverEnds(t, w)
  <2>1. View!RecoverTicketEnds(t)
    BY <1>1, <1>3, <1>4, <1>5, <1>6, <1>15
       DEF RecoverEnds, View!RecoverTicketEnds
  <2> QED
    BY <2>1 DEF ViewStep, View!TicketNext
<1>16. CASE Edits(t, w)
  <2>1. View!EditTicket(t)
    <3>1. r.state \in TicketStates /\ r.state # "running"
      BY <1>16, TicketFacts DEF Typed, Record, Edits
    <3>2. ViewState(r) # "running"
      BY <3>1 DEF ViewState, TicketStates
    <3> QED
      BY <1>3, <1>4, <1>16, <3>2 DEF Edits, View!EditTicket
  <2> QED
    BY <2>1 DEF ViewStep, View!TicketNext
<1>17. CASE w = v
  BY <1>17 DEF ViewStep, Views
<1> QED
  BY <1>7, <1>8, <1>9, <1>10, <1>11, <1>12, <1>13, <1>14, <1>15, <1>16, <1>17
     DEF LegalView

\* An action that replaces the record and the operation of a ticket.
LEMMA TicketView ==
  ASSUME IInv, NEW t \in Tickets, NEW s, NEW q,
         Update(t, s), operations' = [operations EXCEPT ![t] = q],
         UNCHANGED worktree,
         LegalView(t, ViewValue(s, q.kind, worktree[t]))
  PROVE  ViewStep
<1>1. /\ record'[t] = s /\ operations'[t] = q /\ worktree'[t] = worktree[t]
      /\ \A u \in Tickets \ {t} : /\ record'[u] = record[u]
                                  /\ operations'[u] = operations[u]
                                  /\ worktree'[u] = worktree[u]
  BY DEF IInv, TypeOK, Update
<1>2. Views' = [Views EXCEPT ![t] = ViewValue(s, q.kind, worktree[t])]
  <2>1. Views'[t] = ViewValue(s, q.kind, worktree[t])
    BY <1>1, ViewValues
  <2>2. Views' = [Views EXCEPT ![t] = Views'[t]]
    BY <1>1, OneViewChanges
  <2> QED
    BY <2>1, <2>2
<1> QED
  BY <1>2, LegalViews

\* ... that only replaces the record.
LEMMA RecordView ==
  ASSUME IInv, NEW t \in Tickets, NEW s,
         Update(t, s), UNCHANGED <<operations, worktree>>,
         LegalView(t, ViewValue(s, operations[t].kind, worktree[t]))
  PROVE  ViewStep
<1>1. operations' = [operations EXCEPT ![t] = operations[t]]
  BY DEF IInv, TypeOK
<1> QED
  BY <1>1, TicketView

\* ... that ends the operation.
LEMMA FinishView ==
  ASSUME IInv, NEW t \in Tickets, NEW s,
         Update(t, s), Finish(t), UNCHANGED worktree,
         LegalView(t, ViewValue(s, "none", worktree[t]))
  PROVE  ViewStep
<1>1. NoOperation.kind = "none"
  BY DEF NoOperation
<1> QED
  BY <1>1, TicketView DEF Finish

\* What a view looks at of the attempts.
LEMMA SameAttempts ==
  ASSUME NEW r, NEW s, s.attempts = r.attempts
  PROVE  /\ LastAttempt(s) = LastAttempt(r)
         /\ \A digest : Unmoved(s, digest) <=> Unmoved(r, digest)
BY DEF LastAttempt, CurrentAttempt, Unmoved

LEMMA CurrentReplaced ==
  ASSUME NEW r, Typed(r), LastAttempt(r) > 0, NEW a, NEW s,
         s.attempts = [r.attempts EXCEPT ![LastAttempt(r)] = a]
  PROVE  /\ LastAttempt(s) = LastAttempt(r)
         /\ \A digest : Unmoved(s, digest) <=> a.snapshot = digest
<1>1. /\ LastAttempt(r) \in DOMAIN r.attempts /\ r.attempts \in Seq(Attempt)
      /\ LastAttempt(r) = Len(r.attempts)
  BY CurrentTyped DEF Typed, Record, LastAttempt
<1>2. Len(s.attempts) = Len(r.attempts) /\ s.attempts[LastAttempt(r)] = a
  BY <1>1
<1> QED
  BY <1>1, <1>2 DEF LastAttempt, CurrentAttempt, Unmoved

\* A transaction the view does not show.
LEMMA SameViewValue ==
  ASSUME NEW r, NEW s, s.state = r.state, s.prepared = r.prepared,
         s.active = r.active, s.interrupted = r.interrupted,
         s.revision = r.revision, LastAttempt(s) = LastAttempt(r),
         \A digest : Unmoved(s, digest) <=> Unmoved(r, digest),
         NEW kind, NEW digest
  PROVE  ViewValue(s, kind, digest) = ViewValue(r, kind, digest)
<1> DEFINE w == ViewValue(s, kind, digest)
           v == ViewValue(r, kind, digest)
<1>1. ViewState(s) = ViewState(r) /\ OwnerView(s) = OwnerView(r)
  BY DEF ViewState, OwnerView
<1>2. w = ViewValue(s, kind, digest) /\ v = ViewValue(r, kind, digest)
  OBVIOUS
<1> HIDE DEF v, w
<1>3. w = v
  BY <1>1, <1>2 DEF ViewValue, Unmoved
<1> QED
  BY <1>2, <1>3

LEMMA ViewNow ==
  ASSUME NEW t
  PROVE  ViewOf(t) = ViewValue(record[t], operations[t].kind, worktree[t])
BY DEF ViewOf, ViewValue, OwnerView, View!By, Unmoved, Live

\* The view of a reserved record is the reserved view.
LEMMA ReservedView ==
  ASSUME NEW r, NEW s, NEW k, NEW d, NEW v, NEW w, NEW x, NEW state,
         v = ViewValue(r, k, d), w = ViewValue(s, k, d),
         x = View!Reserved(v, state), ViewState(s) = state,
         OwnerView(s) = OwnerView(r), s.interrupted = "none",
         s.revision = r.revision + 1, LastAttempt(s) = LastAttempt(r),
         Unmoved(s, d) <=> Unmoved(r, d)
  PROVE  w = x
BY DEF ViewValue, Unmoved, View!Reserved

-----------------------------------------------------------------------------
(***************************************************************************)
(* Part 3.  The actions.                                                   *)
(***************************************************************************)
LEMMA PrepareView ==
  ASSUME IInv, EvidenceInv, NEW t \in Tickets,
         \/ PrepareRevision(t) \/ PrepareRevisionBlocked(t)
         \/ PrepareAgain(t) \/ PrepareAgainBlocked(t) \/ Archive(t)
  PROVE  ViewStep
<1> DEFINE r == record[t]
           k == operations[t].kind
           d == worktree[t]
           v == ViewOf(t)
<1>1. /\ Idle(t) /\ UNCHANGED <<operations, worktree>>
  BY DEF PrepareRevision, PrepareRevisionBlocked, PrepareAgain,
         PrepareAgainBlocked, Archive, CanReserve, memory
<1>2. Typed(r) /\ ~Owned(r) /\ PreparedInv(r)
  BY <1>1, IdleFacts DEF TicketInv, Evidence
<1>3. v = ViewValue(r, k, d)
  BY ViewNow
<1>4. ASSUME NEW s \in {TicketPrepared(TicketReserved(r)),
                        TicketBlocked(TicketReserved(r))},
             Update(t, s), r.revision < MaxRevision
      PROVE  ViewStep
  <2> DEFINE w == ViewValue(s, k, d)
             x == View!Reserved(v, ViewState(s))
  <2>1. /\ s.state \in {"ready", "blocked"}
        /\ s.state = "ready" => s.prepared
        /\ s.active = r.active /\ s.interrupted = "none"
        /\ s.revision = r.revision + 1 /\ s.attempts = r.attempts
    BY <1>2, <1>4
       DEF TicketPrepared, TicketBlocked, TicketReserved, Typed, Record
  <2>2. ViewState(s) \in {"ready", "stopped"}
    BY <2>1, ViewStates
  <2>3. OwnerView(s) = OwnerView(r)
    BY <2>1 DEF OwnerView
  <2>4. w = ViewValue(s, k, d) /\ x = View!Reserved(v, ViewState(s))
    OBVIOUS
  <2> HIDE DEF v, w, x
  <2>5. w = x
    <3>1. /\ LastAttempt(s) = LastAttempt(r)
          /\ Unmoved(s, d) <=> Unmoved(r, d)
      BY <2>1, SameAttempts
    <3> HIDE DEF r, d
    <3> QED
      BY <1>3, <2>1, <2>3, <2>4, <3>1, ReservedView
  <2>6. Reserves(t, w)
    BY <1>2, <1>4, <2>2, <2>4, <2>5 DEF Reserves, v
  <2> QED
    BY <1>1, <1>4, <2>4, <2>6, RecordView DEF LegalView
<1>5. ASSUME NEW s \in {TicketPrepared(r), TicketBlocked(r)}, Update(t, s),
             r.revision > 0, s = TicketPrepared(r) => ~r.prepared
      PROVE  ViewStep
  <2> DEFINE w == ViewValue(s, k, d)
             x == [v EXCEPT !.state = ViewState(s)]
  <2>1. /\ s.state \in {"ready", "blocked"}
        /\ s.state = "ready" => s.prepared /\ ~r.prepared
        /\ s.active = r.active /\ s.interrupted = r.interrupted
        /\ s.revision = r.revision /\ s.attempts = r.attempts
    BY <1>2, <1>5 DEF TicketPrepared, TicketBlocked, Typed, Record
  <2>2. OwnerView(s) = OwnerView(r)
    BY <2>1 DEF OwnerView
  <2>3. \/ ViewState(s) = "stopped"
        \/ ViewState(s) = "ready" /\ ViewState(r) = "stopped"
    BY <1>2, <1>5, <2>1, ViewStates DEF PreparedInv
  <2>4. w = ViewValue(s, k, d) /\ x = [v EXCEPT !.state = ViewState(s)]
    OBVIOUS
  <2> HIDE DEF v, w, x
  <2>5. w = x
    BY <1>3, <2>1, <2>2, <2>4, SameAttempts DEF ViewValue, Unmoved
  <2>6. PreparesAgain(t, w)
    BY <1>2, <1>5, <2>3, <2>4, <2>5 DEF PreparesAgain, v
  <2> QED
    BY <1>1, <1>5, <2>4, <2>6, RecordView DEF LegalView
<1>6. CASE Archive(t)
  <2> DEFINE s == [r EXCEPT !.archived = ~@]
  <2>1. /\ s.state = r.state /\ s.prepared = r.prepared
        /\ s.active = r.active /\ s.interrupted = r.interrupted
        /\ s.revision = r.revision /\ s.attempts = r.attempts
    BY <1>2 DEF Typed, Record
  <2>2. Update(t, s)
    BY <1>6 DEF Archive
  <2> HIDE DEF s
  <2>3. ViewValue(s, k, d) = v
    BY <1>3, <2>1, SameAttempts, SameViewValue
  <2> QED
    BY <1>1, <2>2, <2>3, RecordView DEF LegalView
<1>7. CASE PrepareRevision(t) \/ PrepareRevisionBlocked(t)
  BY <1>4, <1>7 DEF PrepareRevision, PrepareRevisionBlocked, CanReserve
<1>8. CASE PrepareAgain(t)
  BY <1>5, <1>8 DEF PrepareAgain
<1>9. CASE PrepareAgainBlocked(t)
  <2>1. TicketBlocked(r).state # TicketPrepared(r).state
    BY <1>2 DEF TicketBlocked, TicketPrepared, Typed, Record
  <2> QED
    BY <1>5, <1>9, <2>1 DEF PrepareAgainBlocked
<1> QED
  BY <1>6, <1>7, <1>8, <1>9

LEMMA RunView ==
  ASSUME IInv, EvidenceInv, NEW t \in Tickets, Run(t)
  PROVE  ViewStep
<1> DEFINE r == record[t]
           s == AttemptStarted(r)
           q == RunOperation(Queued(r))
           d == worktree[t]
           v == ViewOf(t)
           w == ViewValue(s, "run", d)
           x == View!RunStarted(v)
<1>1. /\ HasCapacity /\ Idle(t) /\ r.prepared
      /\ r.state \in {"ready", "changes_requested"}
      /\ LastAttempt(r) < MaxAttempts /\ Update(t, s)
      /\ operations' = [operations EXCEPT ![t] = q]
      /\ UNCHANGED worktree
  BY DEF Run
<1>2. /\ Typed(r) /\ ~Owned(r) /\ operations[t].kind = "none"
      /\ d \in Snapshots
  BY <1>1, IdleFacts, EvidenceFacts
<1>3. /\ s.state = "running" /\ s.interrupted = r.interrupted
      /\ s.active = AttemptOp(LastAttempt(r) + 1)
      /\ s.revision = r.revision
      /\ q.kind = "run"
  BY <1>2 DEF AttemptStarted, RunOperation, NoOperation, Typed, Record
<1>4. /\ LastAttempt(s) = LastAttempt(r) + 1
      /\ CurrentAttempt(s).snapshot = NoSnapshot
  <2> DEFINE a == [revision |-> r.revision,
                   mode |-> IF r.pending.kind = "none" THEN "fresh"
                                                       ELSE r.pending.kind,
                   from |-> r.pending.snapshot, receipt |-> FALSE,
                   completed |-> FALSE, cleanExit |-> FALSE,
                   snapshot |-> NoSnapshot, delivery |-> "none"]
  <2>1. s.attempts = Append(r.attempts, a)
    BY <1>2 DEF AttemptStarted, Typed, Record
  <2>2. a.snapshot = NoSnapshot
    OBVIOUS
  <2> HIDE DEF a, s
  <2> QED
    BY <1>2, <2>1, <2>2 DEF LastAttempt, CurrentAttempt, Typed, Record
<1>5. v = ViewValue(r, "none", d)
  BY <1>2, ViewNow
<1>6. w = ViewValue(s, "run", d) /\ x = View!RunStarted(v)
  OBVIOUS
<1> HIDE DEF s, q, v, w, x
<1>7. ~Unmoved(s, d)
  BY <1>2, <1>4, SnapshotAssumption DEF Unmoved
<1>8. /\ ViewState(r) = "ready" /\ ViewState(s) = "running"
      /\ OwnerView(s) = View!By("attempt")
  BY <1>1, <1>3, ViewStates DEF OwnerView, AttemptOp, Owner
<1>9. w = x
  BY <1>3, <1>4, <1>5, <1>6, <1>7, <1>8 DEF ViewValue, Unmoved, View!RunStarted
<1>10. Runs(t, w)
  BY <1>1, <1>2, <1>6, <1>8, <1>9 DEF Runs, v
<1> QED
  BY <1>1, <1>3, <1>6, <1>10, TicketView DEF LegalView

\* The stages of a run, receipts and instructions do not show in a view.
LEMMA UnseenRecord ==
  ASSUME IInv, NEW t \in Tickets, NEW s, NEW q,
         Update(t, s), operations' = [operations EXCEPT ![t] = q],
         UNCHANGED worktree, q.kind = operations[t].kind,
         s.state = record[t].state, s.prepared = record[t].prepared,
         s.active = record[t].active, s.interrupted = record[t].interrupted,
         s.revision = record[t].revision,
         LastAttempt(s) = LastAttempt(record[t]),
         \A digest : Unmoved(s, digest) <=> Unmoved(record[t], digest)
  PROVE  ViewStep
<1>1. ViewValue(s, q.kind, worktree[t]) =
        ViewValue(record[t], q.kind, worktree[t])
  BY SameViewValue
<1>2. LegalView(t, ViewValue(s, q.kind, worktree[t]))
  BY <1>1, ViewNow DEF LegalView
<1> QED
  BY <1>2, TicketView

LEMMA UnseenAction ==
  ASSUME \A t \in Tickets : /\ record'[t] = record[t]
                            /\ operations'[t].kind = operations[t].kind
                            /\ worktree'[t] = worktree[t]
  PROVE  ViewStep
BY ViewValues, SameViews

LEMMA StageView ==
  ASSUME IInv, EvidenceInv, NEW t \in Tickets,
         \/ SetupPassed(t) \/ BaselineDone(t) \/ EnterRuntime(t)
         \/ ObserveReceipt(t) \/ Abort(t)
  PROVE  ViewStep
<1> DEFINE r == record[t]
           o == operations[t]
<1>1. /\ Typed(r) /\ o \in Operation /\ TicketInv(r, o.kind, processes[t])
      /\ Evidence(r, o)
  BY EvidenceFacts
<1>2. ASSUME NEW stage
      PROVE  [operations EXCEPT ![t].stage = stage][t].kind = o.kind
  BY <1>1 DEF Operation, IInv, TypeOK
<1>3. ASSUME NEW s, Update(t, s), UNCHANGED worktree, NEW q,
             operations' = [operations EXCEPT ![t] = q], q.kind = o.kind,
             s.attempts = r.attempts, s.state = r.state,
             s.prepared = r.prepared, s.active = r.active,
             s.interrupted = r.interrupted, s.revision = r.revision
      PROVE  ViewStep
  BY <1>3, SameAttempts, UnseenRecord
<1>4. CASE SetupPassed(t) /\ NeedsBaseline(r)
  <2> DEFINE s == BaselineReserved(r)
             q == [o EXCEPT !.stage = "baseline"]
  <2>1. Update(t, s) /\ UNCHANGED worktree
    BY <1>4 DEF SetupPassed
  <2>2. operations' = [operations EXCEPT ![t] = q] /\ q.kind = o.kind
    BY <1>1, <1>4 DEF SetupPassed, Operation, IInv, TypeOK
  <2>3. /\ s.attempts = r.attempts /\ s.state = r.state
        /\ s.prepared = r.prepared /\ s.active = r.active
        /\ s.interrupted = r.interrupted /\ s.revision = r.revision
    BY <1>1 DEF BaselineReserved, Typed, Record
  <2> HIDE DEF s, q
  <2> QED
    BY <1>3, <2>1, <2>2, <2>3
<1>5. CASE BaselineDone(t)
  <2>1. PICK comparable \in BOOLEAN :
          Update(t, BaselineSettled(r, comparable))
    BY <1>5 DEF BaselineDone
  <2> DEFINE s == BaselineSettled(r, comparable)
             q == [o EXCEPT !.stage = "launch"]
  <2>2. /\ Update(t, s) /\ UNCHANGED worktree
        /\ operations' = [operations EXCEPT ![t] = q] /\ q.kind = o.kind
    BY <1>1, <1>5, <2>1 DEF BaselineDone, Operation, IInv, TypeOK
  <2>3. /\ s.attempts = r.attempts /\ s.state = r.state
        /\ s.prepared = r.prepared /\ s.active = r.active
        /\ s.interrupted = r.interrupted /\ s.revision = r.revision
    BY <1>1 DEF BaselineSettled, Typed, Record
  <2> HIDE DEF s, q
  <2> QED
    BY <1>3, <2>2, <2>3
<1>6. CASE ObserveReceipt(t)
  <2> DEFINE s == InboxSpliced(r, o.batch)
             a == [CurrentAttempt(r) EXCEPT !.receipt = TRUE]
  <2>1. /\ Update(t, s) /\ UNCHANGED <<worktree, operations>>
        /\ o.kind = "run"
    BY <1>6 DEF ObserveReceipt, Running, memory
  <2>2. /\ LastAttempt(r) > 0 /\ CurrentAttempt(r) \in Attempt
        /\ CurrentAttempt(r) = r.attempts[LastAttempt(r)]
    BY <1>1, <2>1, RunFacts
  <2>3. /\ s.attempts = [r.attempts EXCEPT ![LastAttempt(r)] = a]
        /\ s.state = r.state
        /\ s.prepared = r.prepared /\ s.active = r.active
        /\ s.interrupted = r.interrupted /\ s.revision = r.revision
    BY <1>1, <2>2 DEF InboxSpliced, Typed, Record
  <2>4. a.snapshot = CurrentAttempt(r).snapshot
    BY <2>2 DEF Attempt
  <2>5. operations' = [operations EXCEPT ![t] = o]
    BY <2>1 DEF IInv, TypeOK
  <2> HIDE DEF s, a
  <2>6. /\ LastAttempt(s) = LastAttempt(r)
        /\ \A digest : Unmoved(s, digest) <=> Unmoved(r, digest)
    BY <1>1, <2>2, <2>3, <2>4, CurrentReplaced DEF Unmoved
  <2> QED
    BY <2>1, <2>3, <2>5, <2>6, UnseenRecord
<1>7. CASE \/ SetupPassed(t) /\ ~NeedsBaseline(r)
           \/ EnterRuntime(t) \/ Abort(t)
  <2>1. /\ UNCHANGED <<record, worktree>>
        /\ \/ \E stage : operations' = [operations EXCEPT ![t].stage = stage]
           \/ operations' = [operations EXCEPT ![t].abort = TRUE]
    BY <1>7 DEF SetupPassed, EnterRuntime, Abort
  <2>2. \A u \in Tickets : operations[u] \in Operation
    BY EvidenceFacts
  <2>3. ASSUME NEW u \in Tickets
        PROVE  operations'[u].kind = operations[u].kind
    <3>1. /\ operations[u] \in Operation
          /\ operations = [x \in Tickets |-> operations[x]]
      BY <2>2 DEF IInv, TypeOK
    <3>2. CASE operations' = [operations EXCEPT ![t].abort = TRUE]
      BY <3>1, <3>2 DEF Operation
    <3>3. ASSUME NEW stage,
                 operations' = [operations EXCEPT ![t].stage = stage]
          PROVE  operations'[u].kind = operations[u].kind
      BY <3>1, <3>3 DEF Operation
    <3> QED
      BY <2>1, <3>2, <3>3
  <2> QED
    BY <2>1, <2>3, UnseenAction
<1> QED
  BY <1>4, <1>5, <1>6, <1>7

\* A run ends: owning nothing, or still owning for want of a clean exit.
LEMMA EndedRun ==
  ASSUME IInv, EvidenceInv, NEW t \in Tickets, operations[t].kind = "run",
         NEW s, LastAttempt(s) = LastAttempt(record[t]),
         s.active \in {Nobody, record[t].active},
         s.interrupted = record[t].interrupted,
         s.revision = record[t].revision,
         \/ s.state \in {"blocked", "interrupted"}
         \/ /\ s.state = "awaiting_review" /\ s.active = Nobody
            /\ Unmoved(s, worktree[t])
  PROVE  RunEnds(t, ViewValue(s, "none", worktree[t]))
<1> DEFINE r == record[t]
           d == worktree[t]
           v == ViewOf(t)
           w == ViewValue(s, "none", d)
<1>1. r.active.kind = "attempt" /\ Live(t)
  <2>1. /\ TicketInv(r, operations[t].kind, processes[t])
        /\ Evidence(r, operations[t])
    BY EvidenceFacts
  <2>2. r.active = AttemptOp(LastAttempt(r))
    BY <2>1, RunFacts
  <2> QED
    BY <2>2 DEF AttemptOp, Owner, Live
<1>2. v = ViewValue(r, "run", d) /\ w = ViewValue(s, "none", d)
  BY ViewNow
<1>3. PICK clean \in BOOLEAN : clean <=> s.active = Nobody
  OBVIOUS
<1>4. PICK unchanged \in BOOLEAN : unchanged <=> Unmoved(s, d)
  OBVIOUS
<1>5. OwnerView(s) = IF clean THEN View!Nobody ELSE OwnerView(r)
  BY <1>3 DEF OwnerView, Nobody, Owner, View!Nobody
<1> HIDE DEF r, d, v, w
<1>6. CASE s.state = "awaiting_review"
  <2>1. ViewState(s) = "awaiting_review"
    BY <1>6, ViewStates
  <2> DEFINE x == [View!Released(v, TRUE) EXCEPT
                     !.state = "awaiting_review", !.unchanged = TRUE]
  <2>2. /\ OwnerView(s) = View!Nobody /\ Unmoved(s, d)
        /\ x = [View!Released(v, TRUE) EXCEPT
                  !.state = "awaiting_review", !.unchanged = TRUE]
    BY <1>3, <1>5, <1>6 DEF d
  <2> HIDE DEF x
  <2>3. w = x
    BY <1>2, <2>1, <2>2 DEF ViewValue, Unmoved, View!Released, r
  <2> QED
    BY <1>1, <2>2, <2>3 DEF RunEnds, v, w, d, r
<1>7. CASE s.state \in {"blocked", "interrupted"}
  <2>1. ViewState(s) = "stopped"
    BY <1>7, ViewStates
  <2> DEFINE x == [View!Released(v, clean) EXCEPT
                     !.state = "stopped", !.unchanged = unchanged]
  <2>2. x = [View!Released(v, clean) EXCEPT
               !.state = "stopped", !.unchanged = unchanged]
    OBVIOUS
  <2> HIDE DEF x
  <2>3. w = x
    BY <1>2, <1>4, <1>5, <2>1, <2>2
       DEF ViewValue, Unmoved, View!Released, r
  <2> QED
    BY <1>1, <2>2, <2>3 DEF RunEnds, v, w, d, r
<1> QED
  BY <1>6, <1>7

LEMMA RunEndsView ==
  ASSUME IInv, EvidenceInv, NEW t \in Tickets,
         Settle(t) \/ RunFails(t) \/ BlockOnSetup(t)
  PROVE  ViewStep
<1> DEFINE r == record[t]
           o == operations[t]
           d == worktree[t]
<1>1. o.kind = "run" /\ Finish(t) /\ UNCHANGED worktree
  BY DEF Settle, RunFails, BlockOnSetup, Running
<1>2. /\ TicketInv(r, o.kind, processes[t]) /\ Evidence(r, o)
      /\ d \in Snapshots
  BY EvidenceFacts
<1>3. /\ Typed(r) /\ LastAttempt(r) > 0 /\ CurrentAttempt(r) \in Attempt
      /\ CurrentAttempt(r) = r.attempts[LastAttempt(r)]
  BY <1>1, <1>2, RunFacts
<1>4. ASSUME NEW s, Update(t, s), LastAttempt(s) = LastAttempt(r),
             s.active \in {Nobody, r.active}, s.interrupted = r.interrupted,
             s.revision = r.revision,
             \/ s.state \in {"blocked", "interrupted"}
             \/ /\ s.state = "awaiting_review" /\ s.active = Nobody
                /\ Unmoved(s, d)
      PROVE  ViewStep
  <2>1. RunEnds(t, ViewValue(s, "none", d))
    BY <1>1, <1>4, EndedRun
  <2> QED
    BY <1>1, <1>4, <2>1, FinishView DEF LegalView
<1>5. CASE Settle(t)
  <2>1. PICK out \in Outcomes, digest \in {d, NoSnapshot} :
          Update(t, AttemptSettled(r, o.batch, out, digest))
    BY <1>5 DEF Settle
  <2> DEFINE s == AttemptSettled(r, o.batch, out, digest)
             c == CurrentAttempt(r)
             a == [c EXCEPT !.receipt = out.receipt,
                            !.completed = out.completed,
                            !.cleanExit = out.cleanExit, !.snapshot = digest,
                            !.delivery = out.delivery]
  <2>2. /\ s.attempts = [r.attempts EXCEPT ![LastAttempt(r)] = a]
        /\ s.active = OwnerAfter(r, out) /\ s.interrupted = r.interrupted
        /\ s.revision = r.revision
        /\ s.state = SettledState(c, out, digest)
    BY <1>3 DEF AttemptSettled, Typed, Record
  <2>3. a.snapshot = digest
    BY <1>3 DEF Attempt
  <2> HIDE DEF s, a
  <2>4. /\ LastAttempt(s) = LastAttempt(r)
        /\ Unmoved(s, d) <=> digest = d
    BY <1>3, <2>2, <2>3, CurrentReplaced
  <2>5. /\ s.state \in {"blocked", "interrupted", "awaiting_review"}
        /\ s.state = "awaiting_review" => Complete(c, out, digest)
    BY <2>2, SettledStates DEF SettledState
  <2>6. s.state = "awaiting_review" => out.cleanExit /\ digest = d
    BY <2>5, SnapshotAssumption DEF Complete
  <2> QED
    BY <1>4, <2>1, <2>2, <2>4, <2>5, <2>6 DEF OwnerAfter, s
<1>6. CASE RunFails(t)
  <2> DEFINE s == AttemptFailed(r, o.stage = "runtime")
  <2>1. /\ s.attempts = r.attempts /\ s.active = r.active
        /\ s.interrupted = r.interrupted /\ s.revision = r.revision
        /\ s.state = "interrupted"
    BY <1>3 DEF AttemptFailed, Typed, Record
  <2>2. Update(t, s)
    BY <1>6 DEF RunFails
  <2> HIDE DEF s
  <2> QED
    BY <1>4, <2>1, <2>2, SameAttempts
<1>7. CASE BlockOnSetup(t)
  <2> DEFINE s == SetupBlocked(r, d)
             a == [r.attempts[LastAttempt(r)] EXCEPT !.snapshot = d,
                                                     !.cleanExit = TRUE]
  <2>1. /\ s.attempts = [r.attempts EXCEPT ![LastAttempt(r)] = a]
        /\ s.active = Nobody /\ s.interrupted = r.interrupted
        /\ s.revision = r.revision /\ s.state = "blocked"
    BY <1>3 DEF SetupBlocked, Typed, Record
  <2>2. Update(t, s)
    BY <1>7 DEF BlockOnSetup
  <2> HIDE DEF s, a
  <2>3. LastAttempt(s) = LastAttempt(r)
    BY <1>3, <2>1, CurrentReplaced
  <2> QED
    BY <1>4, <2>1, <2>2, <2>3
<1> QED
  BY <1>5, <1>6, <1>7

LEMMA VerifyView ==
  ASSUME IInv, EvidenceInv, NEW t \in Tickets, Verify(t)
  PROVE  ViewStep
<1> DEFINE r == record[t]
           d == worktree[t]
           s == VerificationStarted(r, d)
           v == ViewOf(t)
           w == ViewValue(s, "verify", d)
           x == View!VerifyStarted(v)
<1>1. /\ HasCapacity /\ Idle(t) /\ r.state = "awaiting_review"
      /\ CurrentAttempt(r).snapshot = d /\ Update(t, s)
      /\ operations' = [operations EXCEPT ![t] = VerifyOperation]
      /\ UNCHANGED worktree
  BY DEF Verify
<1>2. /\ Typed(r) /\ ~Owned(r) /\ operations[t].kind = "none"
      /\ LastAttempt(r) > 0
  BY <1>1, IdleFacts DEF TicketInv
<1>3. Unmoved(r, d) /\ VerifyOperation.kind = "verify"
  BY <1>1, <1>2 DEF Unmoved, VerifyOperation, NoOperation
<1>4. /\ s.state = r.state /\ s.interrupted = r.interrupted
      /\ s.active = VerificationOp(LastVerification(r) + 1)
      /\ s.revision = r.revision /\ s.attempts = r.attempts
      /\ s.prepared = r.prepared
  BY <1>2 DEF VerificationStarted, Typed, Record
<1>5. v = ViewValue(r, "none", d)
  BY <1>2, ViewNow
<1>6. w = ViewValue(s, "verify", d) /\ x = View!VerifyStarted(v)
  OBVIOUS
<1> HIDE DEF r, d, s, v, w, x
<1>7. /\ ViewState(s) = ViewState(r) /\ OwnerView(s) = View!By("verification")
      /\ LastAttempt(s) = LastAttempt(r)
      /\ Unmoved(s, d) <=> Unmoved(r, d)
  BY <1>4, SameAttempts DEF ViewState, OwnerView, VerificationOp, Owner
<1>8. w = x
  BY <1>4, <1>5, <1>6, <1>7 DEF ViewValue, Unmoved, View!VerifyStarted
<1>9. Verifies(t, w)
  BY <1>1, <1>2, <1>3, <1>6, <1>8 DEF Verifies, v, r, d
<1> QED
  BY <1>1, <1>3, <1>6, <1>9, TicketView DEF LegalView, r, d

LEMMA VerifyEndsView ==
  ASSUME IInv, EvidenceInv, NEW t \in Tickets,
         VerifySettles(t) \/ VerifyFails(t)
  PROVE  ViewStep
<1> DEFINE r == record[t]
           o == operations[t]
           d == worktree[t]
           v == ViewOf(t)
<1>1. o.kind = "verify" /\ Finish(t) /\ UNCHANGED worktree
  BY DEF VerifySettles, VerifyFails
<1>2. /\ TicketInv(r, o.kind, processes[t]) /\ Evidence(r, o)
      /\ Typed(r)
  BY EvidenceFacts
<1>3. /\ LastAttempt(r) > 0 /\ r.state = "awaiting_review"
      /\ r.active = VerificationOp(LastVerification(r))
      /\ r.verifications[LastVerification(r)].before =
           CurrentAttempt(r).snapshot
  BY <1>1, <1>2 DEF TicketInv, Evidence, VerifyInv
<1>4. r.active.kind = "verification" /\ Live(t)
  BY <1>1, <1>3 DEF VerificationOp, Owner, Live
<1>5. v = ViewValue(r, "verify", d)
  BY <1>1, ViewNow
<1>6. ASSUME NEW passed \in BOOLEAN,
             Update(t, VerificationSettled(r, d, passed))
      PROVE  ViewStep
  <2> DEFINE s == VerificationSettled(r, d, passed)
             w == ViewValue(s, "none", d)
             x == [View!Released(v, TRUE) EXCEPT
                     !.state = IF Unmoved(r, d) THEN @ ELSE "stopped"]
  <2>1. /\ s.attempts = r.attempts /\ s.active = Nobody
        /\ s.interrupted = r.interrupted /\ s.revision = r.revision
        /\ s.state = IF CurrentAttempt(r).snapshot # d THEN "blocked"
                                                       ELSE r.state
    BY <1>2, <1>3 DEF VerificationSettled, Typed, Record
  <2>2. /\ w = ViewValue(s, "none", d)
        /\ x = [View!Released(v, TRUE) EXCEPT
                  !.state = IF Unmoved(r, d) THEN @ ELSE "stopped"]
    OBVIOUS
  <2> HIDE DEF r, d, v, s, w, x
  <2>3. Unmoved(r, d) <=> CurrentAttempt(r).snapshot = d
    BY <1>3 DEF Unmoved
  <2>4. /\ ViewState(r) = "awaiting_review"
        /\ ViewState(s) = IF Unmoved(r, d) THEN "awaiting_review"
                                           ELSE "stopped"
        /\ OwnerView(s) = View!Nobody
    BY <1>3, <2>1, <2>3, ViewStates
       DEF OwnerView, Nobody, Owner, View!Nobody
  <2>5. /\ LastAttempt(s) = LastAttempt(r)
        /\ Unmoved(s, d) <=> Unmoved(r, d)
    BY <2>1, SameAttempts
  <2>6. w = x
    BY <1>5, <2>1, <2>2, <2>4, <2>5 DEF ViewValue, Unmoved, View!Released
  <2>7. VerifyEnds(t, w)
    BY <1>4, <2>2, <2>6 DEF VerifyEnds, r, v, d
  <2> QED
    BY <1>1, <1>6, <2>2, <2>7, FinishView DEF LegalView, s, r, d
<1>7. CASE VerifyFails(t)
  <2> DEFINE s == VerificationFailed(r)
             w == ViewValue(s, "none", d)
             x == [View!Released(v, FALSE) EXCEPT
                     !.state = "stopped", !.interrupted = "verification"]
  <2>1. /\ s.attempts = r.attempts /\ s.active = r.active
        /\ s.interrupted = "verification" /\ s.revision = r.revision
        /\ s.state = "interrupted"
    BY <1>2 DEF VerificationFailed, Typed, Record
  <2>2. /\ Update(t, s) /\ w = ViewValue(s, "none", d)
        /\ x = [View!Released(v, FALSE) EXCEPT
                  !.state = "stopped", !.interrupted = "verification"]
    BY <1>7 DEF VerifyFails
  <2> HIDE DEF r, d, v, s, w, x
  <2>3. /\ ViewState(s) = "stopped" /\ OwnerView(s) = OwnerView(r)
        /\ LastAttempt(s) = LastAttempt(r)
        /\ Unmoved(s, d) <=> Unmoved(r, d)
    BY <2>1, SameAttempts, ViewStates DEF OwnerView
  <2>4. w = x
    BY <1>5, <2>1, <2>2, <2>3 DEF ViewValue, Unmoved, View!Released
  <2>5. VerifyEnds(t, w)
    BY <1>4, <2>2, <2>4 DEF VerifyEnds, r, v
  <2> QED
    BY <1>1, <2>2, <2>5, FinishView DEF LegalView, d
<1> QED
  BY <1>6, <1>7 DEF VerifySettles

\* The state of a verdict is the one TicketView decides on.
LEMMA DecideView ==
  ASSUME IInv, EvidenceInv, NEW t \in Tickets, NEW verdict \in Verdicts,
         RecordReview(t, verdict)
  PROVE  ViewStep
<1> DEFINE r == record[t]
           k == operations[t].kind
           d == worktree[t]
           s == ReviewRecorded(r, d, verdict)
           v == ViewOf(t)
           w == ViewValue(s, k, d)
           x == [v EXCEPT !.state = View!Decided(verdict)]
<1>1. /\ Idle(t) /\ r.state = "awaiting_review"
      /\ CurrentAttempt(r).snapshot = d /\ Update(t, s)
      /\ UNCHANGED <<operations, worktree>>
  BY DEF RecordReview, memory
<1>2. Typed(r) /\ ~Owned(r) /\ LastAttempt(r) > 0 /\ r.prepared
  BY <1>1, IdleFacts DEF TicketInv, Evidence, PreparedInv
<1>3. Unmoved(r, d)
  BY <1>1, <1>2 DEF Unmoved
<1>4. /\ s.state = ReviewState(verdict) /\ s.interrupted = r.interrupted
      /\ s.active = r.active /\ s.revision = r.revision
      /\ s.attempts = r.attempts /\ s.prepared = r.prepared
  BY <1>2 DEF ReviewRecorded, Typed, Record
<1>5. v = ViewValue(r, k, d)
  BY ViewNow
<1>6. w = ViewValue(s, k, d) /\ x = [v EXCEPT !.state = View!Decided(verdict)]
  OBVIOUS
<1> HIDE DEF r, k, d, s, v, w, x
<1>7. ViewState(s) = View!Decided(verdict)
  BY <1>2, <1>4, ViewStates DEF ReviewState, View!Decided, Verdicts
<1>8. /\ OwnerView(s) = OwnerView(r) /\ LastAttempt(s) = LastAttempt(r)
      /\ Unmoved(s, d) <=> Unmoved(r, d)
  BY <1>4, SameAttempts DEF OwnerView
<1>9. w = x
  BY <1>4, <1>5, <1>6, <1>7, <1>8 DEF ViewValue, Unmoved
<1>10. Decides(t, w)
  BY <1>1, <1>2, <1>3, <1>6, <1>9 DEF Decides, v, r, d
<1> QED
  BY <1>1, <1>6, <1>10, RecordView DEF LegalView, d, k

LEMMA RecoverView ==
  ASSUME IInv, EvidenceInv, NEW t \in Tickets, NEW kind \in ContinuationKinds,
         Recover(t, kind)
  PROVE  ViewStep
<1> DEFINE r == record[t]
           d == worktree[t]
           s == RecoveryStarted(r)
           q == RecoverOperation(kind, d)
           v == ViewOf(t)
           w == ViewValue(s, "recover", d)
           x == [v EXCEPT !.owner = View!By("recovery"), !.live = TRUE]
<1>1. /\ ~Live(t) /\ r.state \in {"blocked", "interrupted", "ready"}
      /\ LastAttempt(r) > 0 /\ (Owned(r) \/ HasCapacity)
      /\ Update(t, s) /\ operations' = [operations EXCEPT ![t] = q]
      /\ UNCHANGED worktree
  BY DEF Recover, Recoverable
<1>2. Typed(r) /\ operations[t].kind = "none" /\ q.kind = "recover"
  BY <1>1, EvidenceFacts DEF Live, RecoverOperation, NoOperation
<1>3. /\ s.state = r.state /\ s.interrupted = r.interrupted
      /\ s.active = Recovery /\ s.revision = r.revision
      /\ s.attempts = r.attempts /\ s.prepared = r.prepared
  BY <1>2 DEF RecoveryStarted, Typed, Record
<1>4. v = ViewValue(r, "none", d)
  BY <1>2, ViewNow
<1>5. /\ w = ViewValue(s, "recover", d)
      /\ x = [v EXCEPT !.owner = View!By("recovery"), !.live = TRUE]
  OBVIOUS
<1> HIDE DEF r, d, s, q, v, w, x
<1>6. /\ ViewState(s) = ViewState(r) /\ OwnerView(s) = View!By("recovery")
      /\ LastAttempt(s) = LastAttempt(r)
      /\ Unmoved(s, d) <=> Unmoved(r, d)
  BY <1>3, SameAttempts DEF ViewState, OwnerView, Recovery, Owner
<1>7. ViewState(r) \in {"stopped", "ready"}
  BY <1>1, ViewStates
<1>8. w = x
  BY <1>3, <1>4, <1>5, <1>6 DEF ViewValue, Unmoved
<1>9. Recovers(t, w)
  BY <1>1, <1>5, <1>7, <1>8 DEF Recovers, v, r
<1> QED
  BY <1>1, <1>2, <1>5, <1>9, TicketView DEF LegalView, d

LEMMA RecoverEndsView ==
  ASSUME IInv, EvidenceInv, NEW t \in Tickets,
         RecoverySettles(t) \/ RecoveryFails(t)
  PROVE  ViewStep
<1> DEFINE r == record[t]
           o == operations[t]
           d == worktree[t]
           v == ViewOf(t)
<1>1. o.kind = "recover" /\ Finish(t) /\ UNCHANGED worktree
  BY DEF RecoverySettles, RecoveryFails
<1>2. /\ TicketInv(r, o.kind, processes[t]) /\ Evidence(r, o) /\ Typed(r)
  BY EvidenceFacts
<1>3. /\ LastAttempt(r) > 0 /\ r.active = Recovery /\ Descent(r)
  BY <1>1, <1>2 DEF TicketInv, Restartable, Evidence
<1>4. r.active.kind = "recovery" /\ Live(t)
  BY <1>1, <1>3 DEF Recovery, Owner, Live
<1>5. v = ViewValue(r, "recover", d)
  BY <1>1, ViewNow
<1>6. CASE RecoverySettles(t)
  <2> DEFINE s == TicketRecovered(r, o.continuation, o.digest)
             w == ViewValue(s, "none", d)
             x == [View!Released(v, TRUE) EXCEPT
                     !.state = ViewState(s), !.interrupted = "none"]
  <2>1. Update(t, s) /\ o.digest = d
    BY <1>6 DEF RecoverySettles
  <2>2. /\ s.attempts = [n \in DOMAIN r.attempts |->
                          [r.attempts[n] EXCEPT !.cleanExit = TRUE]]
        /\ s.active = Nobody /\ s.interrupted = "none"
        /\ s.revision = r.revision
        /\ s.state = IF ResumesVerification(r, d) THEN "awaiting_review"
                                                  ELSE "ready"
    BY <1>2, <2>1 DEF TicketRecovered, Typed, Record
  <2>3. /\ w = ViewValue(s, "none", d)
        /\ x = [View!Released(v, TRUE) EXCEPT
                  !.state = ViewState(s), !.interrupted = "none"]
    OBVIOUS
  <2> HIDE DEF r, o, d, v, s, w, x
  <2>4. /\ LastAttempt(s) = LastAttempt(r)
        /\ Unmoved(s, d) <=> Unmoved(r, d)
    <3>1. /\ LastAttempt(s) = LastAttempt(r)
          /\ CurrentAttempt(s) = [CurrentAttempt(r) EXCEPT !.cleanExit = TRUE]
          /\ CurrentAttempt(r) \in Attempt
      BY <1>2, <1>3, <2>2, RecoveredAttempts
    <3>2. CurrentAttempt(s).snapshot = CurrentAttempt(r).snapshot
      BY <3>1 DEF Attempt
    <3> QED
      BY <3>1, <3>2 DEF Unmoved
  <2>5. OwnerView(s) = View!Nobody
    BY <2>2 DEF OwnerView, Nobody, Owner, View!Nobody
  <2>6. w = x
    BY <1>5, <2>2, <2>3, <2>4, <2>5 DEF ViewValue, Unmoved, View!Released
  <2>7. RecoverEnds(t, w)
    <3>1. CASE ResumesVerification(r, d)
      <4>1. /\ ViewState(s) = "awaiting_review"
            /\ r.interrupted = "verification" /\ Unmoved(r, d)
        BY <1>3, <2>2, <3>1, ViewStates DEF ResumesVerification, Unmoved
      <4> QED
        BY <1>4, <2>3, <2>6, <4>1 DEF RecoverEnds, r, d, v
    <3>2. CASE ~ResumesVerification(r, d)
      <4>1. ViewState(s) \in {"ready", "stopped"}
        BY <2>2, <3>2, ViewStates
      <4> QED
        BY <1>4, <2>3, <2>6, <4>1 DEF RecoverEnds, r, v
    <3> QED
      BY <3>1, <3>2
  <2> QED
    BY <1>1, <2>1, <2>3, <2>7, FinishView DEF LegalView, d
<1>7. CASE RecoveryFails(t)
  <2> DEFINE s == RecoveryFailed(r)
             w == ViewValue(s, "none", d)
             x == [v EXCEPT !.owner = View!By("uncertain"), !.live = FALSE]
  <2>1. /\ s.attempts = r.attempts /\ s.active = Uncertain
        /\ s.interrupted = r.interrupted /\ s.revision = r.revision
        /\ s.state = r.state /\ s.prepared = r.prepared
    BY <1>2 DEF RecoveryFailed, Typed, Record
  <2>2. /\ Update(t, s) /\ w = ViewValue(s, "none", d)
        /\ x = [v EXCEPT !.owner = View!By("uncertain"), !.live = FALSE]
    BY <1>7 DEF RecoveryFails
  <2> HIDE DEF r, d, v, s, w, x
  <2>3. /\ ViewState(s) = ViewState(r)
        /\ OwnerView(s) = View!By("uncertain")
        /\ LastAttempt(s) = LastAttempt(r)
        /\ Unmoved(s, d) <=> Unmoved(r, d)
    BY <2>1, SameAttempts DEF ViewState, OwnerView, Uncertain, Owner
  <2>4. w = x
    BY <1>5, <2>1, <2>2, <2>3 DEF ViewValue, Unmoved
  <2>5. RecoverEnds(t, w)
    BY <1>4, <2>2, <2>4 DEF RecoverEnds, r, v
  <2> QED
    BY <1>1, <2>2, <2>5, FinishView DEF LegalView, d
<1> QED
  BY <1>6, <1>7

\* What an instruction's transactions leave alone.
LEMMA InstructionView ==
  ASSUME IInv, EvidenceInv, NEW t \in Tickets, NEW i \in Instructions,
         \/ ObserveConsumption(t, i) \/ QueueInstruction(t, i)
         \/ SendInstruction(t, i) \/ SendReceived(t, i)
         \/ SendUncertain(t, i)
  PROVE  ViewStep
<1> DEFINE r == record[t]
           outcomes == {InstructionConsumed(r, i), InstructionReceived(r, i),
                        InstructionUncertain(r, i),
                        InstructionRecorded(r, i, TRUE),
                        InstructionRecorded(r, i, FALSE)}
<1>1. UNCHANGED <<operations, worktree>>
  BY DEF ObserveConsumption, QueueInstruction, SendInstruction, SendReceived,
         SendUncertain, memory
<1>2. PICK s \in outcomes : Update(t, s)
  BY DEF ObserveConsumption, QueueInstruction, SendInstruction, SendReceived,
         SendUncertain
<1>3. Typed(r)
  BY EvidenceFacts
<1>4. /\ s.attempts = r.attempts /\ s.state = r.state
      /\ s.prepared = r.prepared /\ s.active = r.active
      /\ s.interrupted = r.interrupted /\ s.revision = r.revision
  BY <1>2, <1>3
     DEF InstructionConsumed, InstructionReceived, InstructionUncertain,
         InstructionRecorded, Typed, Record
<1>5. operations' = [operations EXCEPT ![t] = operations[t]]
  BY <1>1 DEF IInv, TypeOK
<1> HIDE DEF r, outcomes
<1>6. /\ LastAttempt(s) = LastAttempt(r)
      /\ \A digest : Unmoved(s, digest) <=> Unmoved(r, digest)
  BY <1>4, SameAttempts
<1> QED
  BY <1>1, <1>2, <1>4, <1>5, <1>6, UnseenRecord DEF r

\* An edit shows unless nothing was delivered yet, or the run has not ended.
LEMMA EditView ==
  ASSUME IInv, EvidenceInv, NEW t \in Tickets, EditWorktree(t)
  PROVE  ViewStep
<1> DEFINE r == record[t]
           o == operations[t]
           d == worktree[t]
           v == ViewOf(t)
<1>1. PICK digest \in Snapshots : worktree' = [worktree EXCEPT ![t] = digest]
  BY DEF EditWorktree
<1>2. /\ UNCHANGED <<record, operations>> /\ worktree'[t] = digest
      /\ \A u \in Tickets \ {t} : worktree'[u] = worktree[u]
  BY <1>1 DEF EditWorktree, memory, IInv, TypeOK
<1>3. /\ TicketInv(r, o.kind, processes[t]) /\ Evidence(r, o) /\ Typed(r)
      /\ d \in Snapshots
  BY EvidenceFacts
<1>4. CASE LastAttempt(r) > 0 /\ r.state # "running"
  <2> DEFINE w == ViewValue(r, o.kind, digest)
  <2>1. PICK unchanged \in BOOLEAN : unchanged <=> Unmoved(r, digest)
    OBVIOUS
  <2> DEFINE x == [v EXCEPT !.unchanged = unchanged]
  <2>2. /\ v = ViewValue(r, o.kind, d) /\ w = ViewValue(r, o.kind, digest)
        /\ x = [v EXCEPT !.unchanged = unchanged]
    BY ViewNow
  <2> HIDE DEF r, o, d, v, w, x
  <2>3. w = x
    BY <2>1, <2>2 DEF ViewValue, Unmoved
  <2>4. Edits(t, w)
    BY <1>4, <2>2, <2>3 DEF Edits, r, v
  <2>5. Views'[t] = w
    BY <1>2, <2>2, ViewValues DEF r, o
  <2>6. Views' = [Views EXCEPT ![t] = w]
    BY <1>2, <2>5, OneViewChanges
  <2> QED
    BY <2>4, <2>6, LegalViews DEF LegalView
<1>5. CASE ~(LastAttempt(r) > 0 /\ r.state # "running")
  <2>1. ~Unmoved(r, digest) /\ ~Unmoved(r, d)
    <3>1. CASE r.state = "running"
      <4>1. CurrentAttempt(r).snapshot = NoSnapshot
        BY <1>3, <3>1 DEF TicketInv, Evidence, RunInv
      <4> QED
        BY <1>3, <4>1, SnapshotAssumption DEF Unmoved
    <3>2. CASE ~(LastAttempt(r) > 0)
      BY <3>2 DEF Unmoved
    <3> QED
      BY <1>5, <3>1, <3>2
  <2> DEFINE w == ViewValue(r, o.kind, digest)
             x == ViewValue(r, o.kind, d)
  <2>2. w = ViewValue(r, o.kind, digest) /\ x = ViewValue(r, o.kind, d)
    OBVIOUS
  <2> HIDE DEF r, o, d, w, x
  <2>3. w = x
    BY <2>1, <2>2 DEF ViewValue, Unmoved
  <2>4. Views'[t] = Views[t]
    BY <1>2, <2>2, <2>3, ViewValues DEF r, o, d
  <2>5. \A u \in Tickets \ {t} : Views'[u] = Views[u]
    BY <1>2, ViewValues
  <2> QED
    BY <2>4, <2>5, SameViews
<1> QED
  BY <1>4, <1>5

\* The fence of a starting controller, on a record and on its view.
LEMMA FencedView ==
  ASSUME NEW r, Typed(r), NEW kind, NEW d, NEW v, v = ViewValue(r, kind, d),
         NEW t
  PROVE  ViewValue(Fenced(r), "none", d) = View!FencedTicket(v, t \in {})
<1> DEFINE s == Fenced(r)
           w == ViewValue(s, "none", d)
           x == View!FencedTicket(v, t \in {})
<1>1. v.owner = View!Nobody <=> ~Owned(r)
  BY OwnerKinds DEF ViewValue, OwnerView, View!Nobody, View!By
<1>2. CASE ~Owned(r)
  <2>1. s = r /\ w = ViewValue(s, "none", d) /\ x = [v EXCEPT !.live = FALSE]
    BY <1>1, <1>2 DEF Fenced, View!FencedTicket
  <2> HIDE DEF s, w, x
  <2>2. w = x
    BY <2>1 DEF ViewValue, Unmoved
  <2> QED
    BY <2>2 DEF s, w, x
<1>3. CASE Owned(r)
  <2> DEFINE i == IF r.interrupted # "none" THEN r.interrupted
                  ELSE IF r.active.kind = "verification" THEN "verification"
                  ELSE "execution"
  <2>1. /\ s.attempts = r.attempts /\ s.active = Uncertain
        /\ s.interrupted = i /\ s.revision = r.revision
        /\ s.state = "interrupted"
    BY <1>3 DEF Fenced, Typed, Record
  <2>2. v.owner.kind = r.active.kind /\ v.interrupted = r.interrupted
    BY DEF ViewValue, OwnerView, View!By
  <2>3. /\ w = ViewValue(s, "none", d)
        /\ x = [v EXCEPT !.interrupted = i, !.owner = View!By("uncertain"),
                         !.live = FALSE, !.state = "stopped"]
    BY <1>1, <1>3, <2>2 DEF View!FencedTicket
  <2> HIDE DEF s, w, x, i
  <2>4. /\ ViewState(s) = "stopped" /\ OwnerView(s) = View!By("uncertain")
        /\ LastAttempt(s) = LastAttempt(r)
        /\ Unmoved(s, d) <=> Unmoved(r, d)
    BY <2>1, SameAttempts, ViewStates DEF OwnerView, Uncertain, Owner
  <2>5. w = x
    BY <2>1, <2>3, <2>4 DEF ViewValue, Unmoved
  <2> QED
    BY <2>5 DEF s, w, x
<1> QED
  BY <1>2, <1>3

\* The controller dies and fences what it had stored by then.
LEMMA RestartedView ==
  ASSUME IInv, NEW records, \A t \in Tickets : Typed(records[t]),
         Restarted(records)
  PROVE  Views' = [t \in Tickets |->
                     View!FencedTicket(
                       ViewValue(records[t], operations[t].kind, worktree[t]),
                       t \in {})]
<1>1. ASSUME NEW t \in Tickets
      PROVE  Views'[t] =
               View!FencedTicket(
                 ViewValue(records[t], operations[t].kind, worktree[t]),
                 t \in {})
  <2>1. /\ record'[t] = Fenced(records[t]) /\ operations'[t].kind = "none"
        /\ worktree'[t] = worktree[t]
    BY DEF Restarted, NoOperation
  <2>2. Views'[t] = ViewValue(Fenced(records[t]), "none", worktree[t])
    BY <2>1, ViewValues
  <2> QED
    BY <2>2, FencedView
<1>2. Views' = [t \in Tickets |-> Views'[t]]
  BY DEF Views
<1> QED
  BY <1>1, <1>2

LEMMA RestartView ==
  ASSUME IInv, Restart
  PROVE  ViewStep
<1>1. \A t \in Tickets : Typed(record[t])
  BY TicketFacts
<1>2. Views' = [t \in Tickets |-> View!FencedTicket(Views[t], t \in {})]
  BY <1>1, RestartedView, ViewValues DEF Restart
<1>3. View!RestartTickets(Views, {})
  BY <1>2 DEF View!RestartTickets, Views
<1> QED
  BY <1>3 DEF ViewStep, View!TicketNext, Views

LEMMA RestartInPrepareView ==
  ASSUME IInv, EvidenceInv, NEW t \in Tickets, RestartInPrepare(t)
  PROVE  ViewStep
<1> DEFINE r == record[t]
           k == operations[t].kind
           d == worktree[t]
           q == TicketReserved(r)
           records == [record EXCEPT ![t] = q]
           reserved == [Views EXCEPT ![t] = View!Reserved(@, "stopped")]
           v == ViewOf(t)
           w == ViewValue(q, k, d)
           x == View!Reserved(v, "stopped")
<1>1. Idle(t) /\ r.revision < MaxRevision /\ Restarted(records)
  BY DEF RestartInPrepare, CanReserve
<1>2. ~Owned(r) /\ Typed(r)
  BY <1>1, IdleFacts, EvidenceFacts
<1>3. /\ q.state = "ready" /\ ~q.prepared /\ q.active = r.active
      /\ q.interrupted = "none" /\ q.revision = r.revision + 1
      /\ q.attempts = r.attempts
  BY <1>2 DEF TicketReserved, Typed, Record
<1>4. Typed(q)
  BY <1>1, <1>2, TicketReservedTyped
<1>5. /\ v = ViewValue(r, k, d) /\ w = ViewValue(q, k, d)
      /\ x = View!Reserved(v, "stopped") /\ Views[t] = v
  BY ViewNow DEF Views
<1>6. /\ records[t] = q
      /\ \A u \in Tickets \ {t} : records[u] = record[u]
  BY DEF IInv, TypeOK
<1>7. /\ reserved[t] = x
      /\ \A u \in Tickets \ {t} : reserved[u] = Views[u]
  BY <1>5 DEF Views
<1>8. /\ View!RestartTickets(reserved, {}) <=>
           Views' = [u \in Tickets |->
                       View!FencedTicket(reserved[u], u \in {})]
      /\ /\ ~View!Owned(t) /\ Views[t].revision < MaxRevision
         /\ View!RestartTickets(reserved, {})
         => View!RestartPreparing(t, {})
  BY DEF View!RestartTickets, View!RestartPreparing, Views
<1>9. ~View!Owned(t) /\ Views[t].revision < MaxRevision
  <2>1. v.owner = OwnerView(r) /\ v.revision = r.revision
    BY <1>5 DEF ViewValue
  <2>2. OwnerView(r) = View!Nobody
    BY <1>2, OwnerKinds DEF OwnerView, View!Nobody
  <2> QED
    BY <1>1, <1>5, <2>1, <2>2 DEF View!Owned, Views
<1> HIDE DEF r, k, d, q, records, reserved, v, w, x
<1>10. w = x
  <2>1. /\ ViewState(q) = "stopped" /\ OwnerView(q) = OwnerView(r)
        /\ LastAttempt(q) = LastAttempt(r)
        /\ Unmoved(q, d) <=> Unmoved(r, d)
    BY <1>3, SameAttempts, ViewStates DEF OwnerView
  <2>2. /\ q.interrupted = "none" /\ q.revision = r.revision + 1
        /\ v = ViewValue(r, k, d) /\ w = ViewValue(q, k, d)
        /\ x = View!Reserved(v, "stopped")
    BY <1>3, <1>5
  <2> QED
    BY <2>1, <2>2, ReservedView
<1>11. ASSUME NEW u \in Tickets
       PROVE  /\ Typed(records[u])
              /\ ViewValue(records[u], operations[u].kind, worktree[u]) =
                   reserved[u]
  <2>1. CASE u = t
    BY <1>4, <1>5, <1>6, <1>7, <1>10, <2>1 DEF k, d
  <2>2. CASE u # t
    BY <1>6, <1>7, <2>2, TicketFacts, ViewValues
  <2> QED
    BY <2>1, <2>2
<1>12. Views' = [u \in Tickets |->
                   View!FencedTicket(
                     ViewValue(records[u], operations[u].kind, worktree[u]),
                     u \in {})]
  BY <1>1, <1>11, RestartedView
<1>13. View!RestartTickets(reserved, {})
  BY <1>8, <1>11, <1>12
<1> QED
  BY <1>8, <1>9, <1>13 DEF ViewStep, View!TicketNext

-----------------------------------------------------------------------------
(***************************************************************************)
(* Part 4.  The theorem.                                                   *)
(***************************************************************************)
LEMMA ViewNext == IInv /\ EvidenceInv /\ [Next]_vars => ViewStep
<1> SUFFICES ASSUME IInv, EvidenceInv, [Next]_vars
             PROVE  ViewStep
  OBVIOUS
<1>1. CASE UNCHANGED vars
  BY <1>1, UnseenAction DEF vars
<1>2. CASE Restart
  BY <1>2, RestartView
<1>3. ASSUME NEW t \in Tickets, TicketStep(t)
      PROVE  ViewStep
  <2>1. CASE \/ PrepareRevision(t) \/ PrepareRevisionBlocked(t)
             \/ PrepareAgain(t) \/ PrepareAgainBlocked(t) \/ Archive(t)
    BY <2>1, PrepareView
  <2>2. CASE Run(t)
    BY <2>2, RunView
  <2>3. CASE \/ SetupPassed(t) \/ BaselineDone(t) \/ EnterRuntime(t)
             \/ ObserveReceipt(t) \/ Cancel(t)
    BY <2>3, StageView DEF Cancel
  <2>4. CASE Settle(t) \/ RunFails(t) \/ BlockOnSetup(t)
    BY <2>4, RunEndsView
  <2>5. CASE Verify(t)
    BY <2>5, VerifyView
  <2>6. CASE VerifySettles(t) \/ VerifyFails(t)
    BY <2>6, VerifyEndsView
  <2>7. ASSUME NEW verdict \in Verdicts, RecordReview(t, verdict)
        PROVE  ViewStep
    BY <2>7, DecideView
  <2>8. ASSUME NEW kind \in ContinuationKinds, Recover(t, kind)
        PROVE  ViewStep
    BY <2>8, RecoverView
  <2>9. CASE RecoverySettles(t) \/ RecoveryFails(t)
    BY <2>9, RecoverEndsView
  <2>10. CASE EditWorktree(t)
    BY <2>10, EditView
  <2>11. CASE ProcessesExit(t)
    BY <2>11, UnseenAction DEF ProcessesExit, memory
  <2>12. CASE RestartInPrepare(t)
    BY <2>12, RestartInPrepareView
  <2> QED
    BY <1>3, <2>1, <2>2, <2>3, <2>4, <2>5, <2>6, <2>7, <2>8, <2>9, <2>10,
       <2>11, <2>12 DEF TicketStep
<1>4. ASSUME NEW t \in Tickets, InstructionStep(t)
      PROVE  ViewStep
  <2>1. ASSUME NEW named \in SUBSET Instructions, CancelIfUnconsumed(t, named)
        PROVE  ViewStep
    BY <2>1, StageView DEF CancelIfUnconsumed
  <2>2. ASSUME NEW i \in Instructions,
               \/ ObserveConsumption(t, i) \/ QueueInstruction(t, i)
               \/ SendInstruction(t, i) \/ SendReceived(t, i)
               \/ SendUncertain(t, i)
        PROVE  ViewStep
    BY <2>2, InstructionView
  <2> QED
    BY <1>4, <2>1, <2>2 DEF InstructionStep
<1> QED
  BY <1>1, <1>2, <1>3, <1>4 DEF Next

LEMMA ViewInit == Init => View!TicketInit
<1> SUFFICES ASSUME Init, NEW t \in Tickets
             PROVE  ViewOf(t) = View!NoTicket
  BY DEF View!TicketInit
<1> DEFINE v == ViewOf(t)
           x == View!NoTicket
           d == worktree[t]
<1>1. record[t] = NoRecord /\ operations[t].kind = "none"
  BY DEF Init, NoOperation
<1>2. v = ViewValue(NoRecord, "none", d) /\ x = View!NoTicket
  BY <1>1, ViewNow
<1> HIDE DEF v, x, d
<1>3. /\ NoRecord.state = "absent" /\ NoRecord.interrupted = "none"
      /\ NoRecord.revision = 0 /\ NoRecord.active = Nobody
      /\ NoRecord.attempts = << >>
  BY DEF NoRecord
<1>4. /\ ViewState(NoRecord) = "absent" /\ OwnerView(NoRecord) = View!Nobody
      /\ LastAttempt(NoRecord) = 0 /\ ~Unmoved(NoRecord, d)
  BY <1>3, ViewStates
     DEF OwnerView, Nobody, Owner, View!Nobody, LastAttempt, Unmoved
<1>5. v = x
  BY <1>2, <1>3, <1>4 DEF ViewValue, Unmoved, View!NoTicket
<1> QED
  BY <1>5 DEF v, x

\* The controller implements TicketView: the tickets on which the review
\* coordinator is modelled change only as the controller changes them.
THEOREM ImplementsTicketViewTheorem == Spec => ImplementsTicketView
<1>1. Init => View!TicketInit
  BY ViewInit
<1>2. IInv /\ EvidenceInv /\ [Next]_vars =>
        [View!TicketNext]_[t \in Tickets |-> ViewOf(t)]
  BY ViewNext DEF ViewStep, Views
<1> QED
  BY <1>1, <1>2, EvidenceInvariant, PTL
     DEF Spec, ImplementsTicketView, View!TicketSpec
===============================================================================
