---------------------------- MODULE ReviewQueue ----------------------------
(***************************************************************************)
(* packages/core/src/review-coordinator.ts: pools, the durable queue of    *)
(* reviews and scheduled operations, the pump that admits them, the life   *)
(* of a review run, its recovery, and the fence after a restart.  Tickets  *)
(* are those of TicketView, and every action of a ticket is here with what *)
(* the coordinator adds to it.                                             *)
(*                                                                         *)
(* Review runs and scheduled operations draw their sequence from the same  *)
(* journal, so one sequence of entries holds both, in queue order.         *)
(***************************************************************************)
EXTENDS TicketView, Sequences

CONSTANTS
  Pools, NoPool,
  Limits,         \* the implementation limits an operator may configure
  MaxEntries,     \* bound on requests and schedulings
  MaxRecoveries   \* bound on concurrent recover-review calls of one run

ASSUME PoolAssumption == NoPool \notin Pools
ASSUME QueueAssumption ==
  /\ IsFiniteSet(Tickets) /\ Capacity \in Nat /\ MaxEntries \in Nat
  /\ Limits \subseteq Nat \ {0}

VARIABLES
  binding,      \* reviewPoolId of the ticket's revision
  pools,        \* the durable ReviewPool objects
  entries,      \* the durable ReviewRun and ScheduledOperation objects
  reviewing,    \* this.live: where the body of a review stands
  processes,    \* the reviews whose marker some process carries
  recovering,   \* recover() calls of a review awaiting terminate()
  pump          \* queuedPump and pumping

vars == <<ticket, binding, pools, entries, reviewing, processes, recovering,
          pump>>
memory == <<reviewing, recovering>>

Runs == 1 .. MaxEntries
Settled == {"completed", "failed", "cancelled", "interrupted", "started"}

NoPoolConfig == [state |-> "absent", limit |-> 0, pending |-> 0]
NotReviewing == [stage |-> "none", abort |-> FALSE]

Entry(kind, t, attempt, p) ==
  [kind |-> kind, ticket |-> t, revision |-> ticket[t].revision,
   attempt |-> attempt, pool |-> p, state |-> "queued", suspended |-> FALSE,
   slotHeld |-> FALSE, report |-> "none"]

IsReview(e) == entries[e].kind = "review"
IsQueued(e) == entries[e].state = "queued"
\* A scheduled operation follows its ticket to another pool.
PoolOf(e) == IF IsReview(e) THEN entries[e].pool ELSE binding[entries[e].ticket]

\* counts()
ImplementationOwned(p) ==
  {t \in Tickets : /\ binding[t] = p /\ Owned(t)
                   /\ \/ ticket[t].state = "running"
                      \/ ticket[t].interrupted = "execution"}
ReviewOwned(p) ==
  {e \in DOMAIN entries : IsReview(e) /\ PoolOf(e) = p /\ entries[e].slotHeld}
OwnedBy(p, kind) ==
  Cardinality(IF kind = "review" THEN ReviewOwned(p) ELSE ImplementationOwned(p))
LargestRole(p) ==
  IF OwnedBy(p, "review") > OwnedBy(p, "run") THEN OwnedBy(p, "review")
                                              ELSE OwnedBy(p, "run")

\* Fault: a pool at its limit admits one more.
EligibleAtLimit(p, kind) ==
  p # NoPool =>
    /\ pools[p].state = "enabled" /\ pools[p].pending = 0
    /\ kind = "verify" \/ OwnedBy(p, kind) <= pools[p].limit
Eligible(p, kind) ==
  p # NoPool =>
    /\ pools[p].state = "enabled" /\ pools[p].pending = 0
    /\ kind = "verify" \/ OwnedBy(p, kind) < pools[p].limit

\* candidates(): queue entries that could start now, but for capacity
Executable ==
  {e \in DOMAIN entries : /\ IsQueued(e) /\ ~entries[e].suspended
                          /\ ~Owned(entries[e].ticket)
                          /\ Eligible(PoolOf(e), entries[e].kind)}
\* Fault: the newest request goes first.
Newest == CHOOSE e \in Executable : \A f \in Executable : e >= f
Oldest == CHOOSE e \in Executable : \A f \in Executable : e <= f

\* subject(): an unowned ticket whose clean submitted delivery still stands.
IsSubject(t, revision, attempt, p) ==
  /\ binding[t] = p
  /\ ticket[t].revision = revision /\ ticket[t].attempt = attempt
  /\ ticket[t].state = "awaiting_review" /\ ticket[t].unchanged

Kick == pump' = "queued"
Pumping == pump = "pumping"

SetEntry(e, r) == entries' = [entries EXCEPT ![e] = r]

Init ==
  /\ ticket = [t \in Tickets |-> NoTicket]
  /\ binding = [t \in Tickets |-> NoPool]
  /\ pools = [p \in Pools |-> NoPoolConfig]
  /\ entries = << >>
  /\ reviewing = [e \in Runs |-> NotReviewing]
  /\ processes = {}
  /\ recovering = [e \in Runs |-> 0]
  /\ pump = "idle"

-----------------------------------------------------------------------------
(***************************************************************************)
(* Pools and requests.                                                     *)
(***************************************************************************)
\* Fault: queued work does not keep a pool open.
MayCloseQueued(p) ==
  /\ ReviewOwned(p) = {}
  /\ \A t \in Tickets : binding[t] = p => ~Owned(t)
MayClose(p) ==
  /\ ReviewOwned(p) = {}
  /\ \A t \in Tickets : binding[t] = p => ~Owned(t)
  /\ \A e \in DOMAIN entries : IsQueued(e) => PoolOf(e) # p

\* Fault: enabling a pool requeues what a restart interrupted.
RearmedInterrupted(p) ==
  [e \in DOMAIN entries |->
     IF entries[e].state \in {"queued", "interrupted"} /\ PoolOf(e) = p
     THEN [entries[e] EXCEPT !.state = "queued", !.suspended = FALSE]
     ELSE entries[e]]
\* Enabling a pool lifts the suspension of its queued work.
Rearmed(p) ==
  [e \in DOMAIN entries |->
     IF IsQueued(e) /\ PoolOf(e) = p
     THEN [entries[e] EXCEPT !.suspended = FALSE] ELSE entries[e]]

\* A limit below what is owned is kept pending until the pool has drained.
Configure(p, state, limit) ==
  LET draining == limit < LargestRole(p)
  IN /\ state = "closed" => MayClose(p)
     /\ pools' = [pools EXCEPT ![p] =
                    [state |-> state,
                     limit |-> IF draining THEN @.limit ELSE limit,
                     pending |-> IF draining THEN limit ELSE 0]]
     /\ entries' = IF state = "enabled" THEN Rearmed(p) ELSE entries
     /\ Kick
     /\ UNCHANGED <<ticket, binding, memory, processes>>

RequestReview(t) ==
  /\ Len(entries) < MaxEntries
  /\ binding[t] # NoPool /\ pools[binding[t]].state # "closed"
  /\ IsSubject(t, ticket[t].revision, ticket[t].attempt, binding[t])
  /\ ~Owned(t)
  /\ ~\E e \in DOMAIN entries : /\ IsReview(e) /\ IsQueued(e)
                                /\ entries[e].ticket = t
  /\ entries' =
       Append(entries, Entry("review", t, ticket[t].attempt, binding[t]))
  /\ Kick
  /\ UNCHANGED <<ticket, binding, pools, memory, processes>>

Schedule(t, kind) ==
  /\ Len(entries) < MaxEntries
  /\ ticket[t].revision > 0
  /\ binding[t] # NoPool /\ pools[binding[t]].state # "closed"
  /\ ~\E e \in DOMAIN entries : /\ ~IsReview(e) /\ IsQueued(e)
                                /\ entries[e].ticket = t
  /\ entries' = Append(entries, Entry(kind, t, 0, NoPool))
  /\ Kick
  /\ UNCHANGED <<ticket, binding, pools, memory, processes>>

CancelScheduled(e) ==
  /\ ~IsReview(e) /\ IsQueued(e)
  /\ SetEntry(e, [entries[e] EXCEPT !.state = "cancelled"])
  /\ Kick
  /\ UNCHANGED <<ticket, binding, pools, memory, processes>>

\* Withdraws a queued review, aborts a live one.
CancelReview(e) ==
  /\ IsReview(e)
  /\ IF reviewing[e].stage # "none"
     THEN /\ reviewing' = [reviewing EXCEPT ![e].abort = TRUE]
          /\ UNCHANGED <<entries, pump>>
     ELSE /\ IsQueued(e)
          /\ SetEntry(e, [entries[e] EXCEPT !.state = "cancelled"])
          /\ Kick
          /\ UNCHANGED reviewing
  /\ UNCHANGED <<ticket, binding, pools, recovering, processes>>

-----------------------------------------------------------------------------
(***************************************************************************)
(* pump(): one synchronous loop.  Nothing but a crash comes between its    *)
(* steps.                                                                  *)
(***************************************************************************)
Drained(p) == pools[p].pending # 0 /\ LargestRole(p) <= pools[p].pending

PumpStart ==
  /\ pump = "queued"
  /\ pump' = "pumping"
  /\ pools' = [p \in Pools |->
                 IF Drained(p)
                 THEN [pools[p] EXCEPT !.limit = pools[p].pending, !.pending = 0]
                 ELSE pools[p]]
  /\ UNCHANGED <<ticket, binding, entries, memory, processes>>

\* Fault: the loop does not look at the service's capacity.
MayAdmitAny == Executable # {}
MayAdmit == Executable # {} /\ HasCapacity

\* start(): the reservation, and a body that has not begun.
StartReview(e) ==
  LET t == entries[e].ticket
  IN /\ Pumping /\ MayAdmit /\ e = Oldest /\ IsReview(e)
     /\ IsSubject(t, entries[e].revision, entries[e].attempt, entries[e].pool)
     /\ Set(t, [ticket[t] EXCEPT !.owner = Reviewer(e)])
     /\ SetEntry(e, [entries[e] EXCEPT !.state = "running", !.slotHeld = TRUE])
     /\ reviewing' = [reviewing EXCEPT ![e].stage = "starting"]
     /\ UNCHANGED <<binding, pools, recovering, processes, pump>>

Dispatchable(e) ==
  LET t == entries[e].ticket
  IN /\ Pumping /\ MayAdmit /\ e = Oldest /\ ~IsReview(e)
     /\ entries[e].revision = ticket[t].revision
     /\ IF entries[e].kind = "run" THEN CanRun(t) ELSE CanVerify(t)
Begun(e) ==
  IF entries[e].kind = "run" THEN RunStarted(ticket[entries[e].ticket])
                             ELSE VerifyStarted(ticket[entries[e].ticket])

DispatchOperation(e) ==
  /\ Dispatchable(e)
  /\ Set(entries[e].ticket, Begun(e))
  /\ SetEntry(e, [entries[e] EXCEPT !.state = "started"])
  /\ UNCHANGED <<binding, pools, memory, processes, pump>>

\* Fault: a refused entry stays in the queue.
RefusedForNow(r) == r
Refused(r) == [r EXCEPT !.state = "failed"]
\* The subject changed, or the host refused: revision, state, scope, missing
\* environment, archived.
AdmissionFails(e) ==
  /\ Pumping /\ MayAdmit /\ e = Oldest
  /\ SetEntry(e, Refused(entries[e]))
  /\ UNCHANGED <<ticket, binding, pools, memory, processes, pump>>

PumpEnd ==
  /\ Pumping /\ ~MayAdmit
  /\ pump' = "idle"
  /\ UNCHANGED <<ticket, binding, pools, entries, memory, processes>>

-----------------------------------------------------------------------------
(***************************************************************************)
(* execute(): the body of a review run.                                    *)
(***************************************************************************)
InStage(e, stage) == reviewing[e].stage = stage

\* The inspection clone is built and frozen; the reviewer's model starts.
ReviewEnters(e) ==
  /\ InStage(e, "starting") /\ ~reviewing[e].abort
  /\ reviewing' = [reviewing EXCEPT ![e].stage = "runtime"]
  /\ processes' = processes \union {e}
  /\ UNCHANGED <<ticket, binding, pools, entries, recovering, pump>>

\* A clean, completed turn over unchanged inputs gave a report that covers
\* every criterion.  The slot is held until cleanup is done.
ReviewReports(e) ==
  /\ InStage(e, "runtime") /\ ~reviewing[e].abort
  /\ e \notin processes
  /\ ticket[entries[e].ticket].unchanged
  /\ \E report \in {"conclusive", "inconclusive"} :
       SetEntry(e, [entries[e] EXCEPT !.state = "completed",
                                      !.report = report])
  /\ reviewing' = [reviewing EXCEPT ![e].stage = "cleanup"]
  /\ UNCHANGED <<ticket, binding, pools, recovering, processes, pump>>

\* Preparation or the runtime threw, or the result was not acceptable.
ReviewThrows(e) ==
  /\ InStage(e, "starting") \/ InStage(e, "runtime")
  /\ SetEntry(e, [entries[e] EXCEPT
                    !.state = IF reviewing[e].abort THEN "cancelled"
                                                    ELSE "failed"])
  /\ reviewing' = [reviewing EXCEPT ![e].stage = "cleanup"]
  /\ UNCHANGED <<ticket, binding, pools, recovering, processes, pump>>

OwnedByReview(e) == ticket[entries[e].ticket].owner = Reviewer(e)
\* The end of a review's ownership, in the transaction that ends the run.
ReleaseTicket(e) ==
  LET t == entries[e].ticket
  IN IF OwnedByReview(e) THEN Set(t, [ticket[t] EXCEPT !.owner = Nobody])
                         ELSE UNCHANGED ticket

\* Fault: a review that ends wakes nobody up.
WakeAfterReviewNever == UNCHANGED pump
WakeAfterReview == Kick

\* terminate() found nobody.
ReviewEnds(e) ==
  /\ InStage(e, "cleanup") /\ e \notin processes
  /\ SetEntry(e, [entries[e] EXCEPT !.slotHeld = FALSE])
  /\ ReleaseTicket(e)
  /\ reviewing' = [reviewing EXCEPT ![e] = NotReviewing]
  /\ WakeAfterReview
  /\ UNCHANGED <<binding, pools, recovering, processes>>

\* Somebody survived, or terminate() threw: the slot stays held.
ReviewEndsUncertain(e) ==
  /\ InStage(e, "cleanup")
  /\ SetEntry(e, [entries[e] EXCEPT !.state = "interrupted"])
  /\ reviewing' = [reviewing EXCEPT ![e] = NotReviewing]
  /\ WakeAfterReview
  /\ UNCHANGED <<ticket, binding, pools, recovering, processes>>

\* recover-review
RecoverReview(e) ==
  /\ IsReview(e) /\ entries[e].slotHeld /\ InStage(e, "none")
  /\ recovering[e] < MaxRecoveries
  /\ recovering' = [recovering EXCEPT ![e] = @ + 1]
  /\ UNCHANGED <<ticket, binding, pools, entries, reviewing, processes, pump>>

\* Fault: whoever owns the ticket by now is released.
StillOwnerUnchecked(e) == TRUE
StillOwner(e) == OwnedByReview(e)

RecoverReviewEnds(e) ==
  LET t == entries[e].ticket
  IN /\ recovering[e] > 0 /\ e \notin processes
     /\ StillOwner(e)
     /\ SetEntry(e, [entries[e] EXCEPT !.slotHeld = FALSE,
                                       !.state = "interrupted"])
     /\ Set(t, [ticket[t] EXCEPT !.owner = Nobody])
     /\ recovering' = [recovering EXCEPT ![e] = @ - 1]
     /\ Kick
     /\ UNCHANGED <<binding, pools, reviewing, processes>>

\* A process remains, terminate() threw, or another recovery was faster.
RecoverReviewFails(e) ==
  /\ recovering[e] > 0
  /\ recovering' = [recovering EXCEPT ![e] = @ - 1]
  /\ UNCHANGED <<ticket, binding, pools, entries, reviewing, processes, pump>>

ReviewProcessesExit(e) ==
  /\ e \in processes
  /\ processes' = processes \ {e}
  /\ UNCHANGED <<ticket, binding, pools, entries, memory, pump>>

-----------------------------------------------------------------------------
(***************************************************************************)
(* The controller's operations, with what the coordinator adds.            *)
(***************************************************************************)
Others == <<pools, entries, memory, processes>>

\* A new revision may name another pool, if it exists.
NamesPool(p) == p \in Pools => pools[p].state # "absent"

Prepare(t, p) ==
  /\ NamesPool(p)
  /\ PrepareTicket(t)
  /\ binding' = [binding EXCEPT ![t] = p]
  /\ UNCHANGED <<Others, pump>>

PrepareAgain(t) == PrepareTicketAgain(t) /\ UNCHANGED <<binding, Others, pump>>

\* beforeOperation(): a direct call never passes executable queued work.
MayGoDirectly(t, kind) == Eligible(binding[t], kind) /\ Executable = {}

DirectRun(t) ==
  /\ MayGoDirectly(t, "run") /\ RunTicket(t)
  /\ UNCHANGED <<binding, Others, pump>>
DirectVerify(t) ==
  /\ MayGoDirectly(t, "verify") /\ VerifyTicket(t)
  /\ UNCHANGED <<binding, Others, pump>>

OperationEnds(t) ==
  /\ RunTicketEnds(t) \/ VerifyTicketEnds(t) \/ RecoverTicketEnds(t)
  /\ Kick /\ UNCHANGED <<binding, Others>>

\* owns()
OwnsTicket(t) ==
  \E e \in DOMAIN entries : entries[e].slotHeld /\ ticket[t].owner = Reviewer(e)
\* A review's ticket waits for recover-review.
Recover(t) ==
  ~OwnsTicket(t) /\ RecoverTicket(t) /\ UNCHANGED <<binding, Others, pump>>
Edit(t) == EditTicket(t) /\ UNCHANGED <<binding, Others, pump>>

\* validateAcceptance(): a report names the exact target of the verdict.
BoundReport(e, t) ==
  /\ IsReview(e) /\ entries[e].ticket = t
  /\ entries[e].revision = ticket[t].revision
  /\ entries[e].attempt = ticket[t].attempt
\* Fault: any report of the target will do, whatever became of the run.
AcceptableAnyRun(t, e) == BoundReport(e, t) /\ entries[e].report = "conclusive"
Acceptable(t, e) ==
  /\ BoundReport(e, t)
  /\ entries[e].state = "completed" /\ ~entries[e].slotHeld
  /\ entries[e].report = "conclusive"

Decide(t, verdict) ==
  /\ verdict = "accept" /\ binding[t] # NoPool =>
       \E e \in DOMAIN entries : Acceptable(t, e)
  /\ DecideTicket(t, verdict)
  /\ UNCHANGED <<binding, Others, pump>>

-----------------------------------------------------------------------------
(***************************************************************************)
(* The controller dies at any point, in the middle of a pump too.  The     *)
(* coordinator of the next one fences held slots and suspends the queue    *)
(* before the controller fences the tickets no review owns.                *)
(***************************************************************************)
\* Fault: the controller fences tickets of reviews like its own.
LeftToNobody == {}
LeftToReview == {t \in Tickets : OwnsTicket(t)}

FencedEntry(r) ==
  [r EXCEPT !.state = IF r.slotHeld THEN "interrupted" ELSE @,
            !.suspended = IF r.state = "queued" THEN TRUE ELSE @]

FenceQueue ==
  /\ entries' = [e \in DOMAIN entries |-> FencedEntry(entries[e])]
  /\ reviewing' = [e \in Runs |-> NotReviewing]
  /\ recovering' = [e \in Runs |-> 0]
  /\ pump' = "idle"
  /\ UNCHANGED <<pools, processes>>

Restart == RestartTickets(ticket, LeftToReview) /\ FenceQueue /\ UNCHANGED binding

\* ... after the pump started an operation and before it wrote so.
RestartInDispatch(e) ==
  /\ Dispatchable(e)
  /\ RestartTickets([ticket EXCEPT ![entries[e].ticket] = Begun(e)],
                    LeftToReview)
  /\ FenceQueue /\ UNCHANGED binding

\* ... between the reservation and the outcome of a preparation.
RestartInPrepare(t, p) ==
  /\ NamesPool(p)
  /\ RestartPreparing(t, LeftToReview)
  /\ binding' = [binding EXCEPT ![t] = p]
  /\ FenceQueue

-----------------------------------------------------------------------------
PumpStep ==
  \/ PumpStart \/ PumpEnd
  \/ \E e \in DOMAIN entries :
       StartReview(e) \/ DispatchOperation(e) \/ AdmissionFails(e)

EntryStep(e) ==
  \/ CancelScheduled(e) \/ CancelReview(e)
  \/ ReviewEnters(e) \/ ReviewReports(e) \/ ReviewThrows(e)
  \/ ReviewEnds(e) \/ ReviewEndsUncertain(e)
  \/ RecoverReview(e) \/ RecoverReviewEnds(e) \/ RecoverReviewFails(e)
  \/ ReviewProcessesExit(e)

TicketStep(t) ==
  \/ RequestReview(t) \/ Schedule(t, "run") \/ Schedule(t, "verify")
  \/ \E p \in Pools \union {NoPool} : Prepare(t, p) \/ RestartInPrepare(t, p)
  \/ PrepareAgain(t) \/ DirectRun(t) \/ DirectVerify(t) \/ OperationEnds(t)
  \/ Recover(t) \/ Edit(t)
  \/ \E verdict \in {"accept", "request_changes", "blocked"} :
       Decide(t, verdict)

RequestStep ==
  \/ \E p \in Pools, limit \in Limits :
       \E state \in {"enabled", "paused", "closed"} : Configure(p, state, limit)
  \/ \E e \in DOMAIN entries : EntryStep(e)
  \/ \E t \in Tickets : TicketStep(t)

Next ==
  \/ PumpStep
  \/ ~Pumping /\ RequestStep
  \/ Restart \/ \E e \in DOMAIN entries : RestartInDispatch(e)

Spec == Init /\ [][Next]_vars
\* A microtask runs before anything else the event loop does.
FairSpec == Spec /\ WF_vars(PumpStep)
=============================================================================
