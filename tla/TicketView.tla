----------------------------- MODULE TicketView -----------------------------
(***************************************************************************)
(* Tickets as the review coordinator sees them: who owns a ticket, which   *)
(* kind of work it waits for, and whether the worktree still is what the   *)
(* current attempt delivered.  Every evidence rule of the controller is    *)
(* left out, so this is an abstraction of module Controller (checked as    *)
(* ImplementsTicketView) and the base of module ReviewQueue.               *)
(***************************************************************************)
EXTENDS Integers, FiniteSets

CONSTANTS Tickets, Capacity, MaxRevision, MaxAttempts

VARIABLE ticket

(***************************************************************************)
(* "ready" stands for ready and changes_requested, "stopped" for blocked,  *)
(* interrupted and a reserved but unprepared revision.  An owner of kind   *)
(* review carries the number of the review run.                            *)
(***************************************************************************)
States == {"absent", "ready", "running", "awaiting_review", "accepted",
           "stopped"}
By(kind) == [kind |-> kind, run |-> 0]
Nobody == By("none")
Reviewer(run) == [kind |-> "review", run |-> run]
OwnerKinds == {"none", "attempt", "verification", "recovery", "uncertain"}

NoTicket ==
  [state |-> "absent", owner |-> Nobody, live |-> FALSE,
   interrupted |-> "none", revision |-> 0, attempt |-> 0,
   unchanged |-> FALSE]   \* capture() gives the current attempt's snapshot

Owned(t) == ticket[t].owner # Nobody
LiveAs(t, kind) == ticket[t].live /\ ticket[t].owner.kind = kind
Busy == {t \in Tickets : ticket[t].live \/ Owned(t)}
HasCapacity == Cardinality(Busy) < Capacity

Set(t, r) == ticket' = [ticket EXCEPT ![t] = r]
\* An operation ends; unless its processes are accounted for it keeps owning.
Released(r, clean) ==
  [r EXCEPT !.live = FALSE, !.owner = IF clean THEN Nobody ELSE @]

TicketInit == ticket = [t \in Tickets |-> NoTicket]

-----------------------------------------------------------------------------
\* prepare of a new revision, and of the same one again.
Reserved(r, state) ==
  [r EXCEPT !.state = state, !.interrupted = "none", !.revision = @ + 1]
PrepareTicket(t) ==
  /\ ~Owned(t) /\ ticket[t].revision < MaxRevision
  /\ \E state \in {"ready", "stopped"} : Set(t, Reserved(ticket[t], state))

PrepareTicketAgain(t) ==
  /\ ~Owned(t) /\ ticket[t].revision > 0
  /\ \/ Set(t, [ticket[t] EXCEPT !.state = "stopped"])
     \/ /\ ticket[t].state = "stopped"
        /\ Set(t, [ticket[t] EXCEPT !.state = "ready"])

CanRun(t) ==
  /\ HasCapacity /\ ~Owned(t)
  /\ ticket[t].state = "ready" /\ ticket[t].attempt < MaxAttempts
RunStarted(r) ==
  [r EXCEPT !.state = "running", !.owner = By("attempt"), !.live = TRUE,
            !.attempt = @ + 1, !.unchanged = FALSE]
RunTicket(t) == CanRun(t) /\ Set(t, RunStarted(ticket[t]))

\* Settled, blocked on setup, or failed: only a clean complete attempt of an
\* unchanged snapshot goes to review.
RunTicketEnds(t) ==
  /\ LiveAs(t, "attempt")
  /\ \/ Set(t, [Released(ticket[t], TRUE) EXCEPT
                  !.state = "awaiting_review", !.unchanged = TRUE])
     \/ \E clean, unchanged \in BOOLEAN :
          Set(t, [Released(ticket[t], clean) EXCEPT
                    !.state = "stopped", !.unchanged = unchanged])

CanVerify(t) ==
  /\ HasCapacity /\ ~Owned(t)
  /\ ticket[t].state = "awaiting_review" /\ ticket[t].unchanged
VerifyStarted(r) == [r EXCEPT !.owner = By("verification"), !.live = TRUE]
VerifyTicket(t) == CanVerify(t) /\ Set(t, VerifyStarted(ticket[t]))

VerifyTicketEnds(t) ==
  LET r == ticket[t]
  IN /\ LiveAs(t, "verification")
     /\ \/ Set(t, [Released(r, TRUE) EXCEPT
                     !.state = IF r.unchanged THEN @ ELSE "stopped"])
        \/ Set(t, [Released(r, FALSE) EXCEPT
                     !.state = "stopped", !.interrupted = "verification"])

\* The host's verdict.
Decided(verdict) ==
  CASE verdict = "accept" -> "accepted"
    [] verdict = "request_changes" -> "ready"
    [] verdict = "blocked" -> "stopped"
DecideTicket(t, verdict) ==
  /\ ~Owned(t)
  /\ ticket[t].state = "awaiting_review" /\ ticket[t].unchanged
  /\ Set(t, [ticket[t] EXCEPT !.state = Decided(verdict)])

RecoverTicket(t) ==
  /\ ~ticket[t].live
  /\ ticket[t].state \in {"stopped", "ready"} /\ ticket[t].attempt > 0
  /\ Owned(t) \/ HasCapacity
  /\ Set(t, [ticket[t] EXCEPT !.owner = By("recovery"), !.live = TRUE])

\* An interrupted verification returns to its delivery.
RecoverTicketEnds(t) ==
  LET r == ticket[t]
  IN /\ LiveAs(t, "recovery")
     /\ \/ \E state \in {"ready", "stopped"} :
             Set(t, [Released(r, TRUE) EXCEPT !.state = state,
                                              !.interrupted = "none"])
        \/ /\ r.interrupted = "verification" /\ r.unchanged
           /\ Set(t, [Released(r, TRUE) EXCEPT !.state = "awaiting_review",
                                               !.interrupted = "none"])
        \/ Set(t, [r EXCEPT !.owner = By("uncertain"), !.live = FALSE])

\* Somebody edits the worktree, or puts the delivered content back.
EditTicket(t) ==
  /\ ticket[t].attempt > 0 /\ ticket[t].state # "running"
  /\ \E unchanged \in BOOLEAN :
       Set(t, [ticket[t] EXCEPT !.unchanged = unchanged])

\* The fence of a starting controller.  A review's ticket is not its own.
FencedTicket(r, ownedByReview) ==
  IF r.owner = Nobody \/ ownedByReview THEN [r EXCEPT !.live = FALSE]
  ELSE [r EXCEPT
          !.interrupted =
            IF @ # "none" THEN @
            ELSE IF r.owner.kind = "verification" THEN "verification"
            ELSE "execution",
          !.owner = By("uncertain"), !.live = FALSE, !.state = "stopped"]

\* `left` are the tickets the coordinator says its reviews own.
RestartTickets(tickets, left) ==
  ticket' = [t \in Tickets |-> FencedTicket(tickets[t], t \in left)]

\* A crash between the reservation and the outcome of a preparation.
RestartPreparing(t, left) ==
  /\ ~Owned(t) /\ ticket[t].revision < MaxRevision
  /\ RestartTickets([ticket EXCEPT ![t] = Reserved(@, "stopped")], left)

TicketNext ==
  \/ RestartTickets(ticket, {})
  \/ \E t \in Tickets :
       \/ PrepareTicket(t) \/ PrepareTicketAgain(t) \/ RestartPreparing(t, {})
       \/ RunTicket(t) \/ RunTicketEnds(t)
       \/ VerifyTicket(t) \/ VerifyTicketEnds(t)
       \/ \E verdict \in {"accept", "request_changes", "blocked"} :
            DecideTicket(t, verdict)
       \/ RecoverTicket(t) \/ RecoverTicketEnds(t) \/ EditTicket(t)

TicketSpec == TicketInit /\ [][TicketNext]_ticket
=============================================================================
