----------------------- MODULE ReviewQueueProperties -----------------------
(***************************************************************************)
(* What the review coordinator guarantees.                                 *)
(***************************************************************************)
EXTENDS ReviewQueue

-----------------------------------------------------------------------------
(***************************************************************************)
(* Ownership.                                                              *)
(***************************************************************************)
\* A review's slot and its ticket's activeOperation are two records of one
\* fact, whatever crashes, recoveries or cancellations race: a slot is held
\* exactly by the run that owns the ticket, and a run with living processes
\* holds its slot.
SlotIsOwnership ==
  /\ \A e \in DOMAIN entries :
       /\ entries[e].slotHeld <=> OwnedByReview(e)
       /\ e \in processes => entries[e].slotHeld
  /\ \A t \in Tickets :
       ticket[t].owner.kind = "review" =>
         \E e \in DOMAIN entries : entries[e].slotHeld /\ entries[e].ticket = t

\* While a review holds its slot, its ticket stays at the reviewed revision
\* and attempt, awaiting review: no rework, verification, decision or
\* recovery of the ticket passes it, not even across a restart.
ReviewedStaysPut ==
  \A e \in DOMAIN entries :
    entries[e].slotHeld =>
      LET r == ticket[entries[e].ticket]
      IN /\ r.state = "awaiting_review"
         /\ r.revision = entries[e].revision
         /\ r.attempt = entries[e].attempt

\* Reviews, operations and fenced tickets share one service capacity.
CapacityShared == Cardinality(Busy) <= Capacity

\* A pool never has more reviewers than its effective limit, while limits
\* change and drain.
ReviewLimitHolds ==
  \A p \in Pools : Cardinality(ReviewOwned(p)) <= pools[p].limit

\* A closed pool stays quiet: no review of it is queued or holds a slot, and
\* no ticket bound to it is executed or verified.
ClosedPoolQuiet ==
  \A p \in Pools :
    pools[p].state = "closed" =>
      /\ \A e \in DOMAIN entries :
           IsReview(e) /\ entries[e].pool = p =>
             ~IsQueued(e) /\ ~entries[e].slotHeld
      /\ \A t \in Tickets :
           binding[t] = p =>
             ticket[t].owner.kind \notin {"attempt", "verification"}

-----------------------------------------------------------------------------
(***************************************************************************)
(* The queue.                                                              *)
(***************************************************************************)
IsCurrent(e) == entries[e].revision = ticket[entries[e].ticket].revision
\* Work that could start this moment.
Startable == {e \in Executable : HasCapacity}

\* No lost wake-up: whenever an entry of its ticket's current revision could
\* start, a pump is on its way.
NoLostWakeup ==
  (\E e \in Startable : IsCurrent(e)) => pump # "idle"

\* An entry that has left the queue never returns to it, ends once, and a
\* slot once released is not held again: nothing is dispatched twice.
SettledIsFinal ==
  [][\A e \in DOMAIN entries :
       LET old == entries[e]
           new == entries'[e]
       IN /\ old.state # "queued" => new.state # "queued"
          /\ old.state # "queued" /\ ~old.slotHeld =>
               new.state = old.state /\ ~new.slotHeld
          /\ old.report # "none" => new.report = old.report]_vars

\* Whatever starts an execution, a verification or a review of a ticket, no
\* older executable entry is left waiting: a direct call finds none at all,
\* the pump takes the first.
NoOvertaking ==
  [][\A t \in Tickets :
       /\ ~Owned(t)
       /\ ticket'[t].owner.kind \in {"attempt", "verification", "review"}
       => \/ Executable = {}
          \/ \E e \in Executable :
               /\ entries[e].ticket = t
               /\ entries'[e].state \in {"running", "started"}
               /\ \A f \in Executable : e <= f]_vars

\* An entry does not stay startable for ever: the pump gets to it.
QueueDrains ==
  \A e \in Runs :
    []<>~(e \in DOMAIN entries /\ e \in Startable /\ IsCurrent(e))

-----------------------------------------------------------------------------
(***************************************************************************)
(* Acceptance.                                                             *)
(***************************************************************************)
\* A ticket bound to a pool is accepted only on the conclusive report of a
\* completed review, released, of the very revision and attempt accepted,
\* and that stays so as long as the acceptance stands.
AcceptedOnReport ==
  \A t \in Tickets :
    ticket[t].state = "accepted" /\ binding[t] # NoPool =>
      \E e \in DOMAIN entries :
        /\ entries[e].kind = "review" /\ entries[e].ticket = t
        /\ entries[e].revision = ticket[t].revision
        /\ entries[e].attempt = ticket[t].attempt
        /\ entries[e].state = "completed" /\ ~entries[e].slotHeld
        /\ entries[e].report = "conclusive"

=============================================================================
