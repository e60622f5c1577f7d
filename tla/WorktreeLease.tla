---------------------------- MODULE WorktreeLease ----------------------------
(***************************************************************************)
(* What the controller promises about the worktree of a ticket, without    *)
(* saying how: somebody holds a lease on it whenever a process may write   *)
(* to it, at most Capacity leases exist, a crash turns leases into fences  *)
(* that keep counting, and a fence is lifted only by a recovery that saw   *)
(* the last process leave and started none of its own.                     *)
(***************************************************************************)
EXTENDS Integers, FiniteSets

CONSTANTS Tickets, Capacity

VARIABLES
  lease,     \* "free", "live", "fenced" or "recovering"
  occupied   \* some process may write to the worktree

leaseVars == <<lease, occupied>>

Held == {t \in Tickets : lease[t] # "free"}
Grant(t, to) == lease' = [lease EXCEPT ![t] = to]

Init ==
  /\ lease = [t \in Tickets |-> "free"]
  /\ occupied = [t \in Tickets |-> FALSE]

\* A new operation: needs a slot, finds nobody in the worktree.
Acquire(t, to) ==
  /\ lease[t] = "free" /\ ~occupied[t]
  /\ Cardinality(Held) < Capacity
  /\ Grant(t, to)
  /\ \/ UNCHANGED occupied
     \/ to = "live" /\ occupied' = [occupied EXCEPT ![t] = TRUE]

\* A live operation starts a process.
Occupy(t) ==
  /\ lease[t] = "live"
  /\ occupied' = [occupied EXCEPT ![t] = TRUE]
  /\ UNCHANGED lease

Vacate(t) ==
  /\ occupied' = [occupied EXCEPT ![t] = FALSE]
  /\ UNCHANGED lease

\* Done, and every process is accounted for.
Release(t) ==
  /\ lease[t] \in {"live", "recovering"} /\ ~occupied[t]
  /\ Grant(t, "free")
  /\ UNCHANGED occupied

\* The operation ended without that proof.
Abandon(t) ==
  /\ lease[t] \in {"live", "recovering"}
  /\ Grant(t, "fenced")
  /\ UNCHANGED occupied

Reclaim(t) ==
  /\ lease[t] = "fenced"
  /\ Grant(t, "recovering")
  /\ UNCHANGED occupied

Crash ==
  /\ lease' = [t \in Tickets |-> IF lease[t] = "free" THEN "free" ELSE "fenced"]
  /\ UNCHANGED occupied

Next ==
  \/ Crash
  \/ \E t \in Tickets :
       \/ \E to \in {"live", "recovering"} : Acquire(t, to)
       \/ Occupy(t) \/ Vacate(t) \/ Release(t) \/ Abandon(t) \/ Reclaim(t)

Spec == Init /\ [][Next]_leaseVars
=============================================================================
