---------------------------- MODULE MCReviewQueue ----------------------------
(***************************************************************************)
(* Small instances of the review coordinator for TLC.                      *)
(***************************************************************************)
EXTENDS ReviewQueueProperties, TLC

TicketSymmetry == Permutations(Tickets)

(***************************************************************************)
(* Where two tickets are needed, behaviours start after the requests that  *)
(* every one of them begins with: configure the pool, prepare both tickets *)
(* in it and, for the second specification, run both to a delivery.        *)
(***************************************************************************)
AtWork(r, limit) ==
  /\ ticket = [t \in Tickets |-> r]
  /\ binding \in [Tickets -> Pools]
  /\ pools = [p \in Pools |->
                [state |-> "enabled", limit |-> limit, pending |-> 0]]
  /\ entries = << >>
  /\ reviewing = [e \in Runs |-> NotReviewing]
  /\ processes = {}
  /\ recovering = [e \in Runs |-> 0]
  /\ pump = "idle"

PreparedTicket == [NoTicket EXCEPT !.state = "ready", !.revision = 1]
DeliveredTicket == [PreparedTicket EXCEPT !.state = "awaiting_review",
                                          !.attempt = 1, !.unchanged = TRUE]

PreparedSpec ==
  (\E limit \in Limits : AtWork(PreparedTicket, limit)) /\ [][Next]_vars
DeliveredSpec ==
  (\E limit \in Limits : AtWork(DeliveredTicket, limit)) /\ [][Next]_vars

\* Behaviours end when a ticket leaves review: nothing of it is reviewed then.
InReview == \A t \in Tickets : ticket[t].state = "awaiting_review"
=============================================================================
