---------------------- MODULE RuntimeSessionProperties ----------------------
(***************************************************************************)
(* What the controller may rely on when it calls a runtime.                *)
(***************************************************************************)
EXTENDS RuntimeSession

\* The session keeps the contract the controller is written against, whatever
\* the order of messages, timers, signals and deaths: a receipt is proof that
\* the harness took the text, none is left waiting when execute() resolves, and
\* a clean result means that no process of the attempt is left.
Contract == INSTANCE RuntimeContract WITH
  status <- CASE phase = "idle" -> "idle"
              [] phase \in {"waiting", "exited"} -> "open"
              [] phase = "returned" -> "ended"
              [] phase = "dead" -> "lost",
  living <- Alive,
  result <- IF result = NoResult THEN "none"
            ELSE IF result.clean THEN "clean" ELSE "unclean"
ImplementsContract == Contract!Spec

\* The termination of an attempt is true.  "completed" is earned: the runner was
\* let go, its run succeeded, it closed the harness and exited by itself.  And
\* no abort gets lost, whether it comes before execute(), before the runner is
\* ready or during the run.
TerminationIsTrue ==
  /\ result # NoResult /\ result.termination = "completed" =>
       /\ started /\ ~runFailed
       /\ runner = "exited" /\ "harness" \notin others
  /\ phase = "waiting" /\ started /\ aborted => termination # "completed"

\* What the controller takes for granted when it settles an attempt: once
\* execute() has resolved no instruction is waiting for its receipt, a received
\* one was taken by the harness, and a clean result leaves no process, however
\* long ago it came and whatever was in flight.
ResolvedIsSettled ==
  phase = "returned" =>
    /\ Waiting = {} /\ result # NoResult
    /\ \A i \in Instructions : receipt[i] = "received" => i \in taken
    /\ result.clean => Alive = {}

\* A receipt is final: an answer that comes after the timer, after the exit or a
\* second time changes nothing.
ReceiptsFinal ==
  [][\A i \in Instructions :
       receipt[i] \in {"received", "rejected"} => receipt'[i] = receipt[i]]_vars

\* execute() always ends, even if the runner hangs, the scan fails or nothing
\* answers: the deadline comes and the watchdog kills.  The one exception is a
\* terminate() that throws, which the watchdog does not repeat.
ExecuteEnds ==
  (phase = "waiting") ~> (phase # "waiting" \/ watch = "failed")

\* A runner that loses its service ends by itself, unless it had just reported
\* a harness that it cannot close.
OrphanEnds ==
  (phase = "dead") ~>
    (runner \in Gone \/ (runner = "reported" /\ "harness" \in others))

=============================================================================
