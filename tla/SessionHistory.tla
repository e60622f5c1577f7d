--------------------------- MODULE SessionHistory ---------------------------
(***************************************************************************)
(* The session histories on disk, composed with the controller.  A runner  *)
(* writes one below the run directory of its attempt; the attempt that     *)
(* resumes a session with an answer copies that of the blocked attempt     *)
(* before it; the prune action deletes those of old, clean attempts.       *)
(***************************************************************************)
EXTENDS Controller

VARIABLE
  home   \* per attempt: no history, one, or one of an attempt with endedAt

historyVars == <<vars, home>>

HasHistory(t, n) == home[t][n] # "none"

HistoryInit ==
  /\ Init
  /\ home = [t \in Tickets |-> [n \in AttemptIds |-> "none"]]

Resumes(t) ==
  Running(t, "runtime") /\ CurrentAttempt(record[t]).mode = "answer"

\* The runner creates its home.  An answer starts from a copy of the previous
\* attempt's history; without it the runner reports session_missing.
RunnerOpens(t) ==
  LET n == LastAttempt(record[t])
  IN /\ Running(t, "runtime") /\ HasProcesses(t, AttemptOp(n))
     /\ ~HasHistory(t, n)
     /\ Resumes(t) => HasHistory(t, n - 1)
     /\ home' = [home EXCEPT ![t][n] = "open"]
     /\ UNCHANGED vars

\* Fault: an active operation does not protect the attempts of its ticket.
AnyTicket(t) == t \in Tickets
\* prune skips tickets with an active operation.
Unowned(t) == ~Owned(record[t])

Disposable(t, n) ==
  LET r == record[t]
  IN /\ Unowned(t)
     /\ home[t][n] = "ended" /\ r.attempts[n].cleanExit
     /\ ~(r.pending.kind = "answer" /\ r.pending.attempt = n)
     /\ ~ /\ r.state = "blocked" /\ n = LastAttempt(r)
          /\ r.attempts[n].delivery = "blocked"

\* The retention period decides which attempts are old enough.
Prune ==
  /\ \E youngest \in [Tickets -> AttemptIds \union {0}] :
       home' = [t \in Tickets |-> [n \in AttemptIds |->
                  IF n <= youngest[t] /\ Disposable(t, n) THEN "none"
                                                          ELSE home[t][n]]]
  /\ UNCHANGED vars

\* What a step of the controller needs of the histories: recover and run look
\* for the one an answer continues, and only a session that exists can admit
\* a prompt.
FindsHistory(t) ==
  LET n == LastAttempt(record[t])
      starts == LastAttempt(record'[t]) > n
      asked == ~Live(t) /\ operations'[t].continuation = "answer"
  IN /\ asked \/ (starts /\ record[t].pending.kind = "answer")
          => HasHistory(t, n)
     /\ n > 0 =>
          (record'[t].attempts[n].receipt /\ ~CurrentAttempt(record[t]).receipt
             => HasHistory(t, n))

HistoryNext ==
  \/ Prune
  \/ \E t \in Tickets : RunnerOpens(t)
  \/ /\ Next
     /\ \A t \in Tickets : FindsHistory(t)
     \* attempt.settled writes endedAt
     /\ home' = [t \in Tickets |-> [n \in AttemptIds |->
                   IF Settle(t) /\ n = LastAttempt(record[t]) /\ HasHistory(t, n)
                   THEN "ended" ELSE home[t][n]]]

HistorySpec == HistoryInit /\ [][HistoryNext]_historyVars
=============================================================================
