--------------------------- MODULE RuntimeContract ---------------------------
(***************************************************************************)
(* What a runtime promises the controller that calls execute() once and    *)
(* instruct() while it runs: every instruction settles exactly once and is *)
(* received only if the session took it; a result comes last, and a clean  *)
(* one means that no process of the attempt is left.  After the service    *)
(* dies nothing is promised but that nothing new starts.                   *)
(***************************************************************************)
EXTENDS FiniteSets

CONSTANTS Instructions, Processes

VARIABLES
  status,    \* "idle", "open", "ended" or "lost"
  receipt,   \* per instruction: "none", "waiting", "received" or "rejected"
  taken,     \* instructions the session has taken
  living,    \* processes of the attempt
  result     \* "none", "clean" or "unclean"

contractVars == <<status, receipt, taken, living, result>>

Waiting == {i \in Instructions : receipt[i] = "waiting"}
Reject(S) == receipt' = [i \in Instructions |->
                           IF i \in S THEN "rejected" ELSE receipt[i]]

Init ==
  /\ status = "idle" /\ result = "none"
  /\ receipt = [i \in Instructions |-> "none"]
  /\ taken = {} /\ living = {}

Begin ==
  /\ status = "idle"
  /\ status' = "open"
  /\ living' \in SUBSET Processes
  /\ UNCHANGED <<receipt, taken, result>>

\* An instruction is asked for once; it waits, or is refused outright.
Ask(i) ==
  /\ receipt[i] = "none" /\ status # "lost"
  /\ \/ status = "open" /\ receipt' = [receipt EXCEPT ![i] = "waiting"]
     \/ receipt' = [receipt EXCEPT ![i] = "rejected"]
  /\ UNCHANGED <<status, taken, living, result>>

\* The session may take what was asked even after nobody waits for it.
Take(i) ==
  /\ receipt[i] \in {"waiting", "rejected"} /\ living # {}
  /\ taken' = taken \union {i}
  /\ UNCHANGED <<status, receipt, living, result>>

Confirm(i) ==
  /\ receipt[i] = "waiting" /\ i \in taken
  /\ receipt' = [receipt EXCEPT ![i] = "received"]
  /\ UNCHANGED <<status, taken, living, result>>

Abandon ==
  /\ \E S \in SUBSET Waiting : Reject(S)
  /\ UNCHANGED <<status, taken, living, result>>

\* Processes of the attempt come from processes of the attempt.
Change ==
  /\ living # {}
  /\ living' \in SUBSET Processes
  /\ UNCHANGED <<status, receipt, taken, result>>

Return(r) ==
  /\ status = "open" /\ Waiting = {}
  /\ status' = "ended"
  /\ living' \in SUBSET living
  /\ r = "clean" => living' = {}
  /\ result' = r
  /\ UNCHANGED <<receipt, taken>>

Lose ==
  /\ status # "lost"
  /\ status' = "lost"
  /\ UNCHANGED <<receipt, taken, living, result>>

Next ==
  \/ Begin \/ Abandon \/ Change \/ Lose
  \/ \E i \in Instructions : Ask(i) \/ Take(i) \/ Confirm(i)
  \/ \E r \in {"clean", "unclean"} : Return(r)

Spec == Init /\ [][Next]_contractVars
=============================================================================
