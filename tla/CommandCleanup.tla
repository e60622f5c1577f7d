--------------------------- MODULE CommandCleanup ---------------------------
(***************************************************************************)
(* The processes of a list of commands that share one marker, as the setup *)
(* and verification commands of a ticket do: execute(), which runs one     *)
(* command, its scans of the process table, and the terminate() calls that *)
(* a timeout, a cancellation and the end of the command start.  Processes  *)
(* fork, lose their parents, drop the marker and die between any two reads *)
(* of a scan, and between the look at a process and the signal to its pid, *)
(* which somebody else may have got by then.                               *)
(***************************************************************************)
EXTENDS Integers, FiniteSets, Sequences

CONSTANTS
  ListLength,   \* commands of the list
  Descendants,  \* what processes of the first command may fork
  Strangers,    \* processes of somebody else
  Scans,        \* of a round of signals; the code has 20
  MaxEarly      \* bound: commands that run into their timeout, or are cancelled

Commands == 1 .. ListLength
Roots == {<<c, "root">> : c \in Commands}
OwnProcesses == Roots \union {<<1, d>> : d \in Descendants}
\* Each gets a pid that one of them had.
Others == {<<0, s>> : s \in Strangers}
Everyone == OwnProcesses \union Others
Init1 == <<0, "init">>
Nobody == <<0, "none">>

VARIABLES
  life,       \* per process: "unborn", "living" or "dead"
  parent,     \* who forked it, or init once that one is dead
  unmarked,   \* processes that have no marker in their environment
  reuses,     \* per process of somebody else: whose pid it has got
  doomed,     \* processes a signal will end
  command,    \* the command whose execute() is running; 0: none yet
  phase,      \* of execute(): "running", "exited", "ending", "idle",
              \* or "stopped"
  aborted,    \* the caller has cancelled
  early,      \* commands whose timeout or cancellation has fired
  known,      \* identities execute() has recorded
  polling,    \* the periodic scan: the table it read and what it knew
  scan,       \* what the event loop waits for: a synchronous scan between its
              \* two reads, or a round of signals; and whose it is
  fresh,      \* history: processes born since the table was last read for it
  closer,     \* per command: its two calls of terminate()
  timers,     \* calls that wait for their next scan, in the order they are due
  struck      \* history: whom the signal sent last has reached

osVars == <<life, parent, unmarked, reuses>>
jsVars == <<command, phase, aborted, early, known, polling, closer,
            timers>>
cleanupVars == <<osVars, doomed, jsVars, scan, fresh, struck>>

Living == {p \in Everyone : life[p] = "living"}
NoScan == [stage |-> "none"]
NotPolling == [on |-> FALSE]
Off == [state |-> "off", current |-> {}, left |-> 0]
Calls == Commands \X {"early", "final"}

CleanupInit ==
  /\ life = [p \in Everyone |-> "unborn"]
  /\ parent = [p \in Everyone |-> Init1]
  /\ unmarked = {} /\ reuses = [p \in Others |-> Nobody] /\ doomed = {}
  /\ command = 0 /\ phase = "idle" /\ aborted = FALSE /\ early = {}
  /\ known = {} /\ polling = NotPolling
  /\ scan = NoScan /\ fresh = {} /\ struck = {}
  /\ closer = [c \in Calls |-> Off] /\ timers = << >>

-----------------------------------------------------------------------------
(***************************************************************************)
(* The operating system, at any moment.                                    *)
(***************************************************************************)
\* A descendant may be started without the marker; its own then lack it too.
Fork(p, q) ==
  /\ life[p] = "living" /\ p \in OwnProcesses /\ p[1] = 1
  /\ q \in OwnProcesses \ Roots /\ life[q] = "unborn"
  /\ life' = [life EXCEPT ![q] = "living"]
  /\ parent' = [parent EXCEPT ![q] = p]
  /\ unmarked' \in {unmarked, unmarked \union {q}}
  /\ p \in unmarked => q \in unmarked'
  /\ fresh' = IF scan = NoScan THEN fresh ELSE fresh \union {q}
  /\ UNCHANGED <<reuses, doomed, jsVars, scan, struck>>

\* Its children are init's now.
End(p) ==
  /\ life[p] = "living"
  /\ life' = [life EXCEPT ![p] = "dead"]
  /\ parent' = [q \in Everyone |-> IF parent[q] = p THEN Init1 ELSE parent[q]]
  /\ doomed' = doomed \ {p}
  /\ UNCHANGED <<unmarked, reuses, jsVars, scan, fresh, struck>>

\* Who has the pid of p.
Holders(p) == {q \in Living : q = p \/ (q \in Others /\ reuses[q] = p)}

\* Node reaps the root as it reports the exit; of a descendant, its parent or
\* init may do so at any moment.
Reaped(p) ==
  life[p] = "dead" /\ ~(p = <<command, "root">> /\ phase = "running")

PidReused(p, q) ==
  /\ p \in Others /\ life[p] = "unborn"
  /\ q \in OwnProcesses /\ Reaped(q) /\ Holders(q) = {}
  /\ life' = [life EXCEPT ![p] = "living"]
  /\ unmarked' = unmarked \union {p}
  /\ reuses' = [reuses EXCEPT ![p] = q]
  /\ fresh' = IF scan = NoScan THEN fresh ELSE fresh \union {p}
  /\ UNCHANGED <<parent, doomed, jsVars, scan, struck>>

-----------------------------------------------------------------------------
(***************************************************************************)
(* discover(): first the table of processes, then the environment of each. *)
(***************************************************************************)
Table == [of |-> Living, parent |-> parent]

\* Fault: what earlier scans found is not looked for again.
FoundByMarker(table, before) ==
  {p \in table.of : p \in Living \ unmarked}
FoundFirst(table, before) ==
  {p \in table.of : p \in before \/ p \in Living \ unmarked}

\* Whatever descends from them by the table.
Offspring(table, S) == S \union {p \in table.of : table.parent[p] \in S}
Found(table, before) ==
  LET f == FoundFirst(table, before)
  IN Offspring(table, Offspring(table, Offspring(table, f)))

\* The event loop waits for a synchronous scan, and for the first one of a
\* terminate() that was just called.
Turn == scan = NoScan /\ \A c \in Calls : closer[c].state # "starting"

\* All delays between scans are equal: they end in the order they began.
ReadTable(c) ==
  /\ scan = NoScan
  /\ \/ closer[c].state = "starting" /\ UNCHANGED timers
     \/ Turn /\ timers # << >> /\ Head(timers) = c /\ timers' = Tail(timers)
  /\ scan' = [stage |-> "reading", by |-> c, table |-> Table]
  /\ fresh' = {} /\ struck' = {}
  /\ UNCHANGED <<osVars, doomed, command, phase, aborted, early, known,
                 polling, closer>>

(***************************************************************************)
(* terminate(): a signal to each process found, scans while they end, then *)
(* the stronger signal.                                                    *)
(***************************************************************************)
Enters(c, s, found) ==
  /\ closer' = [closer EXCEPT ![c] = [state |-> s, current |-> found,
                                      left |-> Scans]]
  /\ timers' = IF s \in {"term", "kill"} THEN Append(timers, c) ELSE timers

ScansAgain(c, found) ==
  /\ closer' = [closer EXCEPT ![c].current = found, ![c].left = @ - 1]
  /\ timers' = Append(timers, c)

StartsSignals(c, found) ==
  /\ scan' = [stage |-> "signals", by |-> c, todo |-> found, aim |-> Nobody]
  /\ closer' = [closer EXCEPT ![c].current = found]
  /\ UNCHANGED timers

\* The second read, and what follows from it without giving way.
ReadMarkers(c) ==
  LET found == Found(scan.table, closer[c].current)
      over == found # {} /\ closer[c].left = 1
      state == closer[c].state
  IN /\ scan.stage = "reading" /\ scan.by = c
     /\ \/ /\ state = "starting" \/ (state = "term" /\ over)
           /\ StartsSignals(c, found)
        \/ /\ scan' = NoScan
           /\ \/ state # "starting" /\ found = {} /\ Enters(c, "gone", {})
              \/ /\ state # "starting" /\ found # {} /\ ~over
                 /\ ScansAgain(c, found)
              \/ state = "kill" /\ over /\ Enters(c, "remain", found)
     /\ fresh' = {} /\ struck' = {}
     /\ UNCHANGED <<osVars, doomed, command, phase, aborted, early, known,
                    polling>>

Signalling(c) == scan.stage = "signals" /\ scan.by = c

\* Fault: a process is known by its pid alone.
AliveByPid(p) == Holders(p) # {}
\* alive(): the start time is compared as well.
Alive(p) == p \in Holders(p)

\* It reads the table once more for each process.
CheckAlive(c) ==
  /\ Signalling(c) /\ scan.aim = Nobody
  /\ \E p \in scan.todo :
       scan' = [scan EXCEPT !.todo = @ \ {p},
                            !.aim = IF Alive(p) THEN p ELSE Nobody]
  /\ fresh' = {} /\ struck' = {}
  /\ UNCHANGED <<osVars, doomed, jsVars>>

\* Fault: the second round sends the first signal again.
NeverCertain(c) == FALSE
Certain(c) == closer[c].state = "term"

\* The signal goes to whoever has the pid by now; there may be nobody.
Kill(c) ==
  /\ Signalling(c) /\ scan.aim # Nobody
  /\ struck' = Holders(scan.aim)
  /\ doomed' \in IF Certain(c) THEN {doomed \union struck'}
                 ELSE {doomed \union S : S \in SUBSET struck'}
  /\ scan' = [scan EXCEPT !.aim = Nobody]
  /\ UNCHANGED <<osVars, jsVars, fresh>>

SignalsEnd(c) ==
  /\ Signalling(c) /\ scan.aim = Nobody /\ scan.todo = {}
  /\ scan' = NoScan /\ fresh' = {} /\ struck' = {}
  /\ Enters(c, IF closer[c].state = "starting" THEN "term" ELSE "kill",
            closer[c].current)
  /\ UNCHANGED <<osVars, doomed, command, phase, aborted, early, known,
                 polling>>

(***************************************************************************)
(* execute(), once per command of the list.                                *)
(***************************************************************************)
\* The next command is spawned and its root recorded.
Spawn ==
  /\ Turn /\ phase = "idle" /\ ~aborted /\ command + 1 \in Commands
  /\ command' = command + 1 /\ phase' = "running"
  /\ LET root == <<command', "root">>
     IN /\ life' = [life EXCEPT ![root] = "living"]
        /\ known' = Found([of |-> Living \union {root}, parent |-> parent],
                          {root})
  /\ UNCHANGED <<parent, unmarked, reuses, doomed, aborted, early, polling,
                 scan, fresh, closer, timers, struck>>

PollStarts ==
  /\ Turn /\ phase = "running" /\ polling = NotPolling
  /\ polling' = [on |-> TRUE, table |-> Table, known |-> known]
  /\ UNCHANGED <<osVars, doomed, command, phase, aborted, early, known, scan,
                 fresh, closer, timers, struck>>

PollEnds ==
  /\ Turn /\ polling # NotPolling
  /\ known' = Found(polling.table, polling.known)
  /\ polling' = NotPolling
  /\ UNCHANGED <<osVars, doomed, command, phase, aborted, early, scan, fresh,
                 closer, timers, struck>>

\* A timeout or a cancellation calls terminate() and does not wait for it.
Expires ==
  /\ Turn /\ phase = "running"
  /\ command \notin early /\ Cardinality(early) < MaxEarly
  /\ early' = early \union {command}
  /\ aborted' \in BOOLEAN
  /\ Enters(<<command, "early">>, "starting", known)
  /\ UNCHANGED <<osVars, doomed, command, phase, known, polling, scan, fresh,
                 struck>>

\* The root has exited: no timeout and no further periodic scan starts.
Exits ==
  /\ Turn /\ phase = "running" /\ life[<<command, "root">>] = "dead"
  /\ phase' = "exited"
  /\ UNCHANGED <<osVars, doomed, command, aborted, early, known, polling, scan,
                 fresh, closer, timers, struck>>

\* The last periodic scan has ended as well.
CleansUp ==
  /\ Turn /\ phase = "exited" /\ polling = NotPolling
  /\ phase' = "ending"
  /\ Enters(<<command, "final">>, "starting", known)
  /\ UNCHANGED <<osVars, doomed, command, aborted, early, known, polling, scan,
                 fresh, struck>>

\* The list stops where something remains; otherwise it goes on when the output
\* is closed, which a process that lives on may have done or not.
Final == IF command = 0 THEN Off ELSE closer[<<command, "final">>]
Remains == Final.state = "remain"
OutputClosed == \A p \in Living : p[1] # command

Settles ==
  /\ Turn /\ phase = "ending"
  /\ Final.state \in {"gone", "remain"}
  /\ phase' = IF Remains THEN "stopped" ELSE "idle"
  /\ UNCHANGED <<osVars, doomed, command, aborted, early, known, polling, scan,
                 fresh, closer, timers, struck>>

CloserStep(c) ==
  ReadTable(c) \/ ReadMarkers(c) \/ CheckAlive(c) \/ Kill(c) \/ SignalsEnd(c)
ExecuteStep == PollEnds \/ Exits \/ CleansUp \/ Settles

CleanupNext ==
  \/ \E p, q \in OwnProcesses : Fork(p, q)
  \/ \E p \in Everyone : End(p)
  \/ \E p \in Others, q \in OwnProcesses : PidReused(p, q)
  \/ \E c \in Calls : CloserStep(c)
  \/ ExecuteStep \/ Spawn \/ PollStarts \/ Expires

CleanupSpec == CleanupInit /\ [][CleanupNext]_cleanupVars

\* A process that has got the last signal ends; delays, scans and events come.
CleanupFairness ==
  /\ \A p \in Everyone : WF_cleanupVars(p \in doomed /\ End(p))
  /\ WF_cleanupVars(\E c \in Calls : CloserStep(c))
  /\ WF_cleanupVars(PollEnds) /\ WF_cleanupVars(Exits \/ CleansUp)
  /\ WF_cleanupVars((Remains \/ OutputClosed) /\ Settles)
=============================================================================
