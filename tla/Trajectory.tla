------------------------------ MODULE Trajectory ------------------------------
(***************************************************************************)
(* What is shown of the execution of one ticket.  The server folds the     *)
(* journal into the activity of its agents, from where it had stopped or,  *)
(* after a restart, from the beginning; it answers pages of the journal.   *)
(* The panel of the workbench keeps a window of the last entries it has    *)
(* loaded.                                                                 *)
(***************************************************************************)
EXTENDS Integers, Sequences

CONSTANTS
  Limit,        \* entries of a page
  Window,       \* entries the panel keeps
  MaxRuns,  \* bound
  MaxLog     \* bound: events of the journal

VARIABLES
  attempts,     \* session, endedAt and cleanExit of each
  interrupted,  \* the record's state is "interrupted"
  log,          \* the journal of the ticket
  agents,       \* the projection: how far it has read, and the agents it has
  panel         \* the panel: its cursor and window, and its request in flight

trajectoryVars == <<attempts, interrupted, log, agents, panel>>

-----------------------------------------------------------------------------
(***************************************************************************)
(* Executions.  A resumed session goes by the id it had in the attempt     *)
(* that is continued.                                                      *)
(***************************************************************************)
Worker(n) == <<n, "worker">>
Child(n) == <<n, "child">>
Sessions == (1 .. MaxRuns) \X {"worker", "child"}
Notifications == {"running", "idle", "started", "finished"}

Control == [kind |-> "control", session |-> Worker(1)]
Logs(e) == Len(log) < MaxLog /\ log' = Append(log, e)

Latest == attempts[Len(attempts)]
Live == attempts # << >> /\ ~Latest.ended /\ ~Latest.clean /\ ~interrupted

Start ==
  /\ Len(attempts) < MaxRuns /\ ~Live /\ ~interrupted
  /\ \E session \in {Len(attempts) + 1} \union
                    {attempts[n].session : n \in {Len(attempts)} \ {0}} :
       /\ session <= Len(attempts) => Latest.ended /\ Latest.clean
       /\ attempts' = Append(attempts, [session |-> session, ended |-> FALSE,
                                        clean |-> FALSE])
  /\ Logs(Control)
  /\ UNCHANGED <<interrupted, agents, panel>>

\* A notification of the runtime, or the processes of the attempt.
Happens ==
  /\ Live
  /\ \E kind \in Notifications \union {"processes"} :
       \E s \in {Worker(Latest.session), Child(Latest.session)} :
         /\ kind \in {"started", "finished"} => s = Child(Latest.session)
         /\ Logs([kind |-> kind, session |-> s])
  /\ UNCHANGED <<attempts, interrupted, agents, panel>>

\* attempt.settled, or attempt.failed which writes no endedAt.
Ends ==
  /\ Live
  /\ \/ \E clean \in BOOLEAN :
          /\ attempts' = [attempts EXCEPT ![Len(attempts)].ended = TRUE,
                                          ![Len(attempts)].clean = clean]
          /\ interrupted' = ~clean
     \/ interrupted' = TRUE /\ UNCHANGED attempts
  /\ Logs(Control)
  /\ UNCHANGED <<agents, panel>>

\* ticket.recovered
Recover ==
  /\ interrupted
  /\ interrupted' = FALSE
  /\ attempts' = [n \in DOMAIN attempts |-> [attempts[n] EXCEPT !.clean = TRUE]]
  /\ Logs(Control)
  /\ UNCHANGED <<agents, panel>>

-----------------------------------------------------------------------------
(***************************************************************************)
(* The projection.                                                         *)
(***************************************************************************)
Absent == [attempt |-> 0, status |-> "absent"]
Fresh == [cursor |-> 0, known |-> [s \in Sessions |-> Absent]]

\* Fault: each reading registers every session again.
RegisteredAgain(known) ==
  [s \in Sessions |->
     IF \E n \in DOMAIN attempts : Worker(attempts[n].session) = s
     THEN [attempt |-> CHOOSE n \in DOMAIN attempts :
                         /\ Worker(attempts[n].session) = s
                         /\ \A m \in 1 .. n - 1 : attempts[m].session # s[1],
           status |-> "unknown"]
     ELSE known[s]]
\* A session is registered for the first attempt that has it.
Registered(known) ==
  [s \in Sessions |->
     IF known[s] = Absent THEN RegisteredAgain(known)[s] ELSE known[s]]

Parent(s) == Worker(s[1])

Follow(known, e) ==
  IF e.kind = "started" /\ known[Parent(e.session)] # Absent
    THEN [known EXCEPT ![e.session] =
            [attempt |-> known[Parent(e.session)].attempt, status |-> "running"]]
  ELSE IF e.kind \in Notifications \ {"started"} /\ known[e.session] # Absent
    THEN [known EXCEPT ![e.session].status =
            IF e.kind = "finished" THEN "ended" ELSE e.kind]
  ELSE known

CaughtUp(projection) ==
  LET known[k \in projection.cursor .. Len(log)] ==
        IF k = projection.cursor THEN Registered(projection.known)
                                 ELSE Follow(known[k - 1], log[k])
  IN [cursor |-> Len(log), known |-> known[Len(log)]]

\* What a card says of an agent.
Label(agent) ==
  LET a == attempts[agent.attempt]
  IN IF a.ended THEN IF a.clean THEN "ended" ELSE "interrupted"
     ELSE IF interrupted THEN "interrupted"
     ELSE agent.status

-----------------------------------------------------------------------------
(***************************************************************************)
(* Pages.                                                                  *)
(***************************************************************************)
Visible == {k \in DOMAIN log : log[k].kind # "processes"}
\* The members of s that are in T, as they come.
Among(s, T) ==
  LET kept[n \in 0 .. Len(s)] ==
        IF n = 0 THEN << >>
        ELSE IF s[n] \in T THEN Append(kept[n - 1], s[n]) ELSE kept[n - 1]
  IN kept[Len(s)]

Between(after, upto) ==
  Among([k \in 1 .. upto |-> k], {k \in Visible : k > after})
Rows(after, limit) ==
  LET next == Between(after, Len(log))
  IN SubSeq(next, 1, IF Len(next) < limit THEN Len(next) ELSE limit)

\* One row more than the page has is read.
RowsScanned(after) == Rows(after, Limit + 1)

Page(after) ==
  LET rows == RowsScanned(after)
      page == SubSeq(rows, 1, IF Len(rows) > Limit THEN Limit ELSE Len(rows))
  IN [entries |-> page,
      cursor |-> IF page = << >> THEN after ELSE page[Len(page)],
      more |-> Len(rows) > Limit]

AllKinds == Notifications \union {"control"}

\* The activity alone is read: by the dashboard, or by a panel that has more.
ActivityRead ==
  /\ agents' = CaughtUp(agents)
  /\ UNCHANGED <<attempts, interrupted, log, panel>>

(***************************************************************************)
(* The panel.                                                              *)
(***************************************************************************)
NoPage == [entries |-> << >>, cursor |-> 0, more |-> FALSE]
Asks == panel' = [panel EXCEPT !.request = "asked"]

\* The dialog is opened.
Mount ==
  /\ panel.request = "unmounted"
  /\ Asks
  /\ UNCHANGED <<attempts, interrupted, log, agents>>

\* Each second, unless the last page said that there is more.
Tick ==
  /\ panel.request = "none" /\ ~panel.more
  /\ Asks
  /\ UNCHANGED <<attempts, interrupted, log, agents>>

LoadMore ==
  /\ panel.request = "none" /\ panel.more
  /\ Asks
  /\ UNCHANGED <<attempts, interrupted, log, agents>>

\* Fault: a page in flight does not keep the reader from starting again.
RestartsAnyTime == panel.request # "unmounted"
MayStartAgain == panel.request = "none"

StartAgain ==
  /\ MayStartAgain
  /\ panel' = [panel EXCEPT !.cursor = 0, !.entries = << >>,
                            !.request = IF @ = "none" THEN "asked" ELSE @]
  /\ UNCHANGED <<attempts, interrupted, log, agents>>

PanelAnswered ==
  /\ panel.request = "asked"
  /\ panel' = [panel EXCEPT !.request = "answered",
                            !.page = Page(panel.cursor)]
  /\ agents' = CaughtUp(agents)
  /\ UNCHANGED <<attempts, interrupted, log>>

PanelShows ==
  /\ panel.request = "answered"
  /\ LET new == Among(panel.page.entries, {k \in DOMAIN log : k > panel.cursor})
         all == panel.entries \o new
     IN panel' = [cursor |-> panel.page.cursor, more |-> panel.page.more,
                  entries |-> SubSeq(all, IF Len(all) > Window
                                          THEN Len(all) - Window + 1 ELSE 1,
                                     Len(all)),
                  request |-> "none", page |-> NoPage]
  /\ UNCHANGED <<attempts, interrupted, log, agents>>

\* Fault: only a page that arrives frees the panel for the next request.
StillBusy == "answering"
Freed == "none"

PanelFails ==
  /\ panel.request \in {"asked", "answered"}
  /\ panel' = [panel EXCEPT !.request = Freed, !.page = NoPage]
  /\ UNCHANGED <<attempts, interrupted, log, agents>>

\* The projection is lost, and a live operation fenced by the next service.
ServiceRestarts ==
  /\ agents' = Fresh
  /\ IF Live THEN interrupted' = TRUE /\ Logs(Control)
             ELSE UNCHANGED <<interrupted, log>>
  /\ panel' = IF panel.request = "asked"
                THEN [panel EXCEPT !.request = "none"] ELSE panel
  /\ UNCHANGED <<attempts>>

TrajectoryInit ==
  /\ attempts = << >> /\ interrupted = FALSE /\ log = << >> /\ agents = Fresh
  /\ panel = [cursor |-> 0, entries |-> << >>, more |-> FALSE,
              request |-> "unmounted", page |-> NoPage]

TrajectoryNext ==
  \/ Start \/ Happens \/ Ends \/ Recover \/ ServiceRestarts
  \/ ActivityRead
  \/ Mount \/ Tick \/ LoadMore \/ StartAgain \/ PanelAnswered \/ PanelShows \/ PanelFails

TrajectorySpec == TrajectoryInit /\ [][TrajectoryNext]_trajectoryVars

\* The panel's timer fires, and its requests are answered but for some.
TrajectoryFairness ==
  /\ WF_trajectoryVars(Tick)
  /\ SF_trajectoryVars(PanelAnswered) /\ SF_trajectoryVars(PanelShows)
=============================================================================
