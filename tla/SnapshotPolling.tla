-------------------------- MODULE SnapshotPolling --------------------------
(***************************************************************************)
(* Polling the status of one ticket: Controller.pollStatus() and the       *)
(* SnapshotReader that captures the worktree in a worker thread, shares    *)
(* one capture among readers, caches it for a while and replaces a worker  *)
(* that dies.  Between its question and its answer a poll gives way to     *)
(* everything else: saves of the record, edits, deaths, other polls.       *)
(***************************************************************************)
EXTENDS Integers, FiniteSets, Sequences

CONSTANTS
  Polls,      \* each asks once
  Contents,   \* what the worktree may hold
  MaxSaves,   \* bound: transactions of the ticket
  MaxDeaths   \* bound: worker threads that die

VARIABLES
  version,    \* updatedAt of the record: every save gives another
  settled,    \* the record is in a state whose freshness is polled
  tree,       \* content of the worktree
  sinceSave,  \* history: contents the worktree had since the last save
  poll,       \* per poll: where it is, what it read, what it waits for
  cache,      \* the ticket's cache entry
  requests,   \* every request ever posted, by its number
  worker,     \* the current worker, 0 if none
  alive,      \* living workers
  replies,    \* numbers of requests answered but not yet handled
  deaths,     \* "error" and "exit" events not yet handled
  workers,    \* workers started so far
  terminating, \* the worker close() has terminated, 0 if none
  closed      \* close() is over, and so is the store

recordVars == <<version, settled, tree, sinceSave>>
readerVars == <<cache, requests, worker, alive, replies, deaths, workers>>
pollingVars == <<recordVars, poll, readerVars, terminating, closed>>

Idle == [stage |-> "idle"]
NoEntry == [key |-> -1]

PollingInit ==
  /\ version = 0 /\ settled \in BOOLEAN
  /\ tree \in Contents /\ sinceSave = {tree}
  /\ poll = [p \in Polls |-> Idle]
  /\ cache = NoEntry /\ requests = << >> /\ worker = 0 /\ workers = 0
  /\ alive = {} /\ replies = {} /\ deaths = {}
  /\ closed = FALSE /\ terminating = 0

\* A promise reaction runs before the event loop turns again.
Reacts(p) == /\ poll[p].stage = "reading"
             /\ requests[poll[p].request].state # "pending"
Turn == \A p \in Polls : ~Reacts(p)

-----------------------------------------------------------------------------
(***************************************************************************)
(* Everything else.  Requests and operations have ended when the reader is *)
(* closed.                                                                 *)
(***************************************************************************)
Save ==
  /\ Turn /\ version < MaxSaves /\ terminating = 0 /\ ~closed
  /\ version' = version + 1
  /\ settled' \in BOOLEAN
  /\ sinceSave' = {tree}
  /\ UNCHANGED <<tree, poll, readerVars, terminating, closed>>

Edit ==
  /\ tree' \in Contents \ {tree}
  /\ sinceSave' = sinceSave \union {tree'}
  /\ UNCHANGED <<version, settled, poll, readerVars, terminating, closed>>

(***************************************************************************)
(* The worker thread.                                                      *)
(***************************************************************************)
Posted(w) == {k \in DOMAIN requests : /\ requests[k].worker = w
                                       /\ requests[k].capture = "none"}

\* Requests are captured in the order they were posted.  A capture may fail.
Capture(w) ==
  /\ w \in alive /\ Posted(w) # {}
  /\ LET k == CHOOSE j \in Posted(w) : \A l \in Posted(w) : j <= l
     IN /\ \E result \in {tree, "error"} :
             requests' = [requests EXCEPT ![k].capture = result]
        /\ replies' = replies \union {k}
  /\ UNCHANGED <<recordVars, poll, cache, worker, alive, deaths, workers, terminating,
                 closed>>

\* A dying thread is reported by an exit, and by an error before it or not.
WorkerDies(w) ==
  /\ w \in alive
  /\ \E events \in {{"exit"}, {"error", "exit"}} :
       /\ Cardinality(1 .. workers \ alive) < MaxDeaths
            \/ (w = terminating /\ events = {"exit"})
       /\ deaths' = deaths \union {<<w, e>> : e \in events}
  /\ alive' = alive \ {w}
  /\ UNCHANGED <<recordVars, poll, cache, requests, worker, replies, workers, terminating,
                 closed>>

(***************************************************************************)
(* SnapshotReader on the event loop.                                       *)
(***************************************************************************)
\* An answered entry lives three more seconds.
CacheExpires ==
  /\ Turn /\ cache # NoEntry /\ requests[cache.request].state = "resolved"
  /\ cache' = NoEntry
  /\ UNCHANGED <<recordVars, poll, requests, worker, alive, replies, deaths,
                 workers, terminating,
                 closed>>

\* A reply to a request that is no longer pending is dropped.
OnReply(k) ==
  /\ Turn /\ k \in replies
  /\ replies' = replies \ {k}
  /\ IF requests[k].state # "pending" THEN UNCHANGED <<requests, cache>>
     ELSE LET state == IF requests[k].capture = "error" THEN "rejected"
                                                        ELSE "resolved"
          IN /\ requests' = [requests EXCEPT ![k].state = state]
             /\ cache' = IF state = "rejected" /\ cache # NoEntry
                           THEN IF cache.request = k THEN NoEntry ELSE cache
                           ELSE cache
  /\ UNCHANGED <<recordVars, poll, worker, alive, deaths, workers, terminating,
                 closed>>

IsCurrent(w) == worker = w

Reject(k) == [requests[k] EXCEPT !.state = "rejected"]
\* Fault: nobody tells the readers.
LeftPending == requests
AllRejected ==
  [k \in DOMAIN requests |->
     IF requests[k].state = "pending" THEN Reject(k) ELSE requests[k]]

\* The worker that close() has terminated ends it by its exit.
OnDeath(w, event) ==
  /\ Turn /\ <<w, event>> \in deaths
  /\ event = "exit" => <<w, "error">> \notin deaths
  /\ deaths' = deaths \ {<<w, event>>}
  /\ closed' = (closed \/ (event = "exit" /\ w = terminating))
  /\ IF IsCurrent(w) THEN requests' = AllRejected /\ worker' = 0
                     ELSE UNCHANGED <<requests, worker>>
  /\ cache' = IF IsCurrent(w) \/ closed' THEN NoEntry ELSE cache
  /\ UNCHANGED <<recordVars, poll, alive, replies, workers, terminating>>

Usable == cache # NoEntry /\ cache.key = version

\* read(): the cached promise, or a new request to a worker started if need be.
Reads(p) ==
  /\ poll' = [poll EXCEPT ![p] =
       [stage |-> "reading", version |-> version,
        request |-> IF Usable THEN cache.request ELSE Len(requests) + 1]]
  /\ IF Usable THEN UNCHANGED readerVars
     ELSE /\ workers' = IF worker = 0 THEN workers + 1 ELSE workers
          /\ worker' = IF worker = 0 THEN workers' ELSE worker
          /\ alive' = IF worker = 0 THEN alive \union {worker'} ELSE alive
          /\ requests' = Append(requests,
               [worker |-> worker', capture |-> "none", state |-> "pending"])
          /\ cache' = [key |-> version, request |-> Len(requests')]
          /\ UNCHANGED <<replies, deaths>>

Answers(p, shown, digest) ==
  /\ poll' = [poll EXCEPT ![p] = [stage |-> "answered", version |-> shown,
                                  digest |-> digest]]
  /\ UNCHANGED readerVars

(***************************************************************************)
(* Controller.pollStatus().                                                *)
(***************************************************************************)
Asks(p) == IF settled THEN Reads(p) ELSE Answers(p, version, "none")

Ask(p) ==
  /\ Turn /\ poll[p] = Idle /\ terminating = 0 /\ ~closed
  /\ Asks(p)
  /\ UNCHANGED <<recordVars, terminating, closed>>

\* Fault: the record is not read again after the capture.
NeverOutdated(p) == FALSE
Outdated(p) == poll[p].version # version

\* The capture is there: answer, or start again if the record has changed.
Continue(p) ==
  /\ poll[p].stage = "reading" /\ ~closed
  /\ requests[poll[p].request].state = "resolved"
  /\ IF Outdated(p) THEN Asks(p)
     ELSE Answers(p, poll[p].version, requests[poll[p].request].capture)
  /\ UNCHANGED <<recordVars, terminating, closed>>

\* No capture: the answer is the record that was read first, with the error.
Fails(p) ==
  /\ poll[p].stage = "reading"
  /\ \/ requests[poll[p].request].state = "rejected"
     \/ requests[poll[p].request].state = "resolved" /\ closed
  /\ Answers(p, poll[p].version, "error")
  /\ UNCHANGED <<recordVars, terminating, closed>>

AwaitsExit == IF worker = 0 THEN closed' = TRUE /\ UNCHANGED terminating
                            ELSE terminating' = worker /\ UNCHANGED closed

\* Controller.close(): the worker is terminated and its exit awaited.
Close ==
  /\ Turn /\ terminating = 0 /\ ~closed
  /\ AwaitsExit
  /\ cache' = IF worker = 0 THEN NoEntry ELSE cache
  /\ UNCHANGED <<recordVars, poll, requests, worker, alive, replies, deaths,
                 workers>>

ReaderStep ==
  \/ \E w \in alive : Capture(w)
  \/ \E k \in replies : OnReply(k)
  \/ \E d \in deaths : OnDeath(d[1], d[2])

PollingNext ==
  \/ Save \/ Edit \/ CacheExpires \/ Close \/ ReaderStep
  \/ \E w \in alive : WorkerDies(w)
  \/ \E p \in Polls : Ask(p) \/ Continue(p) \/ Fails(p)

PollingSpec == PollingInit /\ [][PollingNext]_pollingVars

\* Threads compute and events are delivered.
PollingFairness ==
  /\ WF_pollingVars(ReaderStep)
  /\ \A p \in Polls : WF_pollingVars(Continue(p) \/ Fails(p))
=============================================================================
