--------------------------- MODULE ServiceLifetime ---------------------------
(***************************************************************************)
(* The life of services that contend for one home: ControllerLock, the     *)
(* controller plugin's startup and its disposal.  Each service is a        *)
(* process of its own.  What they share is on disk: an exclusive SQLite    *)
(* transaction, which the operating system ends with its process, and two  *)
(* files that a crash leaves behind.                                       *)
(***************************************************************************)
EXTENDS Integers, Sequences

CONSTANTS Services, NoService

ASSUME NoServiceAssumption == NoService \notin Services /\ "torn" \notin Services

VARIABLES
  stage,      \* where each service is
  remaining,  \* what is left of its disposal
  holder,     \* who is inside the exclusive transaction
  marker,     \* whom controller.lock names; "torn": created, not yet written
  announced,  \* services that have written service.json
  discovery,  \* whom service.json names
  working     \* services with an operation under way on some ticket

lifeVars == <<stage, remaining, holder, marker, announced, discovery, working>>

LifeInit ==
  /\ stage = [s \in Services |-> "new"]
  /\ remaining = [s \in Services |-> << >>]
  /\ holder = NoService /\ marker = NoService /\ discovery = NoService
  /\ announced = {} /\ working = {}

Living(s) == stage[s] \notin {"new", "refused", "gone"}
Enters(s, next) == stage' = [stage EXCEPT ![s] = next]

-----------------------------------------------------------------------------
(***************************************************************************)
(* The order of disposal: the plugin's dispose(), Controller.close() and   *)
(* ControllerLock.close().                                                 *)
(***************************************************************************)
\* Fault: the home is released while operations still run.
ReleasedFirst == <<"disconnect", "withdraw", "abort", "release", "settle", "unmark">>
DisposeOrder == <<"disconnect", "withdraw", "abort", "settle", "unmark", "release">>

Disposes(s, steps) ==
  /\ Enters(s, "disposing")
  /\ remaining' = [remaining EXCEPT ![s] = steps]

(***************************************************************************)
(* Startup.                                                                *)
(***************************************************************************)
Contend(s) ==
  /\ stage[s] = "new"
  /\ IF holder = NoService THEN holder' = s /\ Enters(s, "locked")
                           ELSE Enters(s, "refused") /\ UNCHANGED holder
  /\ UNCHANGED <<remaining, marker, announced, discovery, working>>

\* The marker of a dead process is removed, that of a living one respected; one
\* that cannot be parsed stops every start.
CheckMarker(s) ==
  /\ stage[s] = "locked"
  /\ IF marker \in Services /\ Living(marker)
       THEN Enters(s, "refused") /\ holder' = NoService /\ UNCHANGED marker
     ELSE IF marker = "torn"
       THEN Enters(s, "gone") /\ holder' = NoService /\ UNCHANGED marker
     ELSE Enters(s, "unmarked") /\ marker' = NoService /\ UNCHANGED holder
  /\ UNCHANGED <<remaining, announced, discovery, working>>

CreateMarker(s) ==
  /\ stage[s] = "unmarked"
  /\ marker' = "torn" /\ Enters(s, "marking")
  /\ UNCHANGED <<remaining, holder, announced, discovery, working>>

\* The marker is written; the store is opened and fenced, or the lock closed.
OpenStore(s) ==
  /\ stage[s] = "marking"
  /\ marker' = s
  /\ \/ Enters(s, "owner") /\ UNCHANGED remaining
     \/ Disposes(s, <<"unmark", "release">>)
  /\ UNCHANGED <<holder, announced, discovery, working>>

Listen(s) ==
  /\ stage[s] = "owner"
  /\ \/ Enters(s, "listening") /\ UNCHANGED remaining
     \/ Disposes(s, DisposeOrder)
  /\ UNCHANGED <<holder, marker, announced, discovery, working>>

\* service.json is replaced atomically, or the start fails.
Announce(s) ==
  /\ stage[s] = "listening"
  /\ \/ /\ discovery' = s /\ announced' = announced \union {s}
        /\ Enters(s, "serving") /\ UNCHANGED remaining
     \/ Disposes(s, DisposeOrder) /\ UNCHANGED <<discovery, announced>>
  /\ UNCHANGED <<holder, marker, working>>

(***************************************************************************)
(* Operations start with requests or from the pump until they are aborted, *)
(* and end by themselves or because of that.                               *)
(***************************************************************************)
WorkBegins(s) ==
  /\ \/ stage[s] \in {"listening", "serving"}
     \/ \E k \in DOMAIN remaining[s] : remaining[s][k] = "abort"
  /\ s \notin working
  /\ working' = working \union {s}
  /\ UNCHANGED <<stage, remaining, holder, marker, announced, discovery>>

WorkEnds(s) ==
  /\ s \in working
  /\ working' = working \ {s}
  /\ UNCHANGED <<stage, remaining, holder, marker, announced, discovery>>

(***************************************************************************)
(* Disposal and death.                                                     *)
(***************************************************************************)
Dispose(s) ==
  /\ stage[s] = "serving"
  /\ Disposes(s, DisposeOrder)
  /\ UNCHANGED <<holder, marker, announced, discovery, working>>

\* The next step of a disposal.
Does(s, step) ==
  /\ remaining[s] # << >> /\ Head(remaining[s]) = step
  /\ remaining' = [remaining EXCEPT ![s] = Tail(remaining[s])]
  /\ stage' = IF Len(remaining[s]) = 1 THEN [stage EXCEPT ![s] = "gone"]
                                       ELSE stage

Disconnect(s) ==
  /\ Does(s, "disconnect")
  /\ UNCHANGED <<holder, marker, announced, discovery, working>>

\* The file is removed whoever wrote it last.
Withdraw(s) ==
  /\ Does(s, "withdraw")
  /\ discovery' = IF s \in announced THEN NoService ELSE discovery
  /\ UNCHANGED <<holder, marker, announced, working>>

\* From here on no other operation starts.
AbortWork(s) ==
  /\ Does(s, "abort")
  /\ UNCHANGED <<holder, marker, announced, discovery, working>>

\* All operations have ended; the store is closed.
SettleWork(s) ==
  /\ Does(s, "settle") /\ s \notin working
  /\ UNCHANGED <<holder, marker, announced, discovery, working>>

Unmark(s) ==
  /\ Does(s, "unmark")
  /\ marker' = NoService
  /\ UNCHANGED <<holder, announced, discovery, working>>

Release(s) ==
  /\ Does(s, "release")
  /\ holder' = NoService
  /\ UNCHANGED <<marker, announced, discovery, working>>

Die(s) ==
  /\ Living(s)
  /\ Enters(s, "gone")
  /\ remaining' = [remaining EXCEPT ![s] = << >>]
  /\ holder' = IF holder = s THEN NoService ELSE holder
  /\ working' = working \ {s}
  /\ UNCHANGED <<marker, announced, discovery>>

Starts(s) ==
  \/ Contend(s) \/ CheckMarker(s) \/ CreateMarker(s) \/ OpenStore(s)
  \/ Listen(s) \/ Announce(s)
DisposeStep(s) ==
  \/ Disconnect(s) \/ Withdraw(s) \/ AbortWork(s) \/ SettleWork(s)
  \/ Unmark(s) \/ Release(s)

LifeNext ==
  \E s \in Services :
    Starts(s) \/ WorkBegins(s) \/ WorkEnds(s) \/ Dispose(s) \/ DisposeStep(s) \/ Die(s)

LifeSpec == LifeInit /\ [][LifeNext]_lifeVars
=============================================================================
