--------------------------- MODULE ComponentsProofs ---------------------------
(***************************************************************************)
(* Machine-checked proofs about the components that module MCComponents    *)
(* brings together: the page that follows the journal, the cleanup of      *)
(* commands, the polls of a worktree, the projection of a ticket's agents, *)
(* the session histories that prune leaves alone, the window of the panel, *)
(* and the types of them all.                                              *)
(***************************************************************************)
EXTENDS MCComponents, ControllerProofs, WellFoundedInduction, TLAPS

-----------------------------------------------------------------------------
(***************************************************************************)
(* Part 1.  The components.                                                *)
(***************************************************************************)
\* A behaviour of the components together is one of each of them: no step of
\* one is a step of another.
THEOREM EachComponent ==
  Components =>
    /\ HistorySpec /\ LifeSpec /\ CaptureSpec /\ Polling!PollingSpec
    /\ Watching!TrajectorySpec /\ Viewing!ViewSpec /\ Cleaning!CleanupSpec
<1> USE DEF componentVars, ComponentsNext, Only
<1>1. ComponentsInit =>
        /\ HistoryInit /\ LifeInit /\ CaptureInit /\ Polling!PollingInit
        /\ Watching!TrajectoryInit /\ Viewing!ViewInit /\ Cleaning!CleanupInit
  BY DEF ComponentsInit
<1>2. [ComponentsNext]_componentVars => [HistoryNext]_historyVars
  OBVIOUS
<1>3. [ComponentsNext]_componentVars => [LifeNext]_lifeVars
  OBVIOUS
<1>4. [ComponentsNext]_componentVars => [CaptureNext]_captureVars
  OBVIOUS
<1>5. [ComponentsNext]_componentVars =>
        [Polling!PollingNext]_(Polling!pollingVars)
  BY DEF pollingVars, Polling!pollingVars, Polling!recordVars,
         Polling!readerVars
<1>6. [ComponentsNext]_componentVars =>
        [Watching!TrajectoryNext]_(Watching!trajectoryVars)
  BY DEF watchingVars, Watching!trajectoryVars
<1>7. [ComponentsNext]_componentVars => [Viewing!ViewNext]_(Viewing!viewVars)
  BY DEF viewingVars, Viewing!viewVars, Viewing!streamVars,
         Viewing!dialogVars
<1>8. [ComponentsNext]_componentVars =>
        [Cleaning!CleanupNext]_(Cleaning!cleanupVars)
  BY DEF cleaningVars, Cleaning!cleanupVars, Cleaning!osVars,
         Cleaning!jsVars
<1> HIDE DEF componentVars, ComponentsNext, Only
<1>9. Components => HistorySpec /\ LifeSpec /\ CaptureSpec
  BY <1>1, <1>2, <1>3, <1>4, PTL
     DEF Components, HistorySpec, LifeSpec, CaptureSpec
<1>10. Components => Polling!PollingSpec
  BY <1>1, <1>5, PTL DEF Components, Polling!PollingSpec
<1>11. Components => Watching!TrajectorySpec
  BY <1>1, <1>6, PTL DEF Components, Watching!TrajectorySpec
<1>12. Components => Viewing!ViewSpec
  BY <1>1, <1>7, PTL DEF Components, Viewing!ViewSpec
<1>13. Components => Cleaning!CleanupSpec
  BY <1>1, <1>8, PTL DEF Components, Cleaning!CleanupSpec
<1> QED
  BY <1>9, <1>10, <1>11, <1>12, <1>13

-----------------------------------------------------------------------------
(***************************************************************************)
(* Part 2.  The event stream of the page.                                  *)
(***************************************************************************)
\* The numbers that follow m, n of them.
Following(m, n) == [k \in 1 .. n |-> m + k]

LEMMA FollowingFacts ==
  ASSUME NEW m \in Nat, NEW n \in Nat
  PROVE  /\ Following(m, n) \in Seq(Nat)
         /\ Append(Following(m, n), m + n + 1) = Following(m, n + 1)
         /\ Following(0, m) \o Following(m, n) = Following(0, m + n)
         /\ Following(m, n) # << >> =>
              /\ n > 0 /\ Head(Following(m, n)) = m + 1
              /\ Tail(Following(m, n)) = Following(m + 1, n - 1)
<1>1. Following(m, n) \in Seq(Nat) /\ Len(Following(m, n)) = n
  BY DEF Following
<1>2. Following(0, m) \in Seq(Nat) /\ Len(Following(0, m)) = m
  BY DEF Following
<1>3. Append(Following(m, n), m + n + 1) = Following(m, n + 1)
  BY <1>1 DEF Following
<1>4. Following(0, m) \o Following(m, n) = Following(0, m + n)
  BY <1>1, <1>2 DEF Following
<1>5. ASSUME Following(m, n) # << >>
      PROVE  /\ n > 0 /\ Head(Following(m, n)) = m + 1
             /\ Tail(Following(m, n)) = Following(m + 1, n - 1)
  <2>1. n > 0
    BY <1>1, <1>5
  <2>2. Head(Following(m, n)) = m + 1
    <3>1. Following(m, n)[1] = m + 1
      BY <2>1 DEF Following
    <3> QED
      BY <1>1, <1>5, <3>1
  <2>3. Tail(Following(m, n)) = Following(m + 1, n - 1)
    BY <1>1, <1>5, <2>1, SMTT(30) DEF Following
  <2> QED
    BY <2>1, <2>2, <2>3
<1> QED
  BY <1>1, <1>3, <1>4, <1>5

\* What was handled and what is in flight are the events from the first on.
StreamInv ==
  /\ cursor \in Nat /\ seen = Following(0, cursor)
  /\ stream \in [flushed : Int, wire : Seq(Nat)]
  /\ stream # Viewing!Down =>
       /\ stream.flushed \in Nat /\ cursor <= stream.flushed
       /\ stream.wire = Following(cursor, stream.flushed - cursor)

LEMMA StreamInitInv == Viewing!ViewInit => StreamInv
BY DEF Viewing!ViewInit, Viewing!Down, StreamInv, Following

LEMMA StreamKeeps ==
  ASSUME StreamInv, [Viewing!ViewNext]_(Viewing!viewVars)
  PROVE  StreamInv'
<1> USE DEF Viewing!streamVars
<1>1. CASE UNCHANGED <<stream, cursor, seen>>
  BY <1>1 DEF StreamInv, Viewing!Down
<1>2. CASE stream' = Viewing!Down /\ UNCHANGED <<cursor, seen>>
  BY <1>2 DEF StreamInv, Viewing!Down
<1>3. CASE Viewing!Flush
  <2>1. CASE /\ stream # Viewing!Down /\ UNCHANGED <<cursor, seen>>
             /\ stream' = [flushed |-> stream.flushed + 1,
                           wire |-> Append(stream.wire, stream.flushed + 1)]
    <3>1. /\ stream.flushed \in Nat /\ cursor <= stream.flushed
          /\ stream.flushed - cursor \in Nat /\ cursor \in Nat
          /\ stream.wire = Following(cursor, stream.flushed - cursor)
      BY <2>1 DEF StreamInv
    <3>2. /\ Append(stream.wire, stream.flushed + 1) =
               Following(cursor, stream.flushed + 1 - cursor)
          /\ Append(stream.wire, stream.flushed + 1) \in Seq(Nat)
      <4> DEFINE n == stream.flushed - cursor
      <4>1. /\ n \in Nat /\ cursor + n + 1 = stream.flushed + 1
            /\ n + 1 = stream.flushed + 1 - cursor /\ n + 1 \in Nat
            /\ stream.wire = Following(cursor, n)
        BY <3>1
      <4> HIDE DEF n
      <4>2. /\ Append(Following(cursor, n), cursor + n + 1) =
                 Following(cursor, n + 1)
            /\ Following(cursor, n + 1) \in Seq(Nat)
        BY <3>1, <4>1, FollowingFacts
      <4> QED
        BY <4>1, <4>2
    <3>3. /\ stream'.flushed = stream.flushed + 1
          /\ stream'.wire = Append(stream.wire, stream.flushed + 1)
          /\ stream' \in [flushed : Int, wire : Seq(Nat)]
      BY <2>1, <3>1, <3>2
    <3> QED
      BY <2>1, <3>1, <3>2, <3>3 DEF StreamInv
  <2> QED
    BY <1>2, <1>3, <2>1 DEF Viewing!Flush, Viewing!Overload
<1>4. CASE Viewing!Connect
  <2>1. stream' = [flushed |-> cursor, wire |-> << >>]
    BY <1>4 DEF Viewing!Connect, Viewing!Down
  <2>2. UNCHANGED <<cursor, seen>>
    BY <1>4 DEF Viewing!Connect
  <2>3. Following(cursor, cursor - cursor) = << >>
    BY DEF StreamInv, Following
  <2> QED
    BY <2>1, <2>2, <2>3 DEF StreamInv
<1>5. CASE Viewing!HandleEvent
  <2> DEFINE n == Head(stream.wire)
  <2>1. /\ stream # Viewing!Down /\ stream.wire # << >>
        /\ cursor' = n /\ seen' = Append(seen, n)
        /\ stream' = [stream EXCEPT !.wire = Tail(@)]
    BY <1>5 DEF Viewing!HandleEvent
  <2>2. /\ stream.flushed \in Nat /\ cursor <= stream.flushed
        /\ stream.flushed - cursor \in Nat /\ cursor \in Nat
        /\ stream.wire = Following(cursor, stream.flushed - cursor)
        /\ seen = Following(0, cursor)
    BY <2>1 DEF StreamInv
  <2>3. /\ n = cursor + 1 /\ cursor + 1 <= stream.flushed
        /\ Tail(stream.wire) =
             Following(cursor + 1, stream.flushed - (cursor + 1))
    <3> DEFINE m == stream.flushed - cursor
    <3>1. /\ m \in Nat /\ m - 1 = stream.flushed - (cursor + 1)
          /\ stream.wire = Following(cursor, m)
          /\ m > 0 => cursor + 1 <= stream.flushed
      BY <2>2
    <3> HIDE DEF m
    <3>2. /\ m > 0 /\ Head(Following(cursor, m)) = cursor + 1
          /\ Tail(Following(cursor, m)) = Following(cursor + 1, m - 1)
      BY <2>1, <2>2, <3>1, FollowingFacts
    <3> QED
      BY <3>1, <3>2
  <2>4. seen' = Following(0, cursor + 1)
    <3>1. Append(Following(0, cursor), 0 + cursor + 1) =
            Following(0, cursor + 1)
      BY <2>2, FollowingFacts
    <3> QED
      BY <2>1, <2>2, <2>3, <3>1
  <2>5. Tail(stream.wire) \in Seq(Nat)
    BY <2>1 DEF StreamInv
  <2> HIDE DEF n
  <2>6. /\ stream'.flushed = stream.flushed
        /\ stream'.wire = Tail(stream.wire)
        /\ stream' \in [flushed : Int, wire : Seq(Nat)]
    BY <2>1, <2>5 DEF StreamInv
  <2> QED
    BY <2>1, <2>2, <2>3, <2>4, <2>6 DEF StreamInv
<1>6. CASE Viewing!Drop
  BY <1>2, <1>6 DEF Viewing!Drop
<1> QED
  BY <1>1, <1>3, <1>4, <1>5, <1>6
     DEF Viewing!ViewNext, Viewing!ServerStep, Viewing!PageStep,
         Viewing!viewVars, Viewing!Happens, Viewing!AnswerOverview,
         Viewing!AnswerClick, Viewing!Open, Viewing!EveryThreeSeconds,
         Viewing!ShowOverview, Viewing!ShowFresh, Viewing!ShowClicked,
         Viewing!ActAnswered, Viewing!ActShown, Viewing!ReadFails,
         Viewing!Click, Viewing!Close, Viewing!Act

\* Whatever connections are lost or cut off, the page handles every event of
\* the journal once and in order.
THEOREM SeesJournalTheorem == Viewing!ViewSpec => []SeesJournal
<1>1. StreamInv => SeesJournal
  <2> SUFFICES ASSUME StreamInv
               PROVE  SeesJournal
    OBVIOUS
  <2>1. seen = [k \in 1 .. cursor |-> k]
    BY DEF StreamInv, Following
  <2>2. ASSUME stream # Viewing!Down
        PROVE  seen \o stream.wire = [k \in 1 .. stream.flushed |-> k]
    <3>1. /\ stream.flushed \in Nat /\ cursor \in Nat
          /\ stream.flushed - cursor \in Nat
          /\ seen = Following(0, cursor)
          /\ stream.wire = Following(cursor, stream.flushed - cursor)
      BY <2>2 DEF StreamInv
    <3>2. seen \o stream.wire =
            Following(0, cursor + (stream.flushed - cursor))
      BY <3>1, FollowingFacts
    <3>3. cursor + (stream.flushed - cursor) = stream.flushed
      BY <3>1
    <3> QED
      BY <3>1, <3>2, <3>3 DEF Following
  <2> QED
    BY <2>1, <2>2 DEF SeesJournal, Viewing!SeesJournal
<1> QED
  BY <1>1, StreamInitInv, StreamKeeps, PTL DEF Viewing!ViewSpec

-----------------------------------------------------------------------------
(***************************************************************************)
(* Part 3.  Whom the cleanup of a command reaches.                         *)
(***************************************************************************)
Own == Cleaning!OwnProcesses
Calls == Cleaning!Calls

\* A table of processes knows no stranger as a child of anybody.
IsTable(table) ==
  table.of \subseteq Cleaning!Everyone
    /\ \A p \in Cleaning!Others : table.parent[p] = Cleaning!Init1

CloserStates == {"off", "starting", "term", "kill", "gone", "remain"}
IsCloser(x) ==
  x \in [state : CloserStates, current : SUBSET Own, left : {x.left}]

SignalRounds ==
  [stage : {"signals"}, by : Calls, todo : SUBSET Own,
   aim : Own \union {Cleaning!Nobody}]

\* Nothing that is remembered of a command is somebody else's, and what a scan
\* has not in its table was born since.
CleanupInv ==
  /\ DOMAIN life = Cleaning!Everyone /\ DOMAIN parent = Cleaning!Everyone
  /\ \A p \in Cleaning!Others :
       parent[p] = Cleaning!Init1 /\ (life[p] = "living" => p \in unmarked)
  /\ known \subseteq Own
  /\ phase # "idle" => command \in Cleaning!Commands
  /\ DOMAIN closer = Calls /\ \A c \in Calls : IsCloser(closer[c])
  /\ polling # Cleaning!NotPolling =>
       IsTable(polling.table) /\ polling.known \subseteq Own
  /\ scan.stage = "reading" =>
       /\ IsTable(scan.table)
       /\ Cleaning!Living \ Cleaning!Others
            \subseteq scan.table.of \union fresh
  /\ scan.stage = "signals" => scan \in SignalRounds

LEMMA OwnFacts ==
  /\ Own \intersect Cleaning!Others = {} /\ Cleaning!Init1 \notin Own
  /\ Own \subseteq Cleaning!Everyone /\ Cleaning!Others \subseteq Cleaning!Everyone
  /\ \A p \in Cleaning!Everyone : p \in Own \/ p \in Cleaning!Others
  /\ Cleaning!Nobody \notin Own
<1>1. \A p \in Own : p[1] \in Int /\ p[1] > 0
  BY DEF Own, Cleaning!OwnProcesses, Cleaning!Roots, Cleaning!Commands
<1>2. \A p \in Cleaning!Others : p[1] = 0
  BY DEF Cleaning!Others
<1>3. Cleaning!Init1[1] = 0 /\ Cleaning!Nobody[1] = 0
  BY DEF Cleaning!Init1, Cleaning!Nobody
<1> QED
  BY <1>1, <1>2, <1>3 DEF Own, Cleaning!Everyone

\* What a scan finds belongs to the command: a stranger has no marker, was
\* never found before and descends from nobody found.
LEMMA FoundIsOwn ==
  ASSUME CleanupInv, NEW table, IsTable(table), NEW before \in SUBSET Own
  PROVE  Cleaning!Found(table, before) \subseteq Own
<1>1. Cleaning!FoundFirst(table, before) \subseteq Own
  BY OwnFacts DEF CleanupInv, IsTable, Cleaning!FoundFirst, Cleaning!Living
<1>2. ASSUME NEW S \in SUBSET Own
      PROVE  Cleaning!Offspring(table, S) \subseteq Own
  BY OwnFacts DEF IsTable, Cleaning!Offspring
<1> QED
  BY <1>1, <1>2 DEF Cleaning!Found

LEMMA TableIsTable ==
  ASSUME CleanupInv
  PROVE  IsTable(Cleaning!Table)
BY DEF CleanupInv, IsTable, Cleaning!Table, Cleaning!Living

LEMMA EntersCloser ==
  ASSUME CleanupInv, NEW c \in Calls, NEW s \in CloserStates,
         NEW found \in SUBSET Own, Cleaning!Enters(c, s, found)
  PROVE  /\ DOMAIN closer' = Calls /\ \A d \in Calls : IsCloser(closer'[d])
         /\ closer'[c].state = s
         /\ \A d \in Calls \ {c} : closer'[d] = closer[d]
BY DEF CleanupInv, Cleaning!Enters, IsCloser

LEMMA StartsSignalsCloser ==
  ASSUME CleanupInv, NEW c \in Calls, NEW found \in SUBSET Own,
         Cleaning!StartsSignals(c, found)
  PROVE  /\ DOMAIN closer' = Calls /\ \A d \in Calls : IsCloser(closer'[d])
         /\ closer'[c].state = closer[c].state
         /\ \A d \in Calls \ {c} : closer'[d] = closer[d]
         /\ scan' \in SignalRounds
<1> DEFINE x == closer[c]
           y == [x EXCEPT !.current = found]
<1>1. closer' = [closer EXCEPT ![c] = y]
  BY DEF CleanupInv, Cleaning!StartsSignals
<1>2. x \in [state : CloserStates, current : SUBSET Own, left : {x.left}]
  BY DEF CleanupInv, IsCloser
<1>3. /\ y.state = x.state /\ y.left = x.left
      /\ y \in [state : CloserStates, current : SUBSET Own, left : {x.left}]
  BY <1>2
<1>4. scan' \in SignalRounds
  BY DEF Cleaning!StartsSignals, SignalRounds
<1> HIDE DEF y
<1>5. IsCloser(y)
  BY <1>3 DEF IsCloser
<1> QED
  BY <1>1, <1>3, <1>4, <1>5 DEF CleanupInv

LEMMA ScansAgainCloser ==
  ASSUME CleanupInv, NEW c \in Calls, NEW found \in SUBSET Own,
         Cleaning!ScansAgain(c, found)
  PROVE  /\ DOMAIN closer' = Calls /\ \A d \in Calls : IsCloser(closer'[d])
         /\ closer'[c].state = closer[c].state
         /\ \A d \in Calls \ {c} : closer'[d] = closer[d]
<1> DEFINE x == closer[c]
           y == [[x EXCEPT !.current = found] EXCEPT !.left = x.left - 1]
<1>1. closer' = [closer EXCEPT ![c] = y]
  BY DEF CleanupInv, Cleaning!ScansAgain
<1>2. x \in [state : CloserStates, current : SUBSET Own, left : {x.left}]
  BY DEF CleanupInv, IsCloser
<1>3. /\ y.state = x.state /\ y.left = x.left - 1
      /\ y \in [state : CloserStates, current : SUBSET Own,
                left : {x.left - 1}]
  BY <1>2
<1> HIDE DEF y
<1>4. IsCloser(y)
  BY <1>3 DEF IsCloser
<1> QED
  BY <1>1, <1>3, <1>4 DEF CleanupInv

LEMMA CleanupInitInv == Cleaning!CleanupInit => CleanupInv
<1> SUFFICES ASSUME Cleaning!CleanupInit
             PROVE  CleanupInv
  OBVIOUS
<1>1. /\ DOMAIN life = Cleaning!Everyone /\ DOMAIN parent = Cleaning!Everyone
      /\ \A p \in Cleaning!Others :
           parent[p] = Cleaning!Init1 /\ life[p] # "living"
  BY OwnFacts DEF Cleaning!CleanupInit
<1>2. DOMAIN closer = Calls /\ \A c \in Calls : IsCloser(closer[c])
  BY DEF Cleaning!CleanupInit, Cleaning!Off, IsCloser, CloserStates, Calls
<1>3. scan.stage = "none"
  BY DEF Cleaning!CleanupInit, Cleaning!NoScan
<1> QED
  BY <1>1, <1>2, <1>3 DEF Cleaning!CleanupInit, CleanupInv

\* Processes come and go.
LEMMA OsKeeps ==
  ASSUME CleanupInv,
         \/ \E p, q \in Own : Cleaning!Fork(p, q)
         \/ \E p \in Cleaning!Everyone : Cleaning!End(p)
         \/ \E p \in Cleaning!Others, q \in Own : Cleaning!PidReused(p, q)
  PROVE  CleanupInv'
<1>1. UNCHANGED <<known, polling, closer, scan, phase, command>>
  BY DEF Cleaning!Fork, Cleaning!End, Cleaning!PidReused, Cleaning!jsVars
<1>2. /\ DOMAIN life' = Cleaning!Everyone
      /\ DOMAIN parent' = Cleaning!Everyone
      /\ \A p \in Cleaning!Others :
           parent'[p] = Cleaning!Init1 /\ (life'[p] = "living" => p \in unmarked')
  BY OwnFacts
     DEF CleanupInv, Cleaning!Fork, Cleaning!End, Cleaning!PidReused
<1>3. scan.stage = "reading" =>
        Cleaning!Living' \ Cleaning!Others
          \subseteq scan.table.of \union fresh'
  BY OwnFacts DEF CleanupInv, Cleaning!Fork, Cleaning!End,
                  Cleaning!PidReused, Cleaning!Living, Cleaning!NoScan
<1> QED
  BY <1>1, <1>2, <1>3 DEF CleanupInv, IsTable, IsCloser

\* The steps of terminate().
LEMMA ReadTableKeeps ==
  ASSUME CleanupInv, NEW c \in Calls, Cleaning!ReadTable(c)
  PROVE  CleanupInv'
<1>1. /\ UNCHANGED <<life, parent, unmarked, known, polling, closer, phase,
                    command>>
      /\ scan' = [stage |-> "reading", by |-> c, table |-> Cleaning!Table]
  BY DEF Cleaning!ReadTable, Cleaning!osVars
<1>2. scan'.table = Cleaning!Table /\ scan'.stage = "reading"
  BY <1>1
<1>3. Cleaning!Living' \ Cleaning!Others \subseteq scan'.table.of
  BY <1>1, <1>2 DEF Cleaning!Living, Cleaning!Table
<1>4. IsTable(scan'.table)
  BY <1>2, TableIsTable
<1> QED
  BY <1>1, <1>2, <1>3, <1>4 DEF CleanupInv, IsTable, IsCloser

LEMMA ReadMarkersKeeps ==
  ASSUME CleanupInv, NEW c \in Calls, Cleaning!ReadMarkers(c)
  PROVE  /\ CleanupInv'
         /\ \A d \in Calls : closer[d].state # "gone" /\ closer'[d].state = "gone"
              => \A p \in Cleaning!Living \ Cleaning!Others :
                   \/ p \in fresh
                   \/ p \in unmarked /\ p \notin closer[d].current
<1> DEFINE before == closer[c].current
           found == Cleaning!Found(scan.table, before)
<1>1. /\ UNCHANGED <<life, parent, unmarked, known, polling, phase, command>>
      /\ scan.stage = "reading"
  BY DEF Cleaning!ReadMarkers, Cleaning!osVars
<1>2. IsTable(scan.table)
  BY <1>1 DEF CleanupInv
<1>3. before \in SUBSET Own
  BY DEF CleanupInv, IsCloser
<1>4. found \in SUBSET Own
  BY <1>2, <1>3, FoundIsOwn
<1>5. \/ Cleaning!StartsSignals(c, found)
      \/ /\ scan' = Cleaning!NoScan
         /\ \/ found = {} /\ Cleaning!Enters(c, "gone", {})
            \/ Cleaning!ScansAgain(c, found)
            \/ Cleaning!Enters(c, "remain", found)
  BY DEF Cleaning!ReadMarkers
<1> HIDE DEF found, before
<1>6. /\ DOMAIN closer' = Calls /\ \A d \in Calls : IsCloser(closer'[d])
      /\ \A d \in Calls \ {c} : closer'[d] = closer[d]
      /\ closer[c].state # "gone" /\ closer'[c].state = "gone" => found = {}
  BY <1>4, <1>5, EntersCloser, ScansAgainCloser, StartsSignalsCloser
     DEF CloserStates
<1>7. scan' \in SignalRounds \/ scan'.stage = "none"
  BY <1>4, <1>5, StartsSignalsCloser DEF Cleaning!NoScan
<1>8. CleanupInv'
  BY <1>1, <1>6, <1>7 DEF CleanupInv, IsTable, SignalRounds
<1>9. ASSUME found = {}, NEW p \in Cleaning!Living \ Cleaning!Others,
             p \notin fresh
      PROVE  p \in unmarked /\ p \notin before
  <2>1. p \in scan.table.of
    BY <1>1, <1>9 DEF CleanupInv
  <2>2. Cleaning!FoundFirst(scan.table, before) = {}
    BY <1>9 DEF found, Cleaning!Found, Cleaning!Offspring
  <2> QED
    BY <2>1, <2>2 DEF Cleaning!FoundFirst
<1> QED
  BY <1>6, <1>8, <1>9 DEF before

\* A look aims at nobody but a process that was found and lives.
LEMMA CheckAliveAims ==
  ASSUME CleanupInv, NEW c \in Calls, Cleaning!CheckAlive(c)
  PROVE  /\ scan' \in SignalRounds
         /\ scan'.aim = Cleaning!Nobody \/ scan'.aim \in Cleaning!Living
<1>1. scan \in SignalRounds
  BY DEF CleanupInv, Cleaning!CheckAlive, Cleaning!Signalling
<1>2. PICK p \in scan.todo :
        scan' = [scan EXCEPT !.todo = scan.todo \ {p},
                             !.aim = IF Cleaning!Alive(p) THEN p
                                     ELSE Cleaning!Nobody]
  BY DEF Cleaning!CheckAlive
<1> DEFINE todo == scan.todo \ {p}
           aim == IF Cleaning!Alive(p) THEN p ELSE Cleaning!Nobody
<1>3. /\ todo \in SUBSET Own /\ aim \in Own \union {Cleaning!Nobody}
      /\ aim = Cleaning!Nobody \/ aim \in Cleaning!Living
  BY <1>1 DEF SignalRounds, Cleaning!Alive, Cleaning!Holders
<1>4. scan' = [[scan EXCEPT !.todo = todo] EXCEPT !.aim = aim]
  BY <1>2
<1> HIDE DEF todo, aim
<1>5. scan' \in SignalRounds /\ scan'.aim = aim
  BY <1>1, <1>3, <1>4 DEF SignalRounds
<1> QED
  BY <1>3, <1>5

LEMMA SignalsKeep ==
  ASSUME CleanupInv, NEW c \in Calls,
         Cleaning!CheckAlive(c) \/ Cleaning!Kill(c) \/ Cleaning!SignalsEnd(c)
  PROVE  /\ CleanupInv'
         /\ \A d \in Calls : closer'[d].state = "gone" => closer[d].state = "gone"
<1> USE DEF Cleaning!osVars, Cleaning!jsVars
<1>0. scan \in SignalRounds
  BY DEF CleanupInv, Cleaning!CheckAlive, Cleaning!Kill, Cleaning!SignalsEnd,
         Cleaning!Signalling
<1>1. CASE Cleaning!CheckAlive(c) \/ Cleaning!Kill(c)
  <2>1. UNCHANGED <<life, parent, unmarked, known, polling, closer, phase,
                    command>>
    BY <1>1 DEF Cleaning!CheckAlive, Cleaning!Kill
  <2>2. scan' \in SignalRounds
    <3>1. CASE Cleaning!CheckAlive(c)
      BY <3>1, CheckAliveAims
    <3>2. CASE Cleaning!Kill(c)
      <4>1. scan' = [scan EXCEPT !.aim = Cleaning!Nobody]
        BY <3>2 DEF Cleaning!Kill
      <4> QED
        BY <1>0, <4>1 DEF SignalRounds
    <3> QED
      BY <1>1, <3>1, <3>2
  <2> QED
    BY <2>1, <2>2 DEF CleanupInv, IsTable, IsCloser, SignalRounds
<1>2. CASE Cleaning!SignalsEnd(c)
  <2>1. /\ UNCHANGED <<life, parent, unmarked, known, polling, phase, command>>
        /\ scan' = Cleaning!NoScan
        /\ \E s \in {"term", "kill"} :
             Cleaning!Enters(c, s, closer[c].current)
    BY <1>2 DEF Cleaning!SignalsEnd
  <2>2. closer[c].current \in SUBSET Own
    BY DEF CleanupInv, IsCloser
  <2>3. /\ DOMAIN closer' = Calls /\ \A d \in Calls : IsCloser(closer'[d])
        /\ closer'[c].state \in {"term", "kill"}
        /\ \A d \in Calls \ {c} : closer'[d] = closer[d]
    BY <2>1, <2>2, EntersCloser DEF CloserStates
  <2>4. scan'.stage = "none"
    BY <2>1 DEF Cleaning!NoScan
  <2> QED
    BY <2>1, <2>3, <2>4 DEF CleanupInv, IsTable
<1> QED
  BY <1>1, <1>2

\* The steps of execute().
LEMMA ExecuteKeeps ==
  ASSUME CleanupInv,
         \/ Cleaning!Spawn \/ Cleaning!PollStarts \/ Cleaning!Expires
         \/ Cleaning!ExecuteStep
  PROVE  /\ CleanupInv'
         /\ \A d \in Calls :
              closer'[d] = closer[d] \/ closer'[d].state = "starting"
<1> USE DEF Cleaning!osVars
<1>1. CASE Cleaning!Spawn
  <2> DEFINE root == <<command', "root">>
             table == [of |-> Cleaning!Living \union {root}, parent |-> parent]
  <2>1. /\ scan = Cleaning!NoScan /\ command' \in Cleaning!Commands
        /\ UNCHANGED <<parent, unmarked, polling, scan, closer>>
        /\ life' = [life EXCEPT ![root] = "living"]
        /\ known' = Cleaning!Found(table, {root})
    BY <1>1 DEF Cleaning!Spawn, Cleaning!Turn
  <2>2. root \in Own
    BY <2>1 DEF Own, Cleaning!OwnProcesses, Cleaning!Roots
  <2>3. IsTable(table)
    BY <2>2, OwnFacts DEF CleanupInv, IsTable, Cleaning!Living
  <2>4. known' \subseteq Own
    BY <2>1, <2>2, <2>3, FoundIsOwn
  <2> HIDE DEF root, table
  <2> QED
    BY <2>1, <2>2, <2>4, OwnFacts
       DEF CleanupInv, IsTable, IsCloser, Cleaning!NoScan
<1>2. CASE Cleaning!PollStarts
  <2>1. /\ UNCHANGED <<life, parent, unmarked, known, scan, fresh, closer,
                      phase, command>>
        /\ polling'.table = Cleaning!Table /\ polling'.known = known
    BY <1>2 DEF Cleaning!PollStarts
  <2>2. IsTable(polling'.table) /\ polling'.known \subseteq Own
    BY <2>1, TableIsTable DEF CleanupInv
  <2> QED
    BY <2>1, <2>2 DEF CleanupInv, IsTable, IsCloser, Cleaning!Living
<1>3. CASE Cleaning!PollEnds
  <2>1. /\ UNCHANGED <<life, parent, unmarked, scan, fresh, closer,
                      phase, command>>
        /\ polling # Cleaning!NotPolling /\ polling' = Cleaning!NotPolling
        /\ known' = Cleaning!Found(polling.table, polling.known)
    BY <1>3 DEF Cleaning!PollEnds
  <2>2. known' \subseteq Own
    BY <2>1, FoundIsOwn DEF CleanupInv
  <2> QED
    BY <2>1, <2>2 DEF CleanupInv, IsTable, IsCloser, Cleaning!Living
<1>4. CASE Cleaning!Expires \/ Cleaning!CleansUp
  <2>1. /\ UNCHANGED <<life, parent, unmarked, known, polling, scan, fresh,
                      command>>
        /\ command \in Cleaning!Commands
        /\ \E c \in Calls : Cleaning!Enters(c, "starting", known)
        /\ known \in SUBSET Own
    BY <1>4 DEF Cleaning!Expires, Cleaning!CleansUp, CleanupInv, Calls,
                Cleaning!Calls
  <2>2. /\ DOMAIN closer' = Calls /\ \A d \in Calls : IsCloser(closer'[d])
        /\ \A d \in Calls :
             closer'[d] = closer[d] \/ closer'[d].state = "starting"
    BY <2>1, EntersCloser DEF CloserStates
  <2> QED
    BY <2>1, <2>2 DEF CleanupInv, IsTable, Cleaning!Living
<1>5. CASE Cleaning!Exits \/ Cleaning!Settles
  <2>1. /\ UNCHANGED <<life, parent, unmarked, known, polling, scan, fresh,
                      closer, command>>
        /\ phase # "idle"
    BY <1>5 DEF Cleaning!Exits, Cleaning!Settles
  <2> QED
    BY <2>1 DEF CleanupInv, IsTable, IsCloser, Cleaning!Living
<1> QED
  BY <1>1, <1>2, <1>3, <1>4, <1>5 DEF Cleaning!ExecuteStep

\* A step of the component.
LEMMA CleanupKeeps ==
  ASSUME CleanupInv, [Cleaning!CleanupNext]_(Cleaning!cleanupVars)
  PROVE  /\ CleanupInv'
         /\ \A d \in Calls : closer[d].state # "gone" /\ closer'[d].state = "gone"
              => \A p \in Cleaning!Living \ Cleaning!Others :
                   \/ p \in fresh
                   \/ p \in unmarked /\ p \notin closer[d].current
<1>1. CASE \/ \E p, q \in Own : Cleaning!Fork(p, q)
           \/ \E p \in Cleaning!Everyone : Cleaning!End(p)
           \/ \E p \in Cleaning!Others, q \in Own : Cleaning!PidReused(p, q)
  <2>1. closer' = closer
    BY <1>1 DEF Cleaning!Fork, Cleaning!End, Cleaning!PidReused,
                Cleaning!jsVars
  <2> QED
    BY <1>1, <2>1, OsKeeps
<1>2. ASSUME NEW c \in Calls, Cleaning!ReadTable(c)
      PROVE  CleanupInv' /\ closer' = closer
  BY <1>2, ReadTableKeeps DEF Cleaning!ReadTable
<1>3. CASE \/ Cleaning!Spawn \/ Cleaning!PollStarts \/ Cleaning!Expires
           \/ Cleaning!ExecuteStep
  BY <1>3, ExecuteKeeps
<1>4. CASE UNCHANGED Cleaning!cleanupVars
  BY <1>4 DEF Cleaning!cleanupVars, Cleaning!osVars, Cleaning!jsVars,
              CleanupInv, IsTable, IsCloser, Cleaning!Living
<1>5. CASE \E c \in Calls : Cleaning!CloserStep(c)
  BY <1>2, <1>5, ReadMarkersKeeps, SignalsKeep DEF Cleaning!CloserStep
<1> QED
  BY <1>1, <1>3, <1>4, <1>5 DEF Cleaning!CleanupNext, Own, Calls

LEMMA CleanupInvariant == Cleaning!CleanupSpec => []CleanupInv
BY CleanupInitInv, CleanupKeeps, PTL DEF Cleaning!CleanupSpec

\* A process of somebody else has a pid that was given free; a root whose exit
\* Node has not seen keeps its own; and whoever got the pid aimed at got it since
\* the look at the table, and from a descendant.
SignalInv ==
  /\ reuses \in [Cleaning!Others -> Own \union {Cleaning!Nobody}]
  /\ \A q \in Cleaning!Others :
       \/ life[q] = "unborn" /\ reuses[q] = Cleaning!Nobody
       \/ life[q] # "unborn" /\ reuses[q] \in Own /\ life[reuses[q]] = "dead"
  /\ \A r \in Cleaning!Roots :
       life[r] = "living" => r = <<command, "root">> /\ phase = "running"
  /\ command \in Nat
  /\ \A c \in Cleaning!Commands : c > command => life[<<c, "root">>] = "unborn"
  /\ scan.stage = "signals" /\ scan.aim # Cleaning!Nobody =>
       /\ \A q \in Cleaning!Others :
            reuses[q] = scan.aim =>
              scan.aim \notin Cleaning!Roots /\ (life[q] = "living" => q \in fresh)
       /\ scan.aim \in Cleaning!Roots =>
            scan.aim = <<command, "root">> /\ phase = "running"
  /\ \A p \in struck \intersect Cleaning!Others :
       /\ p \in fresh /\ life[p] # "unborn"
       /\ reuses[p] \notin Cleaning!Roots

LEMMA RootFacts ==
  /\ Cleaning!Roots \subseteq Own /\ Cleaning!Roots \intersect Cleaning!Others = {}
  /\ \A r \in Own : r \in Cleaning!Everyone /\ r \notin Cleaning!Others
  /\ \A q \in Cleaning!Others : q \in Cleaning!Everyone /\ q \notin Own
  /\ \A c \in Cleaning!Commands : <<c, "root">> \in Cleaning!Roots
BY OwnFacts DEF Own, Cleaning!OwnProcesses, Cleaning!Roots

LEMMA SignalInitInv == Cleaning!CleanupInit => SignalInv
<1> SUFFICES ASSUME Cleaning!CleanupInit
             PROVE  SignalInv
  OBVIOUS
<1>1. /\ reuses \in [Cleaning!Others -> Own \union {Cleaning!Nobody}]
      /\ \A q \in Cleaning!Others :
           life[q] = "unborn" /\ reuses[q] = Cleaning!Nobody
      /\ \A r \in Cleaning!Roots : life[r] = "unborn"
      /\ command \in Nat
  BY RootFacts DEF Cleaning!CleanupInit
<1>2. scan.stage = "none" /\ struck = {}
  BY DEF Cleaning!CleanupInit, Cleaning!NoScan
<1> QED
  BY <1>1, <1>2, RootFacts DEF SignalInv

LEMMA ForkSignals ==
  ASSUME CleanupInv, SignalInv, NEW p \in Own, NEW q \in Own, Cleaning!Fork(p, q)
  PROVE  SignalInv'
<1>1. /\ life[q] = "unborn" /\ life' = [life EXCEPT ![q] = "living"]
      /\ q \in Own \ Cleaning!Roots /\ fresh \subseteq fresh'
      /\ UNCHANGED <<reuses, command, phase, scan, struck>>
      /\ DOMAIN life = Cleaning!Everyone
  BY DEF Cleaning!Fork, Cleaning!jsVars, Own, CleanupInv
<1>2. \A r \in Cleaning!Everyone \ {q} : life'[r] = life[r]
  BY <1>1
<1>3. \A r \in Cleaning!Others \union Cleaning!Roots : life'[r] = life[r]
  BY <1>1, <1>2, RootFacts
<1>4. \A r \in Own : life[r] = "dead" => life'[r] = "dead"
  BY <1>1, <1>2, RootFacts
<1> QED
  BY <1>1, <1>3, <1>4, RootFacts DEF SignalInv

LEMMA EndSignals ==
  ASSUME CleanupInv, SignalInv, NEW p \in Cleaning!Everyone, Cleaning!End(p)
  PROVE  SignalInv'
<1>1. /\ life[p] = "living" /\ life' = [life EXCEPT ![p] = "dead"]
      /\ UNCHANGED <<reuses, command, phase, scan, struck, fresh>>
      /\ DOMAIN life = Cleaning!Everyone
  BY DEF Cleaning!End, Cleaning!jsVars, CleanupInv
<1>2. \A r \in Cleaning!Everyone :
        /\ life'[r] = "unborn" <=> life[r] = "unborn"
        /\ life[r] = "dead" => life'[r] = "dead"
        /\ life'[r] = "living" => life[r] = "living"
  BY <1>1
<1> QED
  BY <1>1, <1>2, RootFacts DEF SignalInv

LEMMA PidReusedSignals ==
  ASSUME CleanupInv, SignalInv, NEW p \in Cleaning!Others, NEW q \in Own,
         Cleaning!PidReused(p, q)
  PROVE  SignalInv'
<1>1. /\ life[p] = "unborn" /\ life' = [life EXCEPT ![p] = "living"]
      /\ life[q] = "dead" /\ ~(q = <<command, "root">> /\ phase = "running")
      /\ reuses' = [reuses EXCEPT ![p] = q]
      /\ fresh \subseteq fresh' /\ (scan.stage = "signals" => p \in fresh')
      /\ UNCHANGED <<command, phase, scan, struck>>
      /\ DOMAIN life = Cleaning!Everyone
  BY DEF Cleaning!PidReused, Cleaning!Reaped, Cleaning!jsVars, Cleaning!NoScan,
         CleanupInv
<1>2. \A r \in Cleaning!Everyone \ {p} : life'[r] = life[r]
  BY <1>1
<1>3. /\ \A r \in Own : life'[r] = life[r]
      /\ life'[p] = "living" /\ reuses'[p] = q
      /\ \A r \in Cleaning!Others \ {p} :
           life'[r] = life[r] /\ reuses'[r] = reuses[r]
      /\ reuses' \in [Cleaning!Others -> Own \union {Cleaning!Nobody}]
  BY <1>1, <1>2, RootFacts DEF SignalInv
<1>4. \A r \in Cleaning!Others :
        \/ life'[r] = "unborn" /\ reuses'[r] = Cleaning!Nobody
        \/ life'[r] # "unborn" /\ reuses'[r] \in Own /\ life'[reuses'[r]] = "dead"
  BY <1>1, <1>3 DEF SignalInv
<1>5. \A r \in Cleaning!Roots :
        life'[r] = "living" => r = <<command', "root">> /\ phase' = "running"
  BY <1>1, <1>3, RootFacts DEF SignalInv
<1>6. ASSUME scan'.stage = "signals", scan'.aim # Cleaning!Nobody
      PROVE  /\ \A r \in Cleaning!Others :
                  reuses'[r] = scan'.aim =>
                    /\ scan'.aim \notin Cleaning!Roots
                    /\ life'[r] = "living" => r \in fresh'
             /\ scan'.aim \in Cleaning!Roots =>
                  scan'.aim = <<command', "root">> /\ phase' = "running"
  BY <1>1, <1>3, <1>6 DEF SignalInv
<1>7. p \notin struck
  BY <1>1 DEF SignalInv
<1>8. \A r \in struck \intersect Cleaning!Others :
        r \in fresh' /\ life'[r] # "unborn" /\ reuses'[r] \notin Cleaning!Roots
  BY <1>1, <1>3, <1>7 DEF SignalInv
<1>9. /\ command' \in Nat
      /\ \A c \in Cleaning!Commands :
           c > command' => life'[<<c, "root">>] = "unborn"
  BY <1>1, <1>3, RootFacts DEF SignalInv
<1> QED
  BY <1>1, <1>3, <1>4, <1>5, <1>6, <1>8, <1>9 DEF SignalInv

LEMMA CloserSignals ==
  ASSUME CleanupInv, SignalInv, NEW c \in Calls, Cleaning!CloserStep(c)
  PROVE  SignalInv'
<1> USE DEF Cleaning!osVars, Cleaning!jsVars
<1>0. UNCHANGED <<life, reuses, command, phase>>
  BY DEF Cleaning!CloserStep, Cleaning!ReadTable, Cleaning!ReadMarkers,
         Cleaning!CheckAlive, Cleaning!Kill, Cleaning!SignalsEnd
<1>1. CASE Cleaning!ReadTable(c)
  <2>1. struck' = {} /\ scan'.stage = "reading"
    BY <1>1 DEF Cleaning!ReadTable
  <2> QED
    BY <1>0, <2>1 DEF SignalInv
<1>2. CASE Cleaning!ReadMarkers(c)
  <2>1. /\ struck' = {}
        /\ scan'.stage = "none" \/ scan'.aim = Cleaning!Nobody
    BY <1>2 DEF Cleaning!ReadMarkers, Cleaning!NoScan, Cleaning!StartsSignals
  <2> QED
    BY <1>0, <2>1 DEF SignalInv
<1>3. CASE Cleaning!CheckAlive(c)
  <2>1. struck' = {}
    BY <1>3 DEF Cleaning!CheckAlive
  <2>2. /\ scan'.aim \in Own \union {Cleaning!Nobody}
        /\ scan'.aim = Cleaning!Nobody \/ scan'.aim \in Cleaning!Living
    BY <1>3, CheckAliveAims DEF SignalRounds
  <2>3. CASE scan'.aim = Cleaning!Nobody
    BY <1>0, <2>1, <2>3 DEF SignalInv
  <2>4. CASE scan'.aim \in Own /\ life[scan'.aim] = "living"
    <3>1. Cleaning!Nobody # scan'.aim
      BY <2>4, OwnFacts
    <3>2. \A q \in Cleaning!Others : reuses[q] # scan'.aim
      BY <2>4, <3>1 DEF SignalInv
    <3>3. scan'.aim \in Cleaning!Roots =>
            scan'.aim = <<command, "root">> /\ phase = "running"
      BY <2>4 DEF SignalInv
    <3> QED
      BY <1>0, <2>1, <3>2, <3>3 DEF SignalInv
  <2> QED
    BY <2>2, <2>3, <2>4 DEF Cleaning!Living
<1>4. CASE Cleaning!Kill(c)
  <2>1. /\ scan.stage = "signals" /\ scan.aim # Cleaning!Nobody
        /\ scan' = [scan EXCEPT !.aim = Cleaning!Nobody]
        /\ struck' = Cleaning!Holders(scan.aim) /\ fresh' = fresh
    BY <1>4 DEF Cleaning!Kill, Cleaning!Signalling
  <2>2. scan \in SignalRounds
    BY <2>1 DEF CleanupInv
  <2>3. scan'.aim = Cleaning!Nobody /\ scan.aim \in Own
    BY <2>1, <2>2 DEF SignalRounds
  <2>4. \A p \in struck' \intersect Cleaning!Others :
          life[p] = "living" /\ reuses[p] = scan.aim
    BY <2>1, <2>3, RootFacts DEF Cleaning!Holders, Cleaning!Living
  <2>5. \A p \in struck' \intersect Cleaning!Others :
          /\ p \in fresh /\ life[p] # "unborn"
          /\ reuses[p] \notin Cleaning!Roots
    BY <2>1, <2>4 DEF SignalInv
  <2> QED
    BY <1>0, <2>1, <2>3, <2>5 DEF SignalInv
<1>5. CASE Cleaning!SignalsEnd(c)
  <2>1. struck' = {} /\ scan'.stage = "none"
    BY <1>5 DEF Cleaning!SignalsEnd, Cleaning!NoScan
  <2> QED
    BY <1>0, <2>1 DEF SignalInv
<1> QED
  BY <1>1, <1>2, <1>3, <1>4, <1>5 DEF Cleaning!CloserStep

LEMMA ExecuteSignals ==
  ASSUME CleanupInv, SignalInv,
         \/ Cleaning!Spawn \/ Cleaning!PollStarts \/ Cleaning!Expires
         \/ Cleaning!ExecuteStep
  PROVE  SignalInv'
<1> USE DEF Cleaning!osVars
<1>0. /\ UNCHANGED <<reuses, scan, fresh, struck>> /\ scan.stage = "none"
  BY DEF Cleaning!Spawn, Cleaning!PollStarts, Cleaning!Expires,
         Cleaning!ExecuteStep, Cleaning!PollEnds, Cleaning!Exits,
         Cleaning!CleansUp, Cleaning!Settles, Cleaning!Turn, Cleaning!NoScan
<1>1. CASE Cleaning!Spawn
  <2> DEFINE root == <<command', "root">>
  <2>1. /\ phase = "idle" /\ phase' = "running"
        /\ life' = [life EXCEPT ![root] = "living"]
        /\ command' \in Cleaning!Commands
    BY <1>1 DEF Cleaning!Spawn
  <2>2. /\ command \in Nat /\ command' \in Nat /\ command' > command
        /\ root \in Cleaning!Roots /\ life[root] = "unborn"
    <3>1. command \in Nat /\ command' = command + 1
      BY <1>1 DEF Cleaning!Spawn, SignalInv
    <3>2. command' \in Nat /\ command' > command
      BY <3>1
    <3>3. root \in Cleaning!Roots
      BY <2>1, RootFacts
    <3>4. life[root] = "unborn"
      BY <2>1, <3>2 DEF SignalInv
    <3> QED
      BY <3>1, <3>2, <3>3, <3>4
  <2>3. root \in Cleaning!Everyone
    BY <2>2, RootFacts
  <2> HIDE DEF root
  <2>4. /\ \A r \in Cleaning!Everyone \ {root} : life'[r] = life[r]
        /\ DOMAIN life = Cleaning!Everyone
    BY <2>1 DEF CleanupInv
  <2>5. \A q \in Cleaning!Others :
          \/ life'[q] = "unborn" /\ reuses[q] = Cleaning!Nobody
          \/ life'[q] # "unborn" /\ reuses[q] \in Own /\ life'[reuses[q]] = "dead"
    BY <2>2, <2>4, RootFacts DEF SignalInv
  <2>6. \A r \in Cleaning!Roots :
          life'[r] = "living" => r = root /\ phase' = "running"
    BY <2>1, <2>4, RootFacts DEF SignalInv
  <2>7. \A c \in Cleaning!Commands :
          c > command' => life'[<<c, "root">>] = "unborn"
    <3> SUFFICES ASSUME NEW c \in Cleaning!Commands, c > command'
                 PROVE  life'[<<c, "root">>] = "unborn"
      OBVIOUS
    <3>1. c > command /\ <<c, "root">> # root
      BY <2>1, <2>2 DEF root, Cleaning!Commands
    <3>2. <<c, "root">> \in Cleaning!Everyone
      BY RootFacts
    <3> QED
      BY <2>4, <3>1, <3>2 DEF SignalInv
  <2>8. \A p \in struck \intersect Cleaning!Others : life'[p] # "unborn"
    BY <2>2, <2>4, RootFacts DEF SignalInv
  <2> QED
    BY <1>0, <2>2, <2>5, <2>6, <2>7, <2>8 DEF SignalInv, root
<1>2. CASE Cleaning!Exits
  <2>1. /\ life[<<command, "root">>] = "dead" /\ UNCHANGED <<life, command>>
    BY <1>2 DEF Cleaning!Exits
  <2>2. \A r \in Cleaning!Roots : life[r] # "living"
    BY <2>1 DEF SignalInv
  <2> QED
    BY <1>0, <2>1, <2>2 DEF SignalInv
<1>3. CASE Cleaning!CleansUp \/ Cleaning!Settles
  <2>1. phase # "running" /\ UNCHANGED <<life, command>>
    BY <1>3 DEF Cleaning!CleansUp, Cleaning!Settles
  <2> QED
    BY <1>0, <2>1 DEF SignalInv
<1>4. CASE Cleaning!PollStarts \/ Cleaning!PollEnds \/ Cleaning!Expires
  <2>1. UNCHANGED <<life, command, phase>>
    BY <1>4 DEF Cleaning!PollStarts, Cleaning!PollEnds, Cleaning!Expires
  <2> QED
    BY <1>0, <2>1 DEF SignalInv
<1> QED
  BY <1>1, <1>2, <1>3, <1>4 DEF Cleaning!ExecuteStep

\* A step of the component keeps what is known of its signals.
LEMMA SignalKeeps ==
  ASSUME CleanupInv, SignalInv, [Cleaning!CleanupNext]_(Cleaning!cleanupVars)
  PROVE  SignalInv'
<1>1. CASE UNCHANGED Cleaning!cleanupVars
  BY <1>1 DEF Cleaning!cleanupVars, Cleaning!osVars, Cleaning!jsVars, SignalInv
<1>2. CASE \/ \E p, q \in Own : Cleaning!Fork(p, q)
           \/ \E p \in Cleaning!Everyone : Cleaning!End(p)
           \/ \E p \in Cleaning!Others, q \in Own : Cleaning!PidReused(p, q)
  BY <1>2, ForkSignals, EndSignals, PidReusedSignals
<1>3. CASE \E c \in Calls : Cleaning!CloserStep(c)
  BY <1>3, CloserSignals
<1>4. CASE \/ Cleaning!Spawn \/ Cleaning!PollStarts \/ Cleaning!Expires
           \/ Cleaning!ExecuteStep
  BY <1>4, ExecuteSignals
<1> QED
  BY <1>1, <1>2, <1>3, <1>4 DEF Cleaning!CleanupNext, Own, Calls

\* For any commands, descendants, strangers and scans: a process of somebody else
\* that was there when alive() looked is never hit, whatever pids were used again
\* before, and none is hit by the pid of a root.
THEOREM StrangersSparedTheorem == Cleaning!CleanupSpec => []StrangersSpared
<1>1. SignalInv => StrangersSpared
  BY DEF SignalInv, StrangersSpared, Cleaning!StrangersSpared
<1>2. CleanupInv /\ SignalInv /\ [Cleaning!CleanupNext]_(Cleaning!cleanupVars)
        => SignalInv'
  BY SignalKeeps
<1> QED
  BY <1>1, <1>2, SignalInitInv, CleanupInvariant, PTL DEF Cleaning!CleanupSpec

\* A cleanup that reports that nothing remains has missed nothing it could see:
\* what is left was born during its scan, or has neither the marker nor been
\* found before.
THEOREM EmptyMeansGoneTheorem == Cleaning!CleanupSpec => EmptyMeansGone
<1>1. CleanupInv /\ [Cleaning!CleanupNext]_(Cleaning!cleanupVars)
        => [\A c \in Calls :
              closer[c].state # "gone" /\ closer'[c].state = "gone"
              => \A p \in Cleaning!Living \ Cleaning!Others :
                   \/ p \in fresh
                   \/ p \in unmarked /\ p \notin closer[c].current
           ]_(Cleaning!cleanupVars)
  BY CleanupKeeps
<1> QED
  BY <1>1, CleanupInvariant, PTL
     DEF Cleaning!CleanupSpec, EmptyMeansGone, Cleaning!EmptyMeansGone, Calls

-----------------------------------------------------------------------------
(***************************************************************************)
(* Part 4.  What a poll is answered with.                                  *)
(***************************************************************************)
Requests ==
  [worker : Nat, capture : Contents \union {"none", "error"},
   state : {"pending", "resolved", "rejected"}]

\* If that request has a snapshot, it is from after the last save.
Since(k) ==
  requests[k].capture \in Contents => requests[k].capture \in sinceSave

PollTypes ==
  /\ version \in Nat /\ tree \in Contents /\ tree \in sinceSave
  /\ workers \in Nat /\ worker \in Nat
  /\ requests \in Seq(Requests) /\ DOMAIN poll = Polls

\* A cached capture is no newer than the record; as long as the record is as it
\* was then, so is what was captured.
CacheInv ==
  cache # Polling!NoEntry =>
    /\ cache.key \in Nat /\ cache.key <= version
    /\ cache.request \in DOMAIN requests
    /\ cache.key = version => Since(cache.request)

\* The same of what a poll waits for.
ReaderInv(p) ==
  poll[p].stage = "reading" =>
    /\ poll[p].version \in Nat /\ poll[p].version <= version
    /\ poll[p].request \in DOMAIN requests
    /\ poll[p].version = version => Since(poll[p].request)

PollInv == PollTypes /\ CacheInv /\ \A p \in Polls : ReaderInv(p)

\* Requests stay, and what is captured is in the worktree.
RequestsKept ==
  /\ requests' \in Seq(Requests) /\ DOMAIN requests \subseteq DOMAIN requests'
  /\ \A k \in DOMAIN requests :
       \/ requests'[k].capture = requests[k].capture
       \/ requests'[k].capture \in {tree, "error"}

LEMMA SinceKept ==
  ASSUME PollInv, RequestsKept, sinceSave \subseteq sinceSave',
         NEW k \in DOMAIN requests, Since(k)
  PROVE  /\ k \in DOMAIN requests'
         /\ requests'[k].capture \in Contents
              => requests'[k].capture \in sinceSave'
BY ContentsAssumption DEF PollInv, PollTypes, RequestsKept, Since

LEMMA PollInitInv == Polling!PollingInit => PollInv
<1> SUFFICES ASSUME Polling!PollingInit
             PROVE  PollInv
  OBVIOUS
<1>1. PollTypes
  BY DEF Polling!PollingInit, PollTypes
<1> QED
  BY <1>1 DEF Polling!PollingInit, Polling!Idle, PollInv, CacheInv, ReaderInv

\* A step that leaves the polls alone and does not save.
LEMMA NoPollKeeps ==
  ASSUME PollInv, RequestsKept, UNCHANGED <<version, poll>>,
         tree' \in Contents, tree' \in sinceSave', sinceSave \subseteq sinceSave',
         workers' \in Nat, worker' \in Nat, cache' \in {cache, Polling!NoEntry}
  PROVE  PollInv'
<1>1. PollTypes'
  BY DEF PollInv, PollTypes, RequestsKept
<1>2. \A k \in DOMAIN requests :
        /\ k \in DOMAIN requests'
        /\ Since(k) => (requests'[k].capture \in Contents
                           => requests'[k].capture \in sinceSave')
  <2> TAKE k \in DOMAIN requests
  <2> k \in DOMAIN requests'
    BY DEF RequestsKept
  <2> QED
    BY SinceKept
<1>3. CacheInv'
  <2>1. CASE cache' = cache
    BY <1>2, <2>1 DEF PollInv, CacheInv, Since
  <2>2. CASE cache' = Polling!NoEntry
    BY <2>2 DEF CacheInv
  <2> QED
    BY <2>1, <2>2
<1>4. ASSUME NEW p \in Polls
      PROVE  ReaderInv(p)'
  <2>1. ReaderInv(p)
    BY DEF PollInv
  <2> QED
    BY <1>2, <2>1 DEF ReaderInv, Since
<1> QED
  BY <1>1, <1>3, <1>4 DEF PollInv

\* One field of one request is set.
LEMMA FieldSet ==
  ASSUME PollInv, NEW k, NEW r, requests' = [requests EXCEPT ![k] = r],
         k \in DOMAIN requests =>
           /\ r \in Requests
           /\ r.capture = requests[k].capture \/ r.capture \in {tree, "error"}
  PROVE  RequestsKept
<1> HIDE DEF Requests
<1>1. requests \in Seq(Requests)
  BY DEF PollInv, PollTypes
<1>2. \A j \in DOMAIN requests : requests[j] \in Requests
  BY <1>1
<1>3. requests' \in [1 .. Len(requests) -> Requests]
  <2>1. requests \in [1 .. Len(requests) -> Requests]
    BY <1>1
  <2>2. CASE k \in DOMAIN requests
    BY <2>1, <2>2
  <2>3. CASE k \notin DOMAIN requests
    <3>1. requests' = requests
      BY <2>1, <2>3
    <3> QED
      BY <2>1, <3>1
  <2> QED
    BY <2>2, <2>3
<1>4. requests' \in Seq(Requests) /\ DOMAIN requests' = DOMAIN requests
  BY <1>1, <1>3
<1> QED
  BY <1>1, <1>4 DEF RequestsKept

LEMMA SameRequests ==
  ASSUME PollInv, requests' = requests
  PROVE  RequestsKept
BY DEF PollInv, PollTypes, RequestsKept

\* Captures, replies, deaths, edits, and the end of a cached entry.
LEMMA OthersKeep ==
  ASSUME PollInv,
         \/ Polling!Edit \/ Polling!CacheExpires \/ Polling!Close
         \/ Polling!ReaderStep \/ \E w \in alive : Polling!WorkerDies(w)
  PROVE  PollInv' /\ poll' = poll
<1> USE DEF Polling!recordVars, Polling!readerVars
<1>0. /\ tree \in Contents /\ tree \in sinceSave /\ requests \in Seq(Requests)
      /\ workers \in Nat /\ worker \in Nat
  BY DEF PollInv, PollTypes
<1>1. CASE Polling!Edit
  BY <1>0, <1>1, SameRequests, NoPollKeeps DEF Polling!Edit
<1>2. CASE \/ Polling!CacheExpires \/ Polling!Close
           \/ \E w \in alive : Polling!WorkerDies(w)
  <2>1. /\ UNCHANGED <<version, poll, tree, sinceSave, requests, worker,
                      workers>>
        /\ cache' \in {cache, Polling!NoEntry}
    BY <1>2 DEF Polling!CacheExpires, Polling!Close, Polling!WorkerDies
  <2> QED
    BY <1>0, <2>1, SameRequests, NoPollKeeps
<1>3. ASSUME NEW w \in alive, Polling!Capture(w)
      PROVE  PollInv' /\ poll' = poll
  <2>1. /\ UNCHANGED <<version, poll, tree, sinceSave, cache, worker, workers>>
    BY <1>3 DEF Polling!Capture
  <2>2. \E k : \E result \in {tree, "error"} :
          requests' = [requests EXCEPT ![k] =
                         [requests[k] EXCEPT !.capture = result]]
    BY <1>3 DEF Polling!Capture
  <2>3. PICK k : \E result \in {tree, "error"} :
          requests' = [requests EXCEPT ![k] =
                         [requests[k] EXCEPT !.capture = result]]
    BY <2>2
  <2>4. PICK result \in {tree, "error"} :
          requests' = [requests EXCEPT ![k] =
                         [requests[k] EXCEPT !.capture = result]]
    BY <2>3
  <2>5. ASSUME k \in DOMAIN requests
        PROVE  /\ [requests[k] EXCEPT !.capture = result] \in Requests
               /\ [requests[k] EXCEPT !.capture = result].capture = result
    <3>1. requests[k] \in Requests
      BY <1>0, <2>5
    <3> QED
      BY <1>0, <3>1 DEF Requests
  <2>6. RequestsKept
    <3> DEFINE r == [requests[k] EXCEPT !.capture = result]
    <3>1. requests' = [requests EXCEPT ![k] = r]
      BY <2>4
    <3>2. k \in DOMAIN requests =>
            r \in Requests /\ r.capture \in {tree, "error"}
      BY <2>4, <2>5
    <3> HIDE DEF r
    <3> QED
      BY <3>1, <3>2, FieldSet
  <2> QED
    BY <1>0, <2>1, <2>6, NoPollKeeps
<1>4. ASSUME NEW k \in replies, Polling!OnReply(k)
      PROVE  PollInv' /\ poll' = poll
  <2>1. /\ UNCHANGED <<version, poll, tree, sinceSave, worker, workers>>
        /\ cache' \in {cache, Polling!NoEntry}
        /\ \/ requests' = requests
           \/ \E state \in {"rejected", "resolved"} :
                requests' = [requests EXCEPT ![k] =
                               [requests[k] EXCEPT !.state = state]]
    BY <1>4 DEF Polling!OnReply
  <2>2. RequestsKept
    <3>1. CASE requests' = requests
      BY <3>1, SameRequests
    <3>2. ASSUME NEW state \in {"rejected", "resolved"},
                 requests' = [requests EXCEPT ![k] =
                                [requests[k] EXCEPT !.state = state]]
          PROVE  RequestsKept
      <4> DEFINE r == [requests[k] EXCEPT !.state = state]
      <4>1. requests' = [requests EXCEPT ![k] = r]
        BY <3>2
      <4>2. ASSUME k \in DOMAIN requests
            PROVE  r \in Requests /\ r.capture = requests[k].capture
        <5>1. requests[k] \in Requests
          BY <1>0, <4>2
        <5> QED
          BY <5>1 DEF Requests
      <4> HIDE DEF r
      <4> QED
        BY <4>1, <4>2, FieldSet
    <3> QED
      BY <2>1, <3>1, <3>2
  <2> QED
    BY <1>0, <2>1, <2>2, NoPollKeeps
<1>5. ASSUME NEW d \in deaths, Polling!OnDeath(d[1], d[2])
      PROVE  PollInv' /\ poll' = poll
  <2>1. /\ UNCHANGED <<version, poll, tree, sinceSave, workers>>
        /\ cache' \in {cache, Polling!NoEntry} /\ worker' \in {0, worker}
        /\ requests' \in {requests, Polling!AllRejected}
    BY <1>5 DEF Polling!OnDeath
  <2>2. /\ Polling!AllRejected \in Seq(Requests)
        /\ DOMAIN Polling!AllRejected = DOMAIN requests
        /\ \A k \in DOMAIN requests :
             Polling!AllRejected[k].capture = requests[k].capture
    <3>1. \A k \in DOMAIN requests :
            /\ Polling!Reject(k) \in Requests
            /\ Polling!Reject(k).capture = requests[k].capture
      <4> TAKE k \in DOMAIN requests
      <4>1. requests[k] \in Requests
        BY <1>0
      <4> QED
        BY <4>1 DEF Polling!Reject, Requests
    <3> HIDE DEF Requests
    <3>2. Polling!AllRejected \in [1 .. Len(requests) -> Requests]
      BY <1>0, <3>1 DEF Polling!AllRejected
    <3>3. Polling!AllRejected \in Seq(Requests)
      BY <1>0, <3>2
    <3> QED
      BY <1>0, <3>1, <3>3 DEF Polling!AllRejected
  <2>3. RequestsKept
    BY <1>0, <2>1, <2>2, SameRequests DEF RequestsKept
  <2> QED
    BY <1>0, <2>1, <2>3, NoPollKeeps
<1> QED
  BY <1>1, <1>2, <1>3, <1>4, <1>5 DEF Polling!ReaderStep

\* After a save, nothing captured before stands for the record.
LEMMA SaveKeeps ==
  ASSUME PollInv, Polling!Save
  PROVE  PollInv' /\ poll' = poll
<1>1. /\ version' = version + 1 /\ sinceSave' = {tree} /\ version \in Nat
      /\ UNCHANGED <<tree, poll, cache, requests, worker, workers>>
  BY DEF Polling!Save, Polling!readerVars, PollInv, PollTypes
<1>2. CacheInv'
  BY <1>1 DEF PollInv, CacheInv
<1>3. \A p \in Polls : ReaderInv(p)'
  BY <1>1 DEF PollInv, ReaderInv
<1> QED
  BY <1>1, <1>2, <1>3 DEF PollInv, PollTypes

-----------------------------------------------------------------------------
\* What an answer may say.
Current(shown, digest) ==
  digest # "error" =>
    shown = version /\ (digest \in Contents => digest \in sinceSave)

LEMMA AnswersKeep ==
  ASSUME PollInv, NEW p \in Polls, NEW shown, NEW digest,
         Polling!Answers(p, shown, digest), Current(shown, digest),
         UNCHANGED Polling!recordVars
  PROVE  /\ PollInv'
         /\ \A q \in Polls : poll'[q] # poll[q] /\ poll'[q].stage = "answered" =>
              Current(poll'[q].version, poll'[q].digest)
<1>1. /\ UNCHANGED <<version, tree, sinceSave, cache, requests, worker, workers>>
      /\ poll' = [poll EXCEPT ![p] = [stage |-> "answered", version |-> shown,
                                      digest |-> digest]]
  BY DEF Polling!Answers, Polling!recordVars, Polling!readerVars
<1>2. DOMAIN poll = Polls
  BY DEF PollInv, PollTypes
<1>3. /\ poll'[p].stage = "answered" /\ poll'[p].version = shown
      /\ poll'[p].digest = digest
      /\ \A q \in Polls \ {p} : poll'[q] = poll[q]
  BY <1>1, <1>2
<1>4. PollTypes' /\ CacheInv'
  BY <1>1, <1>2 DEF PollInv, PollTypes, CacheInv, Since
<1>5. \A q \in Polls : ReaderInv(q)'
  BY <1>1, <1>3 DEF PollInv, ReaderInv, Since
<1> QED
  BY <1>3, <1>4, <1>5 DEF PollInv

\* A poll reads on from a capture that is made since, or will be.
LEMMA ReadsKeep ==
  ASSUME PollInv, NEW p \in Polls, Polling!Reads(p),
         UNCHANGED Polling!recordVars
  PROVE  /\ PollInv'
         /\ \A q \in Polls : poll'[q] = poll[q] \/ poll'[q].stage = "reading"
<1> DEFINE k == IF Polling!Usable THEN cache.request ELSE Len(requests) + 1
           x == [stage |-> "reading", version |-> version, request |-> k]
<1>1. /\ UNCHANGED <<version, tree, sinceSave>>
      /\ poll' = [poll EXCEPT ![p] = x]
  BY DEF Polling!Reads, Polling!recordVars
<1>2. PollTypes
  BY DEF PollInv
<1>3. /\ poll'[p].stage = "reading" /\ poll'[p].version = version
      /\ poll'[p].request = k
      /\ \A q \in Polls \ {p} : poll'[q] = poll[q]
  BY <1>1, <1>2 DEF PollTypes
<1> HIDE DEF x
<1>4. CASE Polling!Usable
  <2>1. UNCHANGED <<cache, requests, worker, workers>>
    BY <1>4 DEF Polling!Reads, Polling!readerVars
  <2>2. k \in DOMAIN requests /\ Since(k)
    BY <1>4 DEF Polling!Usable, PollInv, CacheInv
  <2> HIDE DEF k
  <2>3. PollTypes' /\ CacheInv'
    BY <1>1, <2>1 DEF PollInv, PollTypes, CacheInv, Since
  <2>4. \A q \in Polls : ReaderInv(q)'
    BY <1>1, <1>2, <1>3, <2>1, <2>2 DEF PollInv, PollTypes, ReaderInv, Since
  <2> QED
    BY <1>3, <2>3, <2>4 DEF PollInv
<1>5. CASE ~Polling!Usable
  <2> DEFINE r == [worker |-> worker', capture |-> "none", state |-> "pending"]
  <2>1. /\ workers' = IF worker = 0 THEN workers + 1 ELSE workers
        /\ worker' = IF worker = 0 THEN workers' ELSE worker
        /\ requests' = Append(requests, r)
        /\ cache' = [key |-> version, request |-> Len(requests')]
    BY <1>5 DEF Polling!Reads
  <2>2. workers' \in Nat /\ worker' \in Nat
    BY <1>2, <2>1 DEF PollTypes
  <2>3. r \in Requests /\ r.capture = "none"
    BY <2>2 DEF Requests
  <2>4. k = Len(requests) + 1
    BY <1>5
  <2> HIDE DEF r, k
  <2>5. /\ requests' \in Seq(Requests)
        /\ Len(requests') = k /\ k \in DOMAIN requests'
        /\ requests'[k] = r
        /\ \A j \in DOMAIN requests :
             j \in DOMAIN requests' /\ requests'[j] = requests[j]
    BY <1>2, <2>1, <2>3, <2>4 DEF PollTypes
  <2>6. RequestsKept
    BY <2>5 DEF RequestsKept
  <2>7. requests'[k].capture \notin Contents
    BY <2>3, <2>5, ContentsAssumption
  <2>8. cache'.key = version /\ cache'.request = k
    BY <2>1, <2>5
  <2>9. PollTypes' /\ CacheInv'
    BY <1>1, <1>2, <2>2, <2>5, <2>7, <2>8 DEF PollTypes, CacheInv, Since
  <2>10. ReaderInv(p)'
    BY <1>1, <1>2, <1>3, <2>5, <2>7 DEF PollTypes, ReaderInv, Since
  <2>11. ASSUME NEW q \in Polls \ {p}
         PROVE  ReaderInv(q)'
    <3>1. ReaderInv(q) /\ poll'[q] = poll[q]
      BY <1>3 DEF PollInv
    <3> QED
      BY <1>1, <2>5, <3>1 DEF ReaderInv, Since
  <2> QED
    BY <1>3, <2>9, <2>10, <2>11 DEF PollInv
<1> QED
  BY <1>4, <1>5

LEMMA AsksKeep ==
  ASSUME PollInv, NEW p \in Polls, Polling!Asks(p),
         UNCHANGED Polling!recordVars
  PROVE  /\ PollInv'
         /\ \A q \in Polls : poll'[q] # poll[q] /\ poll'[q].stage = "answered" =>
              Current(poll'[q].version, poll'[q].digest)
<1>1. Current(version, "none")
  BY ContentsAssumption DEF Current
<1> QED
  BY <1>1, AnswersKeep, ReadsKeep DEF Polling!Asks

LEMMA PollKeeps ==
  ASSUME PollInv, [Polling!PollingNext]_(Polling!pollingVars)
  PROVE  /\ PollInv'
         /\ \A q \in Polls : poll'[q] # poll[q] /\ poll'[q].stage = "answered" =>
              Current(poll'[q].version, poll'[q].digest)
<1>1. ASSUME NEW p \in Polls, Polling!Ask(p)
      PROVE  /\ PollInv'
             /\ \A q \in Polls :
                  poll'[q] # poll[q] /\ poll'[q].stage = "answered" =>
                    Current(poll'[q].version, poll'[q].digest)
  BY <1>1, AsksKeep DEF Polling!Ask
<1>2. ASSUME NEW p \in Polls, Polling!Continue(p)
      PROVE  /\ PollInv'
             /\ \A q \in Polls :
                  poll'[q] # poll[q] /\ poll'[q].stage = "answered" =>
                    Current(poll'[q].version, poll'[q].digest)
  <2>1. CASE ~Polling!Outdated(p)
    <3>1. Current(poll[p].version, requests[poll[p].request].capture)
      BY <1>2, <2>1
         DEF Polling!Continue, Polling!Outdated, PollInv, ReaderInv, Since,
             Current
    <3> QED
      BY <1>2, <2>1, <3>1, AnswersKeep DEF Polling!Continue
  <2> QED
    BY <1>2, <2>1, AsksKeep DEF Polling!Continue
<1>3. ASSUME NEW p \in Polls, Polling!Fails(p)
      PROVE  /\ PollInv'
             /\ \A q \in Polls :
                  poll'[q] # poll[q] /\ poll'[q].stage = "answered" =>
                    Current(poll'[q].version, poll'[q].digest)
  <2>1. Current(poll[p].version, "error")
    BY DEF Current
  <2> QED
    BY <1>3, <2>1, AnswersKeep DEF Polling!Fails
<1>4. CASE UNCHANGED Polling!pollingVars
  BY <1>4 DEF Polling!pollingVars, Polling!recordVars, Polling!readerVars,
              PollInv, PollTypes, CacheInv, ReaderInv, Since
<1> QED
  BY <1>1, <1>2, <1>3, <1>4, OthersKeep, SaveKeeps DEF Polling!PollingNext

\* An answer with a snapshot shows the record as it is, and a snapshot from
\* after its last save, for any polls that share captures and their cache, and
\* however many workers die.
THEOREM AnswerIsCurrentTheorem == Polling!PollingSpec => AnswerIsCurrent
<1>1. PollInv /\ [Polling!PollingNext]_(Polling!pollingVars) => PollInv'
  BY PollKeeps
<1>2. PollInv /\ [Polling!PollingNext]_(Polling!pollingVars)
        => [\A p \in Polls :
              Polling!Settles(p) /\ poll'[p].digest # "error"
                => /\ poll'[p].version = version
                   /\ poll'[p].digest \in Contents
                        => poll'[p].digest \in sinceSave
           ]_(Polling!pollingVars)
  BY PollKeeps DEF Polling!Settles, Current
<1> QED
  BY <1>1, <1>2, PollInitInv, PTL
     DEF Polling!PollingSpec, AnswerIsCurrent, Polling!AnswerIsCurrent

-----------------------------------------------------------------------------
(***************************************************************************)
(* Part 5.  The agents of a ticket.  A projection is a fold of the journal *)
(* over the sessions that the attempts register: what a fold gives is      *)
(* shown by induction on the entries it reads.                             *)
(***************************************************************************)
Less == {pair \in Nat \X Nat : pair[1] < pair[2]}

LEMMA NatSet ==
  ASSUME NEW S \in SUBSET Nat, 0 \in S, \A n \in S : n + 1 \in S
  PROVE  S = Nat
<1>1. IsWellFoundedOn(Less, Nat)
  BY NatLessThanWellFounded DEF OpToRel, Less
<1>2. ASSUME Nat \ S # {}
      PROVE  FALSE
  <2> DEFINE T == Nat \ S
  <2>1. T \subseteq Nat /\ T # {}
    BY <1>2
  <2> HIDE DEF T
  <2>2. PICK x \in T : \A y \in T : ~(<<y, x>> \in Less)
    BY <1>1, <2>1, WFMin
  <2>3. x \in Nat /\ x \notin S
    BY <2>2 DEF T
  <2>4. x # 0 /\ x - 1 \in Nat /\ <<x - 1, x>> \in Less
    BY <2>3 DEF Less
  <2>5. x - 1 \notin S
    BY <2>3, <2>4
  <2> QED
    BY <2>2, <2>4, <2>5 DEF T
<1> QED
  BY <1>2

\* f[k] is what entries first + 1 to k of l make of K.
IsFold(f, K, l, first, last) ==
  f = [k \in first .. last |->
         IF k = first THEN K ELSE Watching!Follow(f[k - 1], l[k])]
Folded(K, l, first, last) ==
  (CHOOSE f : IsFold(f, K, l, first, last))[last]

LEMMA FoldFirst ==
  ASSUME NEW K, NEW l, NEW m \in Nat, NEW n \in Nat, NEW f,
         IsFold(f, K, l, m, n), m <= n
  PROVE  f[m] = K
BY DEF IsFold

LEMMA FoldNext ==
  ASSUME NEW K, NEW l, NEW m \in Nat, NEW n \in Nat, NEW f,
         IsFold(f, K, l, m, n), NEW k \in m .. n, k < n
  PROVE  f[k + 1] = Watching!Follow(f[k], l[k + 1])
<1>1. k + 1 \in m .. n /\ k + 1 # m /\ (k + 1) - 1 = k
  OBVIOUS
<1>2. f[k + 1] = Watching!Follow(f[(k + 1) - 1], l[k + 1])
  BY <1>1 DEF IsFold
<1> QED
  BY <1>1, <1>2

LEMMA FoldExists ==
  ASSUME NEW K, NEW l, NEW m \in Nat, NEW n \in Nat, m <= n
  PROVE  \E f : IsFold(f, K, l, m, n)
<1> DEFINE S == {d \in Nat : \E f : IsFold(f, K, l, m, m + d)}
<1>1. 0 \in S
  <2> DEFINE f == [k \in m .. m + 0 |-> K]
  <2>1. IsFold(f, K, l, m, m + 0)
    BY DEF IsFold
  <2> QED
    BY <2>1
<1>2. ASSUME NEW d \in S
      PROVE  d + 1 \in S
  <2>1. PICK f : IsFold(f, K, l, m, m + d)
    OBVIOUS
  <2> DEFINE D == m .. m + (d + 1)
             g == [k \in D |-> IF k <= m + d THEN f[k]
                                 ELSE Watching!Follow(f[m + d], l[k])]
  <2>2. f[m] = K /\ m + d \in Nat
    BY <2>1, FoldFirst
  <2>3. ASSUME NEW k \in D
        PROVE  g[k] = IF k = m THEN K ELSE Watching!Follow(g[k - 1], l[k])
    <3>1. CASE k = m
      BY <2>2, <3>1
    <3>2. CASE k # m /\ k <= m + d
      <4>1. k - 1 \in m .. m + d /\ k - 1 < m + d /\ k - 1 \in D
        BY <3>2
      <4>2. f[k] = Watching!Follow(f[k - 1], l[k])
        <5> DEFINE j == k - 1
        <5>1. j \in m .. m + d /\ j < m + d /\ j + 1 = k /\ m + d \in Nat
          BY <4>1
        <5> HIDE DEF j, S, g
        <5>2. f[j + 1] = Watching!Follow(f[j], l[j + 1])
          BY <2>1, <5>1, FoldNext
        <5> QED
          BY <5>1, <5>2 DEF j
      <4> QED
        BY <3>2, <4>1, <4>2
    <3>3. CASE k = m + (d + 1)
      <4>1. k - 1 = m + d /\ k - 1 \in D /\ k # m /\ ~(k <= m + d)
        BY <3>3
      <4>2. g[k - 1] = f[m + d]
        BY <4>1
      <4>3. g[k] = Watching!Follow(f[m + d], l[k])
        BY <4>1
      <4> QED
        BY <4>1, <4>2, <4>3
    <3> QED
      BY <3>1, <3>2, <3>3
  <2>4. g = [k \in D |-> g[k]]
    OBVIOUS
  <2> HIDE DEF g
  <2>5. g = [k \in D |-> IF k = m THEN K ELSE Watching!Follow(g[k - 1], l[k])]
    BY <2>3, <2>4
  <2>6. IsFold(g, K, l, m, m + (d + 1))
    BY <2>5 DEF IsFold
  <2> QED
    BY <2>6
<1>3. n - m \in S
  <2> HIDE DEF S
  <2>1. S \in SUBSET Nat
    BY DEF S
  <2>2. S = Nat
    BY <1>1, <1>2, <2>1, NatSet
  <2> QED
    BY <2>2
<1>4. m + (n - m) = n
  OBVIOUS
<1> QED
  BY <1>3, <1>4

\* Two folds of the same entries agree as far as both go.
LEMMA FoldsAgree ==
  ASSUME NEW K, NEW l, NEW m \in Nat, NEW n \in Nat, NEW f, NEW g,
         IsFold(f, K, l, m, n), IsFold(g, K, l, m, n + 1), m <= n
  PROVE  f[n] = g[n]
<1>1. f[m] = K
  BY FoldFirst
<1>2. g[m] = K
  <2>1. n + 1 \in Nat /\ m <= n + 1
    OBVIOUS
  <2> QED
    BY <2>1, FoldFirst
<1> DEFINE S == {d \in Nat : m + d <= n => f[m + d] = g[m + d]}
<1>3. 0 \in S
  BY <1>1, <1>2
<1>4. ASSUME NEW d \in S
      PROVE  d + 1 \in S
  <2> SUFFICES ASSUME m + (d + 1) <= n
               PROVE  f[m + (d + 1)] = g[m + (d + 1)]
    OBVIOUS
  <2>1. f[m + d] = g[m + d]
    OBVIOUS
  <2>2. /\ m + d \in m .. n /\ m + d < n /\ m + d \in m .. n + 1
        /\ m + d < n + 1 /\ (m + d) + 1 = m + (d + 1)
    OBVIOUS
  <2> DEFINE k == m + d
  <2> HIDE DEF k
  <2>3. f[k + 1] = Watching!Follow(f[k], l[k + 1])
    <3>1. k \in m .. n /\ k < n
      BY <2>2 DEF k
    <3> HIDE DEF S
    <3> QED
      BY <3>1, FoldNext
  <2>4. g[k + 1] = Watching!Follow(g[k], l[k + 1])
    <3>1. n + 1 \in Nat /\ k \in m .. n + 1 /\ k < n + 1
      BY <2>2 DEF k
    <3> QED
      BY <3>1, FoldNext
  <2> QED
    BY <2>1, <2>2, <2>3, <2>4 DEF k
<1>5. n - m \in S
  <2> HIDE DEF S
  <2>1. S \in SUBSET Nat
    BY DEF S
  <2>2. S = Nat
    BY <1>3, <1>4, <2>1, NatSet
  <2> QED
    BY <2>2
<1>6. m + (n - m) = n
  OBVIOUS
<1> QED
  BY <1>5, <1>6

LEMMA FoldedFirst ==
  ASSUME NEW K, NEW l, NEW m \in Nat
  PROVE  Folded(K, l, m, m) = K
<1> DEFINE f == CHOOSE h : IsFold(h, K, l, m, m)
<1>1. \E h : IsFold(h, K, l, m, m)
  BY FoldExists, m <= m
<1>2. IsFold(f, K, l, m, m)
  BY <1>1
<1>3. Folded(K, l, m, m) = f[m]
  BY DEF Folded
<1> HIDE DEF f
<1> QED
  BY <1>2, <1>3, FoldFirst

LEMMA FoldedNext ==
  ASSUME NEW K, NEW l, NEW m \in Nat, NEW n \in Nat, m <= n
  PROVE  Folded(K, l, m, n + 1)
           = Watching!Follow(Folded(K, l, m, n), l[n + 1])
<1> DEFINE f == CHOOSE h : IsFold(h, K, l, m, n)
           g == CHOOSE h : IsFold(h, K, l, m, n + 1)
<1>1. IsFold(f, K, l, m, n) /\ Folded(K, l, m, n) = f[n]
  BY FoldExists DEF Folded
<1>2. IsFold(g, K, l, m, n + 1) /\ Folded(K, l, m, n + 1) = g[n + 1]
  <2>1. n + 1 \in Nat /\ m <= n + 1
    OBVIOUS
  <2> QED
    BY <2>1, FoldExists DEF Folded
<1> HIDE DEF f, g
<1>3. f[n] = g[n]
  BY <1>1, <1>2, FoldsAgree
<1>4. g[n + 1] = Watching!Follow(g[n], l[n + 1])
  <2>1. n + 1 \in Nat /\ n \in m .. n + 1 /\ n < n + 1
    OBVIOUS
  <2> QED
    BY <1>2, <2>1, FoldNext
<1> QED
  BY <1>1, <1>2, <1>3, <1>4

Notes == [kind : Watching!AllKinds \union {"processes"},
          session : Nat \X {"worker", "child"}]

LEMMA CaughtUpIs ==
  ASSUME NEW c \in Nat, NEW K, c <= Len(log), log \in Seq(Notes)
  PROVE  Watching!CaughtUp([cursor |-> c, known |-> K])
           = [cursor |-> Len(log),
              known |-> Folded(Watching!Registered(K), log, c, Len(log))]
BY DEF Watching!CaughtUp, Folded, IsFold

\* What holds of two folds at their beginning, and is kept by every entry,
\* holds at their end.
LEMMA FoldsKeep ==
  ASSUME NEW K, NEW L, NEW k0, NEW l0, NEW m \in Nat, NEW n \in Nat, m <= n,
         NEW T, <<K, L>> \in T,
         \A i \in m + 1 .. n : \A x, y :
           <<x, y>> \in T => <<Watching!Follow(x, k0[i]),
                               Watching!Follow(y, l0[i])>> \in T
  PROVE  <<Folded(K, k0, m, n), Folded(L, l0, m, n)>> \in T
<1> DEFINE S == {d \in Nat : m + d <= n =>
                   <<Folded(K, k0, m, m + d), Folded(L, l0, m, m + d)>> \in T}
<1>1. 0 \in S
  <2>1. m + 0 = m
    OBVIOUS
  <2>2. <<Folded(K, k0, m, m), Folded(L, l0, m, m)>> \in T
    BY FoldedFirst
  <2> QED
    BY <2>1, <2>2
<1>2. ASSUME NEW d \in S
      PROVE  d + 1 \in S
  <2> SUFFICES ASSUME m + (d + 1) <= n
               PROVE  <<Folded(K, k0, m, m + (d + 1)),
                        Folded(L, l0, m, m + (d + 1))>> \in T
    OBVIOUS
  <2> DEFINE i == m + d
  <2>1. /\ i \in Nat /\ m <= i /\ i + 1 = m + (d + 1) /\ i + 1 \in m + 1 .. n
    OBVIOUS
  <2>2. <<Folded(K, k0, m, i), Folded(L, l0, m, i)>> \in T
    OBVIOUS
  <2> HIDE DEF i
  <2>3. /\ Folded(K, k0, m, i + 1)
             = Watching!Follow(Folded(K, k0, m, i), k0[i + 1])
        /\ Folded(L, l0, m, i + 1)
             = Watching!Follow(Folded(L, l0, m, i), l0[i + 1])
    <3> HIDE DEF S
    <3> QED
      BY <2>1, FoldedNext
  <2>4. <<Folded(K, k0, m, i + 1), Folded(L, l0, m, i + 1)>> \in T
    BY <2>1, <2>2, <2>3
  <2> QED
    BY <2>1, <2>4
<1>3. n - m \in S
  <2> HIDE DEF S
  <2>1. S \in SUBSET Nat
    BY DEF S
  <2>2. S = Nat
    BY <1>1, <1>2, <2>1, NatSet
  <2> QED
    BY <2>2
<1>4. m + (n - m) = n
  OBVIOUS
<1> QED
  BY <1>3, <1>4

\* A fold may stop and go on.
LEMMA FoldGoesOn ==
  ASSUME NEW K, NEW l, NEW m \in Nat, NEW c \in Nat, NEW n \in Nat,
         m <= c, c <= n
  PROVE  Folded(Folded(K, l, m, c), l, c, n) = Folded(K, l, m, n)
<1> DEFINE L == Folded(K, l, m, c)
<1> HIDE DEF L
<1> DEFINE S == {d \in Nat : Folded(L, l, c, c + d) = Folded(K, l, m, c + d)}
<1>1. 0 \in S
  <2>1. c + 0 = c
    OBVIOUS
  <2>2. Folded(L, l, c, c) = L
    BY FoldedFirst
  <2> QED
    BY <2>1, <2>2 DEF L
<1>2. ASSUME NEW d \in S
      PROVE  d + 1 \in S
  <2>1. Folded(L, l, c, c + d) = Folded(K, l, m, c + d)
    OBVIOUS
  <2> DEFINE i == c + d
  <2>2. i \in Nat /\ c <= i /\ m <= i /\ i + 1 = c + (d + 1)
    OBVIOUS
  <2> HIDE DEF i
  <2>3. /\ Folded(L, l, c, i + 1)
             = Watching!Follow(Folded(L, l, c, i), l[i + 1])
        /\ Folded(K, l, m, i + 1)
             = Watching!Follow(Folded(K, l, m, i), l[i + 1])
    <3> HIDE DEF S
    <3> QED
      BY <2>2, FoldedNext
  <2>4. Folded(L, l, c, i + 1) = Folded(K, l, m, i + 1)
    BY <2>1, <2>3 DEF i
  <2> QED
    BY <2>2, <2>4
<1>3. n - c \in S
  <2> HIDE DEF S
  <2>1. S \in SUBSET Nat
    BY DEF S
  <2>2. S = Nat
    BY <1>1, <1>2, <2>1, NatSet
  <2> QED
    BY <2>2
<1>4. c + (n - c) = n
  OBVIOUS
<1> QED
  BY <1>3, <1>4 DEF L

-----------------------------------------------------------------------------
Statuses == {"absent", "unknown", "running", "idle", "ended"}
Agent == [attempt : Nat, status : Statuses]
Knowns == [Watching!Sessions -> Agent]

Unseen == Watching!Absent

\* What a notification does to the agents.
LEMMA FollowSets ==
  ASSUME NEW K \in Knowns, NEW e,
         e.kind \in Watching!Notifications => e.session \in Watching!Sessions
  PROVE  \/ Watching!Follow(K, e) = K
         \/ /\ e.kind \in Watching!Notifications
            /\ K[e.session] # Unseen \/ K[Watching!Parent(e.session)] # Unseen
            /\ \E a \in Agent \ {Unseen} :
                 Watching!Follow(K, e) = [K EXCEPT ![e.session] = a]
<1> DEFINE s == e.session
           p == Watching!Parent(s)
<1>1. CASE e.kind = "started" /\ K[p] # Unseen
  <2>1. s \in Watching!Sessions
    BY <1>1 DEF Watching!Notifications
  <2>2. p \in Watching!Sessions
    BY <2>1 DEF Watching!Sessions, Watching!Parent, Watching!Worker
  <2> DEFINE a == [attempt |-> K[p].attempt, status |-> "running"]
  <2>3. K[p] \in Agent
    BY <2>2 DEF Knowns
  <2>4. a \in Agent /\ a # Unseen
    BY <2>3 DEF Agent, Statuses, Unseen, Watching!Absent
  <2>5. Watching!Follow(K, e) = [K EXCEPT ![s] = a]
    BY <1>1 DEF Watching!Follow, Unseen
  <2> HIDE DEF a
  <2> QED
    BY <1>1, <2>4, <2>5 DEF Watching!Notifications
<1>2. CASE /\ ~(e.kind = "started" /\ K[p] # Unseen)
           /\ e.kind \in Watching!Notifications \ {"started"} /\ K[s] # Unseen
  <2>1. s \in Watching!Sessions
    BY <1>2
  <2> DEFINE status == IF e.kind = "finished" THEN "ended" ELSE e.kind
             a == [K[s] EXCEPT !.status = status]
  <2>2. K[s] \in Agent
    BY <2>1 DEF Knowns
  <2>3. status \in {"running", "idle", "ended"}
    BY <1>2 DEF Watching!Notifications
  <2>4. Watching!Follow(K, e) = [K EXCEPT ![s] = a]
    BY <1>2 DEF Watching!Follow, Unseen
  <2> HIDE DEF status
  <2>5. a \in Agent /\ a.status = status
    BY <2>2, <2>3 DEF Agent, Statuses
  <2>6. a # Unseen
    BY <2>3, <2>5 DEF Unseen, Watching!Absent
  <2> HIDE DEF a
  <2> QED
    BY <1>2, <2>4, <2>5, <2>6
<1>3. CASE /\ ~(e.kind = "started" /\ K[p] # Unseen)
           /\ ~(/\ e.kind \in Watching!Notifications \ {"started"}
                /\ K[s] # Unseen)
  BY <1>3 DEF Watching!Follow, Unseen
<1> QED
  BY <1>1, <1>2, <1>3

LEMMA FollowKeeps ==
  ASSUME NEW K \in Knowns, NEW e,
         e.kind \in Watching!Notifications => e.session \in Watching!Sessions
  PROVE  /\ Watching!Follow(K, e) \in Knowns
         /\ \A s \in Watching!Sessions :
              /\ K[s] # Unseen => Watching!Follow(K, e)[s] # Unseen
              /\ Watching!Follow(K, e)[s] # Unseen =>
                   K[s] # Unseen \/ K[Watching!Worker(s[1])] # Unseen
<1>1. CASE Watching!Follow(K, e) = K
  BY <1>1
<1>2. CASE Watching!Follow(K, e) # K
  <2>1. /\ e.session \in Watching!Sessions
        /\ \/ K[e.session] # Unseen
           \/ K[Watching!Parent(e.session)] # Unseen
        /\ \E a \in Agent \ {Unseen} :
             Watching!Follow(K, e) = [K EXCEPT ![e.session] = a]
    BY <1>2, FollowSets
  <2>2. PICK a \in Agent \ {Unseen} :
          Watching!Follow(K, e) = [K EXCEPT ![e.session] = a]
    BY <2>1
  <2> QED
    BY <2>1, <2>2 DEF Knowns, Watching!Parent
<1> QED
  BY <1>1, <1>2

-----------------------------------------------------------------------------
\* The agents K with those of the sessions ids.
Reg(K, ids) ==
  [s \in Watching!Sessions |->
     IF K[s] = Unseen /\ s[2] = "worker" /\ s[1] \in ids
     THEN [attempt |-> s[1], status |-> "unknown"] ELSE K[s]]

Ids == {attempts[n].session : n \in DOMAIN attempts}

\* A new attempt's own session has its number; a resumed one goes by that of
\* the first attempt that had it.
AttemptsInv ==
  /\ attempts \in Seq([session : Nat, ended : BOOLEAN, clean : BOOLEAN])
  /\ Len(attempts) <= MaxRuns
  /\ \A n \in DOMAIN attempts :
       LET i == attempts[n].session
       IN i \in 1 .. n /\ attempts[i].session = i

LEMMA RegisteredIs ==
  ASSUME AttemptsInv, NEW K \in Knowns
  PROVE  Watching!Registered(K) = Reg(K, Ids)
<1>1. ASSUME NEW s \in Watching!Sessions
      PROVE  Watching!RegisteredAgain(K)[s]
               = IF s[2] = "worker" /\ s[1] \in Ids
                 THEN [attempt |-> s[1], status |-> "unknown"] ELSE K[s]
  <2> DEFINE i == s[1]
  <2>0. s = <<i, s[2]>> /\ i \in Nat
    BY DEF Watching!Sessions
  <2>1. (\E n \in DOMAIN attempts : Watching!Worker(attempts[n].session) = s)
          <=> s[2] = "worker" /\ i \in Ids
    BY <2>0 DEF Watching!Worker, Ids
  <2>2. ASSUME s[2] = "worker", i \in Ids
        PROVE  (CHOOSE n \in DOMAIN attempts :
                  /\ Watching!Worker(attempts[n].session) = s
                  /\ \A m \in 1 .. n - 1 : attempts[m].session # i) = i
    <3> DEFINE P(n) == /\ Watching!Worker(attempts[n].session) = s
                       /\ \A m \in 1 .. n - 1 : attempts[m].session # i
    <3>1. DOMAIN attempts = 1 .. Len(attempts) /\ Len(attempts) \in Nat
      BY DEF AttemptsInv
    <3>2. i \in DOMAIN attempts /\ attempts[i].session = i
      BY <2>2, <3>1 DEF Ids, AttemptsInv
    <3>3. \A n \in DOMAIN attempts : attempts[n].session \in 1 .. n
      BY DEF AttemptsInv
    <3>4. P(i)
      <4>1. Watching!Worker(attempts[i].session) = s
        BY <2>0, <2>2, <3>2 DEF Watching!Worker
      <4>2. \A m \in 1 .. i - 1 : attempts[m].session # i
        BY <3>1, <3>2, <3>3
      <4> QED
        BY <4>1, <4>2
    <3>5. ASSUME NEW n \in DOMAIN attempts, P(n)
          PROVE  n = i
      <4>1. attempts[n].session = i
        BY <2>0, <3>5 DEF Watching!Worker
      <4>2. i <= n
        BY <3>1, <3>3, <4>1
      <4>3. ~(i < n)
        BY <3>1, <3>2, <3>5
      <4> QED
        BY <3>1, <3>2, <4>2, <4>3
    <3> HIDE DEF P
    <3>6. (CHOOSE n \in DOMAIN attempts : P(n)) = i
      BY <3>2, <3>4, <3>5
    <3> QED
      BY <3>6 DEF P
  <2> HIDE DEF i
  <2>3. CASE s[2] = "worker" /\ i \in Ids
    BY <2>1, <2>2, <2>3 DEF Watching!RegisteredAgain, i
  <2>4. CASE ~(s[2] = "worker" /\ i \in Ids)
    BY <2>1, <2>4 DEF Watching!RegisteredAgain, i
  <2> QED
    BY <2>3, <2>4 DEF i
<1> QED
  BY <1>1 DEF Watching!Registered, Reg, Unseen

LEMMA RegFacts ==
  ASSUME NEW K \in Knowns, NEW ids \in SUBSET Nat
  PROVE  /\ Reg(K, ids) \in Knowns
         /\ \A s \in Watching!Sessions :
              /\ K[s] # Unseen => Reg(K, ids)[s] = K[s]
              /\ Reg(K, ids)[s] # Unseen => K[s] # Unseen \/ s[1] \in ids
         /\ \A i \in ids : Watching!Worker(i) \in Watching!Sessions =>
              Reg(K, ids)[Watching!Worker(i)] # Unseen
<1>1. ASSUME NEW s \in Watching!Sessions
      PROVE  [attempt |-> s[1], status |-> "unknown"] \in Agent \ {Unseen}
  BY DEF Agent, Statuses, Unseen, Watching!Absent, Watching!Sessions
<1>2. ASSUME NEW s \in Watching!Sessions
      PROVE  Reg(K, ids)[s] \in Agent
  BY <1>1 DEF Reg, Knowns
<1>3. Reg(K, ids) \in Knowns
  BY <1>2 DEF Reg, Knowns
<1>4. ASSUME NEW i \in ids, Watching!Worker(i) \in Watching!Sessions
      PROVE  Reg(K, ids)[Watching!Worker(i)] # Unseen
  <2> DEFINE w == Watching!Worker(i)
  <2>1. w \in Watching!Sessions /\ w[1] = i /\ w[2] = "worker"
    BY <1>4 DEF Watching!Worker
  <2> HIDE DEF w
  <2> QED
    BY <1>1, <2>1 DEF Reg, w
<1> QED
  BY <1>3, <1>4 DEF Reg

\* Nothing is left to register.
LEMMA RegAgain ==
  ASSUME NEW K \in Knowns, NEW ids,
         \A s \in Watching!Sessions :
           s[2] = "worker" /\ s[1] \in ids => K[s] # Unseen
  PROVE  Reg(K, ids) = K
BY DEF Reg, Knowns

\* Sessions that were seen stay, and only those of ids are.
Beyond(K, ids) ==
  {L \in Knowns : \A s \in Watching!Sessions :
     /\ K[s] # Unseen => L[s] # Unseen
     /\ L[s] # Unseen => s[1] \in ids}

\* The notifications up to the n-th are of sessions in ids.
Told(l, n, ids) ==
  \A i \in 1 .. n : l[i].kind \in Watching!Notifications =>
    l[i].session \in Watching!Sessions /\ l[i].session[1] \in ids

LEMMA FoldBeyond ==
  ASSUME NEW K \in Knowns, NEW l, NEW m \in Nat, NEW n \in Nat, m <= n, NEW ids,
         Told(l, n, ids), \A s \in Watching!Sessions : K[s] # Unseen => s[1] \in ids
  PROVE  Folded(K, l, m, n) \in Beyond(K, ids)
<1> DEFINE T == {<<L, L>> : L \in Beyond(K, ids)}
<1>1. <<K, K>> \in T
  BY DEF Beyond
<1>2. ASSUME NEW i \in m + 1 .. n, NEW L \in Beyond(K, ids)
      PROVE  Watching!Follow(L, l[i]) \in Beyond(K, ids)
  <2>1. l[i].kind \in Watching!Notifications => l[i].session \in Watching!Sessions
    BY DEF Told
  <2>2. L \in Knowns
    BY DEF Beyond
  <2> DEFINE e == l[i]
             F == Watching!Follow(L, e)
  <2> HIDE DEF e
  <2>3. /\ F \in Knowns
        /\ \A s \in Watching!Sessions :
             /\ L[s] # Unseen => F[s] # Unseen
             /\ F[s] # Unseen => L[s] # Unseen \/ L[Watching!Worker(s[1])] # Unseen
    BY <2>1, <2>2, FollowKeeps DEF e
  <2> HIDE DEF F
  <2>4. ASSUME NEW s \in Watching!Sessions
        PROVE  /\ Watching!Worker(s[1]) \in Watching!Sessions
               /\ Watching!Worker(s[1])[1] = s[1]
    BY DEF Watching!Sessions, Watching!Worker
  <2> QED
    BY <2>3, <2>4 DEF Beyond, F, e
<1>3. \A i \in m + 1 .. n : \A x, y : <<x, y>> \in T =>
        <<Watching!Follow(x, l[i]), Watching!Follow(y, l[i])>> \in T
  BY <1>2
<1> HIDE DEF T
<1>4. <<Folded(K, l, m, n), Folded(K, l, m, n)>> \in T
  BY <1>1, <1>3, FoldsKeep
<1> QED
  BY <1>4 DEF T

\* Later entries make no difference.
LEMMA FoldPrefix ==
  ASSUME NEW K \in Knowns, NEW k0, NEW l0, NEW n \in Nat, NEW ids,
         Told(k0, n, ids), \A i \in 1 .. n : l0[i] = k0[i]
  PROVE  Folded(K, k0, 0, n) = Folded(K, l0, 0, n)
<1> DEFINE T == {<<L, L>> : L \in Knowns}
<1>1. <<K, K>> \in T
  OBVIOUS
<1>2. ASSUME NEW i \in 0 + 1 .. n, NEW L \in Knowns
      PROVE  Watching!Follow(L, k0[i]) \in Knowns
  BY FollowKeeps DEF Told
<1>3. \A i \in 0 + 1 .. n : \A x, y : <<x, y>> \in T =>
        <<Watching!Follow(x, k0[i]), Watching!Follow(y, l0[i])>> \in T
  BY <1>2
<1> HIDE DEF T
<1>4. <<Folded(K, k0, 0, n), Folded(K, l0, 0, n)>> \in T
  <2>1. 0 \in Nat /\ 0 <= n
    OBVIOUS
  <2> QED
    BY <1>1, <1>3, <2>1, FoldsKeep
<1> QED
  BY <1>4 DEF T

\* A session that no notification is of may be registered before or after.
With(K, s, a) == [K EXCEPT ![s] = a]

LEMMA FoldCommutes ==
  ASSUME NEW K \in Knowns, NEW l, NEW n \in Nat, NEW ids, Told(l, n, ids),
         NEW a, NEW w \in Watching!Sessions, w[1] \notin ids,
         w = Watching!Worker(w[1]), NEW L \in Knowns, L = With(K, w, a)
  PROVE  Folded(L, l, 0, n) = With(Folded(K, l, 0, n), w, a)
<1> DEFINE i == w[1]
           T == {p \in Knowns \X Knowns : p[2] = With(p[1], w, a)}
<1>0. w \in Watching!Sessions /\ w[1] = i /\ i \notin ids
  OBVIOUS
<1> HIDE DEF i
<1>1. <<K, L>> \in T
  OBVIOUS
<1>2. ASSUME NEW x \in Knowns, NEW y \in Knowns, y = With(x, w, a),
             NEW e,
             e.kind \in Watching!Notifications =>
               e.session \in Watching!Sessions /\ e.session[1] \in ids
      PROVE  Watching!Follow(y, e) = With(Watching!Follow(x, e), w, a)
  <2> USE DEF With
  <2> DEFINE s == e.session
             p == Watching!Parent(s)
  <2>1. CASE e.kind \notin Watching!Notifications
    BY <1>2, <2>1 DEF Watching!Follow, Watching!Notifications
  <2>2. CASE e.kind \in Watching!Notifications
    <3>1. s \in Watching!Sessions /\ s[1] # i /\ s # w
      BY <1>0, <1>2, <2>2
    <3>2. p \in Watching!Sessions /\ p # w
      BY <1>0, <3>1 DEF Watching!Sessions, Watching!Parent, Watching!Worker
    <3>3. y[s] = x[s] /\ y[p] = x[p]
      BY <1>0, <1>2, <3>1, <3>2 DEF Knowns
    <3>4. ASSUME NEW b
          PROVE  [y EXCEPT ![s] = b] = [[x EXCEPT ![s] = b] EXCEPT ![w] = a]
      BY <1>0, <1>2, <3>1 DEF Knowns
    <3>5. CASE e.kind = "started" /\ x[p] # Unseen
      <4> DEFINE b == [attempt |-> x[p].attempt, status |-> "running"]
      <4>1. /\ Watching!Follow(x, e) = [x EXCEPT ![s] = b]
            /\ Watching!Follow(y, e) = [y EXCEPT ![s] = b]
        BY <3>3, <3>5 DEF Watching!Follow, Unseen
      <4> HIDE DEF b, s
      <4> QED
        BY <3>4, <4>1
    <3>6. CASE /\ ~(e.kind = "started" /\ x[p] # Unseen)
               /\ e.kind \in Watching!Notifications \ {"started"}
               /\ x[s] # Unseen
      <4> DEFINE b == [x[s] EXCEPT !.status = IF e.kind = "finished" THEN "ended"
                                             ELSE e.kind]
      <4>1. /\ Watching!Follow(x, e) = [x EXCEPT ![s] = b]
            /\ Watching!Follow(y, e) = [y EXCEPT ![s] = b]
        BY <3>3, <3>6 DEF Watching!Follow, Unseen
      <4> HIDE DEF b, s
      <4> QED
        BY <3>4, <4>1
    <3>7. CASE /\ ~(e.kind = "started" /\ x[p] # Unseen)
               /\ ~(/\ e.kind \in Watching!Notifications \ {"started"}
                    /\ x[s] # Unseen)
      BY <1>2, <3>3, <3>7 DEF Watching!Follow, Unseen
    <3> QED
      BY <3>5, <3>6, <3>7
  <2> QED
    BY <2>1, <2>2
<1>3. ASSUME NEW j \in 0 + 1 .. n, NEW x, NEW y, <<x, y>> \in T
      PROVE  <<Watching!Follow(x, l[j]), Watching!Follow(y, l[j])>> \in T
  <2>1. x \in Knowns /\ y \in Knowns /\ y = With(x, w, a)
    BY <1>3
  <2>2. l[j].kind \in Watching!Notifications =>
          l[j].session \in Watching!Sessions /\ l[j].session[1] \in ids
    BY DEF Told
  <2>3. Watching!Follow(x, l[j]) \in Knowns /\ Watching!Follow(y, l[j]) \in Knowns
    BY <2>1, <2>2, FollowKeeps
  <2>4. Watching!Follow(y, l[j]) = With(Watching!Follow(x, l[j]), w, a)
    <3> HIDE DEF T
    <3> QED
      BY <1>2, <2>1, <2>2
  <2> QED
    BY <2>3, <2>4
<1> HIDE DEF T
<1>4. <<Folded(K, l, 0, n), Folded(L, l, 0, n)>> \in T
  <2>1. 0 \in Nat /\ 0 <= n
    OBVIOUS
  <2> QED
    BY <1>1, <1>3, <2>1, FoldsKeep
<1> QED
  BY <1>4 DEF T

-----------------------------------------------------------------------------
NobodySeen == [s \in Watching!Sessions |-> Unseen]

LogInv ==
  /\ log \in Seq(Notes)
  /\ Told(log, Len(log), Ids)

\* The agents read so far, with the sessions that are registered next, are
\* what the entries read so far make of all sessions registered today.
AgentsInv ==
  /\ agents \in [cursor : Nat, known : Knowns] /\ agents.cursor <= Len(log)
  /\ \A s \in Watching!Sessions : agents.known[s] # Unseen => s[1] \in Ids
  /\ Reg(agents.known, Ids)
       = Folded(Reg(NobodySeen, Ids), log, 0, agents.cursor)

WatchInv ==
  /\ AttemptsInv /\ LogInv /\ AgentsInv
  /\ interrupted => attempts # << >>

LEMMA NobodyFacts ==
  ASSUME NEW ids \in SUBSET Nat
  PROVE  /\ NobodySeen \in Knowns /\ Reg(NobodySeen, ids) \in Knowns
         /\ \A s \in Watching!Sessions :
              Reg(NobodySeen, ids)[s] # Unseen => s[1] \in ids
<1>1. NobodySeen \in Knowns
  BY DEF NobodySeen, Knowns, Agent, Statuses, Unseen, Watching!Absent
<1>2. \A s \in Watching!Sessions : NobodySeen[s] = Unseen
  BY DEF NobodySeen
<1> QED
  BY <1>1, <1>2, RegFacts

LEMMA IdsAreNumbers ==
  ASSUME AttemptsInv
  PROVE  /\ Ids \in SUBSET Nat
         /\ MaxRuns \in Nat =>
              \A i \in Ids : Watching!Worker(i) \in Watching!Sessions
<1>1. \A n \in DOMAIN attempts : /\ attempts[n].session \in Nat
                                /\ attempts[n].session \in 1 .. n
                                /\ n \in 1 .. Len(attempts)
  BY DEF AttemptsInv
<1>2. Len(attempts) \in Nat /\ Len(attempts) <= MaxRuns
  BY DEF AttemptsInv
<1> QED
  BY <1>1, <1>2 DEF Ids, Watching!Sessions, Watching!Worker

LEMMA WatchInitInv == Watching!TrajectoryInit => WatchInv
<1> SUFFICES ASSUME Watching!TrajectoryInit
             PROVE  WatchInv
  OBVIOUS
<1>1. attempts = << >> /\ log = << >> /\ interrupted = FALSE
      /\ agents = [cursor |-> 0, known |-> NobodySeen]
  BY DEF Watching!TrajectoryInit, Watching!Fresh, NobodySeen, Unseen
<1>2. AttemptsInv /\ LogInv
  BY <1>1, RunsAssumption DEF AttemptsInv, LogInv, Told
<1>3. Ids \in SUBSET Nat
  BY <1>2, IdsAreNumbers
<1>4. NobodySeen \in Knowns /\ \A s \in Watching!Sessions : NobodySeen[s] = Unseen
  BY <1>3, NobodyFacts DEF NobodySeen
<1>5. agents.cursor = 0 /\ agents.known = NobodySeen
      /\ agents \in [cursor : Nat, known : Knowns]
  BY <1>1, <1>4
<1>6. Reg(NobodySeen, Ids) = Folded(Reg(NobodySeen, Ids), log, 0, 0)
  BY FoldedFirst
<1>7. AgentsInv
  BY <1>1, <1>4, <1>5, <1>6 DEF AgentsInv
<1> QED
  BY <1>1, <1>2, <1>7 DEF WatchInv

\* A reading of the rest of the journal.
LEMMA ReadingKeeps ==
  ASSUME WatchInv, agents' = Watching!CaughtUp(agents),
         UNCHANGED <<attempts, interrupted, log>>
  PROVE  WatchInv'
<1> DEFINE c == agents.cursor
           n == Len(log)
           K == Reg(agents.known, Ids)
           Z == Reg(NobodySeen, Ids)
           L == Folded(K, log, c, n)
<1>1. /\ c \in Nat /\ n \in Nat /\ c <= n /\ agents.known \in Knowns
      /\ log \in Seq(Notes) /\ Told(log, n, Ids) /\ K = Folded(Z, log, 0, c)
      /\ \A s \in Watching!Sessions : agents.known[s] # Unseen => s[1] \in Ids
  BY DEF WatchInv, AgentsInv, LogInv
<1>2. Ids \in SUBSET Nat
  BY IdsAreNumbers DEF WatchInv
<1>3. /\ K \in Knowns
      /\ \A s \in Watching!Sessions : K[s] # Unseen => s[1] \in Ids
      /\ \A i \in Ids : Watching!Worker(i) \in Watching!Sessions =>
           K[Watching!Worker(i)] # Unseen
  BY <1>1, <1>2, RegFacts
<1>4. agents' = [cursor |-> n, known |-> L]
  <2>1. agents = [cursor |-> c, known |-> agents.known]
    BY DEF WatchInv, AgentsInv
  <2>2. Watching!Registered(agents.known) = K
    BY <1>1, RegisteredIs DEF WatchInv
  <2> QED
    BY <1>1, <2>1, <2>2, CaughtUpIs
<1>5. Folded(Z, log, 0, n) = L
  <2>1. 0 \in Nat /\ 0 <= c
    BY <1>1
  <2> QED
    BY <1>1, <2>1, FoldGoesOn
<1> HIDE DEF K, L, Z, c, n
<1>6. L \in Beyond(K, Ids)
  BY <1>1, <1>3, FoldBeyond DEF L
<1>7. Reg(L, Ids) = L
  <2>1. L \in Knowns
    BY <1>6 DEF Beyond
  <2>2. ASSUME NEW s \in Watching!Sessions, s[2] = "worker", s[1] \in Ids
        PROVE  L[s] # Unseen
    <3>1. s = Watching!Worker(s[1])
      BY <2>2 DEF Watching!Sessions, Watching!Worker
    <3>2. K[s] # Unseen
      BY <1>3, <2>2, <3>1
    <3> QED
      BY <1>6, <3>2 DEF Beyond
  <2> QED
    BY <2>1, <2>2, RegAgain
<1>8. Ids' = Ids
  BY DEF Ids
<1>9. agents'.cursor = n /\ agents'.known = L
  BY <1>4
<1>10. agents' \in [cursor : Nat, known : Knowns]
  BY <1>1, <1>4, <1>6 DEF Beyond
<1>11. Reg(agents.known, Ids)'
         = Folded(Reg(NobodySeen, Ids), log, 0, agents.cursor)'
  <2>1. Reg(agents.known, Ids)' = Reg(agents'.known, Ids')
    BY DEF Reg
  <2>2. Folded(Reg(NobodySeen, Ids), log, 0, agents.cursor)'
          = Folded(Reg(NobodySeen, Ids'), log', 0, agents'.cursor)
    BY DEF Reg, Folded, IsFold
  <2> QED
    BY <1>5, <1>7, <1>8, <1>9, <2>1, <2>2 DEF Z
<1>12. AgentsInv'
  BY <1>1, <1>6, <1>8, <1>9, <1>10, <1>11 DEF AgentsInv, Beyond, n
<1> QED
  BY <1>8, <1>12 DEF WatchInv, AttemptsInv, LogInv

\* An entry is added, and no session.
LEMMA LogGrows ==
  ASSUME AttemptsInv, LogInv, Ids' = Ids, NEW e \in Notes,
         log' = Append(log, e) \/ log' = log,
         e.kind \in Watching!Notifications => e.session[1] \in Ids
  PROVE  /\ LogInv' /\ Len(log) <= Len(log')
         /\ \A i \in 1 .. Len(log) : log'[i] = log[i]
<1> DEFINE n == Len(log)
<1>0. \A i \in Ids : Watching!Worker(i) \in Watching!Sessions
  BY RunsAssumption, IdsAreNumbers
<1>1. log \in Seq(Notes) /\ n \in Nat /\ Told(log, n, Ids)
  BY DEF LogInv
<1>2. /\ log' \in Seq(Notes) /\ Len(log') \in Nat /\ n <= Len(log')
      /\ \A i \in 1 .. n : log'[i] = log[i]
      /\ \A i \in 1 .. Len(log') : i \notin 1 .. n => log'[i] = e
  BY <1>1
<1>3. e.kind \in Watching!Notifications => e.session \in Watching!Sessions
  <2>1. e.session \in Nat \X {"worker", "child"}
    BY DEF Notes
  <2>2. e.session = <<e.session[1], e.session[2]>>
        /\ e.session[2] \in {"worker", "child"}
    BY <2>1
  <2> QED
    BY <1>0, <2>2 DEF Watching!Sessions, Watching!Worker
<1>4. Told(log', Len(log'), Ids)
  BY <1>1, <1>2, <1>3 DEF Told
<1> QED
  BY <1>2, <1>4 DEF LogInv, Told

LEMMA AddingKeeps ==
  ASSUME WatchInv, AttemptsInv', Ids' = Ids, agents' = agents,
         interrupted' => attempts' # << >>,
         NEW e \in Notes, log' = Append(log, e) \/ log' = log,
         e.kind \in Watching!Notifications => e.session[1] \in Ids
  PROVE  WatchInv'
<1> DEFINE n == Len(log)
           c == agents.cursor
           Z == Reg(NobodySeen, Ids)
<1>0. Ids \in SUBSET Nat
  BY IdsAreNumbers DEF WatchInv
<1>1. /\ log \in Seq(Notes) /\ n \in Nat /\ Told(log, n, Ids)
      /\ c \in Nat /\ c <= n
  BY DEF WatchInv, LogInv, AgentsInv
<1>2. /\ LogInv' /\ n <= Len(log')
      /\ \A i \in 1 .. n : log'[i] = log[i]
  BY LogGrows DEF WatchInv
<1>3. Told(log, c, Ids) /\ \A i \in 1 .. c : log'[i] = log[i]
  BY <1>1, <1>2 DEF Told
<1>4. Folded(Z, log, 0, c) = Folded(Z, log', 0, c)
  <2>1. Z \in Knowns
    BY <1>0, NobodyFacts
  <2> HIDE DEF Z, c
  <2> QED
    BY <1>1, <1>3, <2>1, FoldPrefix
<1>5. Reg(agents.known, Ids) = Folded(Z, log', 0, c)
  BY <1>4 DEF WatchInv, AgentsInv
<1>6. Reg(agents.known, Ids)'
        = Folded(Reg(NobodySeen, Ids), log, 0, agents.cursor)'
  <2>1. Reg(agents.known, Ids)' = Reg(agents'.known, Ids')
    BY DEF Reg
  <2>2. Folded(Reg(NobodySeen, Ids), log, 0, agents.cursor)'
          = Folded(Reg(NobodySeen, Ids'), log', 0, agents'.cursor)
    BY DEF Reg, Folded, IsFold
  <2> QED
    BY <1>5, <2>1, <2>2
<1>7. log' \in Seq(Notes)
  BY <1>2 DEF LogInv
<1>8. AgentsInv'
  BY <1>1, <1>2, <1>6, <1>7 DEF WatchInv, AgentsInv
<1> QED
  BY <1>2, <1>8 DEF WatchInv

\* The projection begins again.
LEMMA AnewKeeps ==
  ASSUME AttemptsInv', LogInv', interrupted' => attempts' # << >>,
         agents' = Watching!Fresh
  PROVE  WatchInv'
<1>1. agents' = [cursor |-> 0, known |-> NobodySeen]
  BY DEF Watching!Fresh, NobodySeen, Unseen
<1>2. Ids' \in SUBSET Nat /\ log' \in Seq(Notes)
  <2>1. \A n \in DOMAIN attempts' : attempts'[n].session \in Nat
    BY DEF AttemptsInv
  <2> QED
    BY <2>1 DEF Ids, LogInv
<1>3. NobodySeen \in Knowns /\ \A s \in Watching!Sessions : NobodySeen[s] = Unseen
  BY <1>2, NobodyFacts DEF NobodySeen
<1>4. agents'.cursor = 0 /\ agents'.known = NobodySeen
      /\ agents' \in [cursor : Nat, known : Knowns]
  BY <1>1, <1>3
<1>5. Reg(agents.known, Ids)'
        = Folded(Reg(NobodySeen, Ids), log, 0, agents.cursor)'
  <2>1. Reg(agents.known, Ids)' = Reg(agents'.known, Ids')
    BY DEF Reg
  <2>2. Folded(Reg(NobodySeen, Ids), log, 0, agents.cursor)'
          = Folded(Reg(NobodySeen, Ids'), log', 0, agents'.cursor)
    BY DEF Reg, Folded, IsFold
  <2>3. \A Z, l : Folded(Z, l, 0, 0) = Z
    BY FoldedFirst
  <2> QED
    BY <1>4, <2>1, <2>2, <2>3
<1>6. AgentsInv'
  BY <1>2, <1>3, <1>4, <1>5 DEF AgentsInv
<1> QED
  BY <1>6 DEF WatchInv

\* An attempt has a session of its own, or goes on with that of the last.
LEMMA NewAttempt ==
  ASSUME AttemptsInv, NEW i, Len(attempts) < MaxRuns,
         attempts' = Append(attempts, [session |-> i, ended |-> FALSE,
                                       clean |-> FALSE]),
         \/ i = Len(attempts) + 1
         \/ attempts # << >> /\ i = attempts[Len(attempts)].session
  PROVE  /\ AttemptsInv' /\ Ids' = Ids \union {i} /\ i \in Nat
         /\ i = Len(attempts) + 1 => i \notin Ids /\ i \in 1 .. MaxRuns
         /\ i # Len(attempts) + 1 => i \in Ids
<1> DEFINE n == Len(attempts)
           A == [session : Nat, ended : BOOLEAN, clean : BOOLEAN]
           a == [session |-> i, ended |-> FALSE, clean |-> FALSE]
<1>1. /\ attempts \in Seq(A) /\ n \in Nat /\ DOMAIN attempts = 1 .. n
      /\ \A k \in 1 .. n : /\ attempts[k].session \in 1 .. k
                           /\ attempts[attempts[k].session].session
                                = attempts[k].session
  BY DEF AttemptsInv
<1>2. i \in 1 .. n + 1 /\ (i # n + 1 => n \in 1 .. n /\ i = attempts[n].session)
  BY <1>1
<1>3. a \in A /\ a.session = i
  BY <1>2
<1> HIDE DEF a, A
<1>4. attempts' \in Seq(A) /\ Len(attempts') = n + 1 /\ DOMAIN attempts' = 1 .. n + 1
      /\ attempts'[n + 1] = a /\ \A k \in 1 .. n : attempts'[k] = attempts[k]
  BY <1>1, <1>3 DEF a
<1> HIDE DEF n
<1>5. ASSUME NEW k \in 1 .. n + 1
      PROVE  /\ attempts'[k].session \in 1 .. k
             /\ attempts'[attempts'[k].session].session = attempts'[k].session
  <2>1. CASE k \in 1 .. n
    <3>1. attempts[k].session \in 1 .. n
      BY <1>1, <2>1
    <3> QED
      BY <1>1, <1>4, <2>1, <3>1
  <2>2. CASE k = n + 1 /\ i = n + 1
    BY <1>1, <1>3, <1>4, <2>2
  <2>3. CASE k = n + 1 /\ i # n + 1
    <3>1. i \in 1 .. n /\ attempts[i].session = i
      BY <1>1, <1>2, <2>3
    <3> QED
      BY <1>1, <1>3, <1>4, <2>3, <3>1
  <2> QED
    BY <1>1, <2>1, <2>2, <2>3
<1>6. AttemptsInv'
  <2>1. n + 1 <= MaxRuns
    BY <1>1, RunsAssumption DEF n
  <2> QED
    BY <1>4, <1>5, <2>1 DEF AttemptsInv, A
<1>7. Ids' = {attempts'[k].session : k \in 1 .. n + 1}
  BY <1>4 DEF Ids
<1>8. Ids = {attempts[k].session : k \in 1 .. n}
  BY <1>1 DEF Ids
<1>9. Ids' = Ids \union {i}
  BY <1>1, <1>3, <1>4, <1>7, <1>8
<1>10. \A j \in Ids : j <= n
  BY <1>1, <1>8
<1> QED
  BY <1>1, <1>2, <1>6, <1>8, <1>9, <1>10, RunsAssumption DEF n

LEMMA StartKeeps ==
  ASSUME WatchInv, Watching!Start
  PROVE  WatchInv'
<1>1. /\ Len(attempts) < MaxRuns /\ UNCHANGED <<interrupted, agents>>
      /\ ~interrupted /\ log' = Append(log, Watching!Control)
  BY DEF Watching!Start, Watching!Logs
<1>2. PICK i \in {Len(attempts) + 1} \union
                {attempts[n].session : n \in {Len(attempts)} \ {0}} :
        attempts' = Append(attempts, [session |-> i, ended |-> FALSE,
                                      clean |-> FALSE])
  BY DEF Watching!Start
<1>3. \/ i = Len(attempts) + 1
      \/ attempts # << >> /\ i = attempts[Len(attempts)].session
  BY <1>2
<1>4. /\ AttemptsInv' /\ Ids' = Ids \union {i} /\ i \in Nat
      /\ i = Len(attempts) + 1 => i \notin Ids /\ i \in 1 .. MaxRuns
      /\ i # Len(attempts) + 1 => i \in Ids
  BY <1>1, <1>2, <1>3, NewAttempt DEF WatchInv
<1>5. /\ Watching!Control \in Notes
      /\ Watching!Control.kind \notin Watching!Notifications
  <2>1. Watching!Worker(1) \in Nat \X {"worker", "child"}
    BY DEF Watching!Worker
  <2> QED
    BY <2>1 DEF Watching!Control, Watching!Notifications, Watching!AllKinds,
                Notes
<1>6. CASE i \in Ids
  <2>1. Ids' = Ids
    BY <1>4, <1>6
  <2> QED
    BY <1>1, <1>4, <1>5, <2>1, AddingKeeps
<1>7. CASE i \notin Ids
  <2> DEFINE n == Len(log)
             c == agents.cursor
             known0 == agents.known
             w == Watching!Worker(i)
             a == [attempt |-> i, status |-> "unknown"]
             K == Reg(known0, Ids)
             L == Reg(known0, Ids \union {i})
             Y == Reg(NobodySeen, Ids)
             Z == Reg(NobodySeen, Ids \union {i})
  <2>1. /\ log \in Seq(Notes) /\ n \in Nat /\ Told(log, n, Ids)
        /\ c \in Nat /\ c <= n /\ known0 \in Knowns
        /\ K = Folded(Y, log, 0, c)
        /\ \A s \in Watching!Sessions : known0[s] # Unseen => s[1] \in Ids
    BY DEF WatchInv, LogInv, AgentsInv
  <2>2. /\ w \in Watching!Sessions /\ w[1] = i /\ w[2] = "worker"
        /\ \A s \in Watching!Sessions : s[1] = i /\ s[2] = "worker" => s = w
    BY <1>4, <1>7 DEF Watching!Worker, Watching!Sessions
  <2>3. a \in Agent
    BY <1>4 DEF Agent, Statuses
  <2>4. ASSUME NEW X \in Knowns,
               \A s \in Watching!Sessions : X[s] # Unseen => s[1] \in Ids
        PROVE  Reg(X, Ids \union {i}) = [Reg(X, Ids) EXCEPT ![w] = a]
    BY <1>7, <2>2, <2>4 DEF Reg
  <2>5. Ids \in SUBSET Nat
    BY IdsAreNumbers DEF WatchInv
  <2>6. /\ NobodySeen \in Knowns
        /\ \A s \in Watching!Sessions : NobodySeen[s] # Unseen => s[1] \in Ids
    BY <2>5, NobodyFacts DEF NobodySeen
  <2>7. L = [K EXCEPT ![w] = a] /\ Z = [Y EXCEPT ![w] = a]
    <3> HIDE DEF a, w, known0
    <3> QED
      BY <2>1, <2>4, <2>6
  <2>8. Y \in Knowns /\ Z \in Knowns
    BY <1>4, <2>5, <2>6, RegFacts
  <2>9. Told(log, c, Ids) /\ Told(log, c, Ids \union {i})
        /\ Told(log, n, Ids \union {i})
    BY <2>1 DEF Told
  <2> HIDE DEF n, c, known0, a, K, L, Y, Z
  <2>10. Folded(Z, log, 0, c) = L
    <3>1. Folded(Z, log, 0, c) = [Folded(Y, log, 0, c) EXCEPT ![w] = a]
      <4>1. /\ Y \in Knowns /\ Z \in Knowns /\ Z = With(Y, w, a)
            /\ w \in Watching!Sessions /\ w[1] \notin Ids
            /\ w = Watching!Worker(w[1]) /\ c \in Nat /\ Told(log, c, Ids)
        BY <1>4, <1>7, <2>1, <2>2, <2>3, <2>7, <2>8, <2>9 DEF With
      <4> HIDE DEF w
      <4>2. Folded(Z, log, 0, c) = With(Folded(Y, log, 0, c), w, a)
        BY <4>1, FoldCommutes
      <4> QED
        BY <4>2 DEF With
    <3> QED
      BY <2>1, <2>7, <3>1
  <2>11. /\ log' \in Seq(Notes) /\ Len(log') = n + 1
         /\ \A j \in 1 .. n : log'[j] = log[j]
         /\ log'[n + 1] = Watching!Control
    BY <1>1, <1>5, <2>1 DEF n
  <2>12. Told(log', n + 1, Ids \union {i})
    BY <1>5, <2>1, <2>9, <2>11 DEF Told
  <2>13. LogInv'
    BY <1>4, <2>11, <2>12 DEF LogInv, Told
  <2>14. Folded(Z, log', 0, c) = L
    <3>1. \A j \in 1 .. c : log'[j] = log[j]
      BY <2>1, <2>11
    <3> QED
      BY <2>1, <2>8, <2>9, <2>10, <3>1, FoldPrefix
  <2>15. Reg(agents.known, Ids)'
           = Folded(Reg(NobodySeen, Ids), log, 0, agents.cursor)'
    <3>1. Reg(agents.known, Ids)' = Reg(agents'.known, Ids')
      BY DEF Reg
    <3>2. Folded(Reg(NobodySeen, Ids), log, 0, agents.cursor)'
            = Folded(Reg(NobodySeen, Ids'), log', 0, agents'.cursor)
      BY DEF Reg, Folded, IsFold
    <3> QED
      BY <1>1, <1>4, <2>14, <3>1, <3>2 DEF c, known0, L, Z
  <2>16. AgentsInv'
    BY <1>1, <1>4, <2>1, <2>11, <2>15 DEF AgentsInv, WatchInv, n, c, known0
  <2> QED
    BY <1>1, <1>4, <2>13, <2>16 DEF WatchInv
<1> QED
  BY <1>6, <1>7

\* Attempts end and are found clean; their sessions stay.
LEMMA SameSessions ==
  ASSUME AttemptsInv,
         attempts' \in Seq([session : Nat, ended : BOOLEAN, clean : BOOLEAN]),
         Len(attempts') = Len(attempts),
         \A n \in DOMAIN attempts : attempts'[n].session = attempts[n].session
  PROVE  AttemptsInv' /\ Ids' = Ids
<1>1. DOMAIN attempts' = DOMAIN attempts /\ DOMAIN attempts = 1 .. Len(attempts)
  BY DEF AttemptsInv
<1>2. \A n \in DOMAIN attempts :
        /\ attempts[n].session \in 1 .. n
        /\ attempts[attempts[n].session].session = attempts[n].session
        /\ n \in 1 .. Len(attempts) /\ Len(attempts) \in Nat
  BY <1>1 DEF AttemptsInv
<1>3. \A n \in DOMAIN attempts : attempts[n].session \in DOMAIN attempts
  BY <1>1, <1>2
<1>4. \A n \in DOMAIN attempts' :
        /\ attempts'[n].session \in 1 .. n
        /\ attempts'[attempts'[n].session].session = attempts'[n].session
  BY <1>1, <1>2, <1>3
<1>5. AttemptsInv'
  BY <1>4 DEF AttemptsInv
<1>6. Ids' = Ids
  BY <1>1 DEF Ids
<1> QED
  BY <1>5, <1>6

LEMMA RestKeeps ==
  ASSUME WatchInv,
         Watching!Happens \/ Watching!Ends \/ Watching!Recover
           \/ Watching!ServiceRestarts
  PROVE  WatchInv'
<1> DEFINE A == [session : Nat, ended : BOOLEAN, clean : BOOLEAN]
<1>1. AttemptsInv /\ LogInv /\ (interrupted => attempts # << >>)
      /\ attempts \in Seq(A)
  BY DEF WatchInv, AttemptsInv
<1>0. /\ \A n \in DOMAIN attempts : attempts[n] \in A
      /\ DOMAIN attempts = 1 .. Len(attempts) /\ Len(attempts) \in Nat
  <2> HIDE DEF A
  <2> QED
    BY <1>1
<1>2. /\ Watching!Control \in Notes
      /\ Watching!Control.kind \notin Watching!Notifications
  <2>1. Watching!Worker(1) \in Nat \X {"worker", "child"}
    BY DEF Watching!Worker
  <2> QED
    BY <2>1 DEF Watching!Control, Watching!Notifications, Watching!AllKinds,
                Notes
<1>3. CASE Watching!Happens
  <2>1. /\ attempts # << >> /\ UNCHANGED <<attempts, interrupted, agents>>
    BY <1>3 DEF Watching!Happens, Watching!Live
  <2> DEFINE i == attempts[Len(attempts)].session
  <2>2. PICK kind \in Watching!Notifications \union {"processes"},
             s \in {Watching!Worker(i), Watching!Child(i)} :
               log' = Append(log, [kind |-> kind, session |-> s])
    BY <1>3 DEF Watching!Happens, Watching!Latest, Watching!Logs
  <2>3. i \in Ids /\ i \in Nat
    <3>1. attempts # << >> => Len(attempts) \in DOMAIN attempts
      BY <1>1, <1>0
    <3>2. Len(attempts) \in DOMAIN attempts
      BY <2>1, <3>1
    <3>3. attempts[Len(attempts)] \in A
      BY <1>0, <3>2
    <3> QED
      BY <3>2, <3>3 DEF Ids
  <2> DEFINE e == [kind |-> kind, session |-> s]
  <2>4. s \in Nat \X {"worker", "child"} /\ s[1] = i
    BY <2>3 DEF Watching!Worker, Watching!Child
  <2>5. e \in Notes /\ e.session[1] \in Ids
    BY <2>3, <2>4 DEF Notes, Watching!AllKinds
  <2> HIDE DEF e
  <2>6. Ids' = Ids /\ AttemptsInv'
    BY <1>1, <2>1 DEF Ids, AttemptsInv
  <2>7. log' = Append(log, e)
    BY <2>2 DEF e
  <2> QED
    BY <1>1, <2>1, <2>5, <2>6, <2>7, AddingKeeps
<1>4. CASE Watching!Ends
  <2>1. /\ attempts # << >> /\ agents' = agents
        /\ log' = Append(log, Watching!Control)
    BY <1>4 DEF Watching!Ends, Watching!Live, Watching!Logs
  <2>2. CASE attempts' = attempts
    <3>1. Ids' = Ids /\ AttemptsInv'
      BY <1>1, <2>2 DEF Ids, AttemptsInv
    <3> QED
      BY <1>2, <2>1, <2>2, <3>1, AddingKeeps
  <2>3. CASE attempts' # attempts
    <3> DEFINE n == Len(attempts)
    <3>1. PICK clean \in BOOLEAN :
            attempts' = [[attempts EXCEPT ![n].ended = TRUE]
                                   EXCEPT ![n].clean = clean]
      BY <1>4, <2>3 DEF Watching!Ends
    <3> DEFINE x == [[attempts[n] EXCEPT !.ended = TRUE] EXCEPT !.clean = clean]
    <3>2. n \in DOMAIN attempts
      <4>1. attempts # << >> => n \in DOMAIN attempts
        BY <1>1, <1>0
      <4> QED
        BY <2>1, <4>1
    <3>3. attempts' = [attempts EXCEPT ![n] = x]
      BY <3>1
    <3>4. x \in A /\ x.session = attempts[n].session
      <4>1. attempts[n] \in A
        BY <1>0, <3>2
      <4> QED
        BY <4>1
    <3> HIDE DEF x, A, n
    <3>5. attempts \in [1 .. Len(attempts) -> A]
      BY <1>1
    <3>6. attempts' \in [1 .. Len(attempts) -> A]
      BY <3>2, <3>3, <3>4, <3>5
    <3>7. /\ attempts' \in Seq(A) /\ Len(attempts') = Len(attempts)
          /\ \A k \in DOMAIN attempts : attempts'[k].session = attempts[k].session
      BY <1>0, <3>2, <3>3, <3>4, <3>5, <3>6
    <3>8. Ids' = Ids /\ AttemptsInv' /\ attempts' # << >>
      BY <1>1, <1>0, <2>1, <3>2, <3>7, SameSessions DEF A
    <3> QED
      BY <1>2, <2>1, <3>8, AddingKeeps
  <2> QED
    BY <2>2, <2>3
<1>5. CASE Watching!Recover
  <2>1. /\ attempts # << >> /\ ~interrupted' /\ agents' = agents
        /\ log' = Append(log, Watching!Control)
        /\ attempts' = [n \in DOMAIN attempts |->
                          [attempts[n] EXCEPT !.clean = TRUE]]
    BY <1>1, <1>5 DEF Watching!Recover, Watching!Logs
  <2>2. \A n \in DOMAIN attempts :
          /\ [attempts[n] EXCEPT !.clean = TRUE] \in A
          /\ [attempts[n] EXCEPT !.clean = TRUE].session = attempts[n].session
    <3> TAKE n \in DOMAIN attempts
    <3>1. attempts[n] \in A
      BY <1>0
    <3> QED
      BY <3>1
  <2> HIDE DEF A
  <2>3. attempts' \in [1 .. Len(attempts) -> A]
    BY <1>1, <2>1, <2>2
  <2>4. attempts' \in Seq(A) /\ Len(attempts') = Len(attempts)
    BY <1>1, <2>3
  <2>5. \A n \in DOMAIN attempts : attempts'[n].session = attempts[n].session
    BY <2>1, <2>2
  <2>6. AttemptsInv' /\ Ids' = Ids
    BY <1>1, <2>4, <2>5, SameSessions DEF A
  <2> QED
    BY <1>2, <2>1, <2>6, AddingKeeps
<1>6. CASE Watching!ServiceRestarts
  <2>1. /\ attempts' = attempts /\ agents' = Watching!Fresh
        /\ interrupted' => attempts' # << >>
        /\ log' = Append(log, Watching!Control) \/ log' = log
    BY <1>1, <1>6 DEF Watching!ServiceRestarts, Watching!Live, Watching!Logs
  <2>2. AttemptsInv' /\ Ids' = Ids
    BY <1>1, <2>1 DEF AttemptsInv, Ids
  <2>3. LogInv'
    BY <1>1, <1>2, <2>1, <2>2, LogGrows
  <2> QED
    BY <2>1, <2>2, <2>3, AnewKeeps
<1> QED
  BY <1>3, <1>4, <1>5, <1>6

LEMMA WatchKeeps ==
  ASSUME WatchInv, [Watching!TrajectoryNext]_(Watching!trajectoryVars)
  PROVE  WatchInv'
<1>1. CASE Watching!ActivityRead \/ Watching!PanelAnswered
  BY <1>1, ReadingKeeps DEF Watching!ActivityRead, Watching!PanelAnswered
<1>2. CASE UNCHANGED <<attempts, interrupted, log, agents>>
  BY <1>2 DEF WatchInv, AttemptsInv, LogInv, AgentsInv, Ids, Told, Folded,
              IsFold, Reg
<1>3. CASE \/ Watching!Mount \/ Watching!Tick \/ Watching!LoadMore
           \/ Watching!StartAgain \/ Watching!PanelShows \/ Watching!PanelFails
           \/ UNCHANGED Watching!trajectoryVars
  BY <1>2, <1>3
     DEF Watching!Mount, Watching!Tick, Watching!LoadMore,
         Watching!StartAgain, Watching!PanelShows, Watching!PanelFails,
         Watching!trajectoryVars
<1> QED
  BY <1>1, <1>3, StartKeeps, RestKeeps DEF Watching!TrajectoryNext

LEMMA WatchAgrees == WatchInv => RebuildAgrees
<1> SUFFICES ASSUME WatchInv
             PROVE  Watching!CaughtUp(agents) = Watching!CaughtUp(Watching!Fresh)
  BY DEF RebuildAgrees, Watching!RebuildAgrees
<1> DEFINE c == agents.cursor
           n == Len(log)
           K == Reg(agents.known, Ids)
           Z == Reg(NobodySeen, Ids)
<1>1. /\ c \in Nat /\ n \in Nat /\ c <= n /\ agents.known \in Knowns
      /\ log \in Seq(Notes) /\ K = Folded(Z, log, 0, c)
      /\ agents = [cursor |-> c, known |-> agents.known] /\ AttemptsInv
  BY DEF WatchInv, AgentsInv, LogInv
<1>2. NobodySeen \in Knowns
      /\ Watching!Fresh = [cursor |-> 0, known |-> NobodySeen]
  BY NobodyFacts, IdsAreNumbers, <1>1 DEF Watching!Fresh, NobodySeen, Unseen
<1>3. Watching!CaughtUp(agents)
        = [cursor |-> n, known |-> Folded(K, log, c, n)]
  <2>1. Watching!Registered(agents.known) = K
    BY <1>1, RegisteredIs
  <2> QED
    BY <1>1, <2>1, CaughtUpIs
<1>4. Watching!CaughtUp(Watching!Fresh)
        = [cursor |-> n, known |-> Folded(Z, log, 0, n)]
  <2>1. Watching!Registered(NobodySeen) = Z
    BY <1>1, <1>2, RegisteredIs
  <2>2. 0 \in Nat /\ 0 <= n
    BY <1>1
  <2> QED
    BY <1>1, <1>2, <2>1, <2>2, CaughtUpIs
<1>5. Folded(K, log, c, n) = Folded(Z, log, 0, n)
  <2>1. 0 \in Nat /\ 0 <= c
    BY <1>1
  <2> HIDE DEF K, Z, c, n
  <2> QED
    BY <1>1, <2>1, FoldGoesOn
<1> QED
  BY <1>3, <1>4, <1>5

\* The agents shown by a projection that was carried on, over attempts that
\* started and sessions that were resumed meanwhile, are those of one rebuilt
\* after a restart, however long the journal.
THEOREM RebuildAgreesTheorem == Watching!TrajectorySpec => []RebuildAgrees
<1>1. WatchInv /\ [Watching!TrajectoryNext]_(Watching!trajectoryVars)
        => WatchInv'
  BY WatchKeeps
<1> QED
  BY <1>1, WatchInitInv, WatchAgrees, PTL DEF Watching!TrajectorySpec

-----------------------------------------------------------------------------
(***************************************************************************)
(* Part 6.  The histories of the sessions.  An answer that waits names the *)
(* attempt before the one that takes it up, and every operation that needs *)
(* a history owns its ticket, which keeps prune away from it.              *)
(***************************************************************************)
Found(h, n) == n \in AttemptIds /\ h[n] # "none"

AwaitsFound(r, o, h) ==
  /\ r.pending.kind = "answer" => Found(h, r.pending.attempt)
  /\ o.continuation = "answer" => o.kind = "recover" /\ Found(h, LastAttempt(r))
  /\ o.kind = "run" /\ CurrentAttempt(r).mode = "answer"
       => Found(h, LastAttempt(r)) \/ Found(h, LastAttempt(r) - 1)

HistoryInv ==
  /\ IInv
  /\ home \in [Tickets -> [AttemptIds -> {"none", "open", "ended"}]]
  /\ \A t \in Tickets : AwaitsFound(record[t], operations[t], home[t])

(***************************************************************************)
(* What a step of the controller may do to a ticket r with operation o:    *)
(* leave its attempts and what waits alone, or start the next attempt.     *)
(***************************************************************************)
NeedsNothing(o) == o.kind # "run" /\ o.continuation # "answer"

Carries(r, o, s, q) ==
  /\ LastAttempt(s) = LastAttempt(r)
  /\ s.pending.kind = "answer"
       => \/ s.pending = r.pending
          \/ o.continuation = "answer" /\ s.pending.attempt = LastAttempt(r)
  /\ \/ NeedsNothing(q)
     \/ o.kind = "none" /\ q.kind = "recover"
     \/ /\ q.kind = o.kind /\ q.continuation = o.continuation
        /\ CurrentAttempt(s).mode = CurrentAttempt(r).mode

Advances(r, s, q) ==
  /\ LastAttempt(s) = LastAttempt(r) + 1
  /\ s.pending.kind # "answer" /\ q.continuation # "answer"
  /\ CurrentAttempt(s).mode = "answer"
       => r.pending.kind = "answer" /\ r.pending.attempt = LastAttempt(r)

\* Such a step finds what the ticket awaits then, when no history goes away
\* and the one an answer is asked for is there.
LEMMA AwaitsOn ==
  ASSUME NEW r, NEW o, NEW s, NEW q, NEW h, NEW g,
         AwaitsFound(r, o, h), LastAttempt(r) \in Nat,
         Carries(r, o, s, q) \/ Advances(r, s, q),
         \A n \in AttemptIds : h[n] # "none" => g[n] # "none",
         o.kind = "none" /\ q.continuation = "answer" /\ q.kind = "recover"
           => Found(h, LastAttempt(r))
  PROVE  AwaitsFound(s, q, g)
<1>1. ASSUME NEW n, Found(h, n) PROVE Found(g, n)
  BY <1>1 DEF Found
<1> DEFINE m == LastAttempt(r)
<1>2. LastAttempt(s) \in {m, m + 1}
  BY DEF Carries, Advances
<1>3. s.pending.kind = "answer" => Found(h, s.pending.attempt)
  BY DEF AwaitsFound, Carries, Advances
<1>4. q.continuation = "answer"
        => q.kind = "recover" /\ Found(h, LastAttempt(s))
  BY DEF AwaitsFound, Carries, Advances, NeedsNothing
<1>5. ASSUME q.kind = "run", CurrentAttempt(s).mode = "answer"
      PROVE  Found(h, LastAttempt(s)) \/ Found(h, LastAttempt(s) - 1)
  <2>1. CASE Carries(r, o, s, q)
    BY <1>5, <2>1 DEF AwaitsFound, Carries, NeedsNothing
  <2>2. CASE Advances(r, s, q)
    <3>1. LastAttempt(s) - 1 = m /\ Found(h, m)
      BY <1>5, <2>2 DEF AwaitsFound, Advances
    <3> QED
      BY <3>1
  <2> QED
    BY <2>1, <2>2
<1> QED
  BY <1>1, <1>3, <1>4, <1>5 DEF AwaitsFound

(***************************************************************************)
(* The transactions.  Most keep the attempts.                              *)
(***************************************************************************)
Kept(r, s) == s.attempts = r.attempts /\ s.pending \in {r.pending, NoPending}

LEMMA KeptCarries ==
  ASSUME NEW r, NEW o, NEW s, NEW q, Kept(r, s),
         \/ NeedsNothing(q)
         \/ o.kind = "none" /\ q.kind = "recover"
         \/ q.kind = o.kind /\ q.continuation = o.continuation
  PROVE  Carries(r, o, s, q)
BY DEF Kept, Carries, NoPending, LastAttempt, CurrentAttempt

LEMMA KeptTransactions ==
  ASSUME NEW r, Typed(r)
  PROVE  /\ Kept(r, TicketPrepared(TicketReserved(r)))
         /\ Kept(r, TicketBlocked(TicketReserved(r)))
         /\ Kept(r, TicketReserved(r))
         /\ Kept(r, TicketPrepared(r)) /\ Kept(r, TicketBlocked(r))
         /\ Kept(r, [r EXCEPT !.archived = ~@])
         /\ Kept(r, BaselineReserved(r))
         /\ \A c \in BOOLEAN : Kept(r, BaselineSettled(r, c))
         /\ \A e \in BOOLEAN : Kept(r, AttemptFailed(r, e))
         /\ Kept(r, VerificationFailed(r)) /\ Kept(r, RecoveryStarted(r))
         /\ Kept(r, RecoveryFailed(r))
BY DEF Typed, Record, Kept, TicketPrepared, TicketReserved, TicketBlocked,
       BaselineReserved, BaselineSettled, AttemptFailed, VerificationFailed,
       RecoveryStarted, RecoveryFailed

LEMMA KeptBySnapshots ==
  ASSUME NEW r, Typed(r), NEW d, NEW b
  PROVE  /\ Kept(r, VerificationStarted(r, d))
         /\ Kept(r, VerificationSettled(r, d, b))
         /\ Kept(r, ReviewRecorded(r, d, b))
         /\ Kept(r, Fenced(r))
BY DEF Typed, Record, Kept, VerificationStarted, VerificationSettled,
       ReviewRecorded, Fenced

LEMMA KeptByInstructions ==
  ASSUME NEW r, Typed(r), NEW i, NEW live
  PROVE  /\ Kept(r, InstructionRecorded(r, i, live))
         /\ Kept(r, InstructionReceived(r, i))
         /\ Kept(r, InstructionUncertain(r, i))
         /\ Kept(r, InstructionConsumed(r, i))
BY DEF Typed, Record, Kept, InstructionRecorded, InstructionReceived,
       InstructionUncertain, InstructionConsumed

LEMMA KeptByReservedFence ==
  ASSUME NEW r, Typed(r), r.revision < MaxRevision
  PROVE  Kept(r, Fenced(TicketReserved(r)))
<1> DEFINE s == TicketReserved(r)
<1>1. Typed(s) /\ Kept(r, s)
  BY TicketReservedTyped, KeptTransactions
<1> HIDE DEF s
<1>2. Kept(s, Fenced(s))
  BY <1>1, KeptBySnapshots
<1> QED
  BY <1>1, <1>2 DEF Kept, s

\* The others keep their number, and what waits.
LEMMA SameNumber ==
  ASSUME NEW r, Typed(r), LastAttempt(r) > 0, NEW d, NEW b, NEW o
  PROVE  /\ LastAttempt(SetupBlocked(r, d)) = LastAttempt(r)
         /\ SetupBlocked(r, d).pending = r.pending
         /\ LastAttempt(AttemptSettled(r, b, o, d)) = LastAttempt(r)
         /\ AttemptSettled(r, b, o, d).pending = r.pending
         /\ LastAttempt(InboxSpliced(r, b)) = LastAttempt(r)
         /\ InboxSpliced(r, b).pending = r.pending
         /\ CurrentAttempt(InboxSpliced(r, b)).mode = CurrentAttempt(r).mode
<1>1. /\ r \in Record /\ r.attempts \in Seq(Attempt)
      /\ LastAttempt(r) \in DOMAIN r.attempts
      /\ r.attempts[LastAttempt(r)] \in Attempt
  BY CurrentTyped DEF Typed, Record
<1> DEFINE n == LastAttempt(r)
<1>2. ASSUME NEW a PROVE Len([r.attempts EXCEPT ![n] = a]) = n
  BY <1>1 DEF LastAttempt
<1>3. /\ SetupBlocked(r, d).attempts =
           [r.attempts EXCEPT ![n] =
              [@ EXCEPT !.snapshot = d, !.cleanExit = TRUE]]
      /\ SetupBlocked(r, d).pending = r.pending
  BY <1>1 DEF SetupBlocked, Record
<1>4. /\ AttemptSettled(r, b, o, d).attempts =
           [r.attempts EXCEPT ![n] =
              [CurrentAttempt(r) EXCEPT
                 !.receipt = o.receipt, !.completed = o.completed,
                 !.cleanExit = o.cleanExit, !.snapshot = d,
                 !.delivery = o.delivery]]
      /\ AttemptSettled(r, b, o, d).pending = r.pending
  BY <1>1 DEF AttemptSettled, Record
<1>5. /\ InboxSpliced(r, b).attempts =
           [r.attempts EXCEPT ![n] = [@ EXCEPT !.receipt = TRUE]]
      /\ InboxSpliced(r, b).pending = r.pending
  BY <1>1 DEF InboxSpliced, Record
<1>6. [r.attempts[n] EXCEPT !.receipt = TRUE].mode = r.attempts[n].mode
  BY <1>1 DEF Attempt
<1> QED
  <2>1. /\ LastAttempt(SetupBlocked(r, d)) = n
        /\ LastAttempt(AttemptSettled(r, b, o, d)) = n
    BY <1>2, <1>3, <1>4 DEF LastAttempt
  <2>2. LastAttempt(InboxSpliced(r, b)) = n
    BY <1>2, <1>5 DEF LastAttempt
  <2>3. InboxSpliced(r, b).attempts[n].mode = r.attempts[n].mode
    BY <1>1, <1>5, <1>6
  <2> QED
    BY <1>3, <1>4, <1>5, <2>1, <2>2, <2>3 DEF CurrentAttempt

LEMMA RecoveredNumber ==
  ASSUME NEW r, Typed(r), NEW k, NEW d
  PROVE  /\ LastAttempt(TicketRecovered(r, k, d)) = LastAttempt(r)
         /\ TicketRecovered(r, k, d).pending.kind = "answer"
              => /\ k = "answer"
                 /\ TicketRecovered(r, k, d).pending.attempt = LastAttempt(r)
<1>1. r \in Record /\ r.attempts \in Seq(Attempt)
  BY DEF Typed, Record
<1>2. /\ TicketRecovered(r, k, d).attempts =
           [n \in DOMAIN r.attempts |->
              [r.attempts[n] EXCEPT !.cleanExit = TRUE]]
      /\ TicketRecovered(r, k, d).pending =
           IF k = "restart" THEN NoPending
           ELSE [kind |-> k, attempt |-> LastAttempt(r), snapshot |-> d]
  BY <1>1 DEF TicketRecovered, Record
<1>3. DOMAIN r.attempts = 1 .. Len(r.attempts) /\ Len(r.attempts) \in Nat
  BY <1>1
<1>4. Len(TicketRecovered(r, k, d).attempts) = Len(r.attempts)
  BY <1>2, <1>3
<1> QED
  BY <1>2, <1>4 DEF LastAttempt, NoPending

LEMMA StartedNumber ==
  ASSUME NEW r, Typed(r)
  PROVE  /\ LastAttempt(AttemptStarted(r)) = LastAttempt(r) + 1
         /\ AttemptStarted(r).pending = NoPending
         /\ CurrentAttempt(AttemptStarted(r)).mode = "answer"
              => r.pending.kind = "answer"
<1>1. r \in Record /\ r.attempts \in Seq(Attempt)
  BY DEF Typed, Record
<1> DEFINE a == [revision |-> r.revision,
                 mode |-> IF r.pending.kind = "none" THEN "fresh"
                                                     ELSE r.pending.kind,
                 from |-> r.pending.snapshot, receipt |-> FALSE,
                 completed |-> FALSE, cleanExit |-> FALSE,
                 snapshot |-> NoSnapshot, delivery |-> "none"]
<1>2. /\ AttemptStarted(r).attempts = Append(r.attempts, a)
      /\ AttemptStarted(r).pending = NoPending
  BY <1>1 DEF AttemptStarted, Record
<1>3. a.mode = "answer" => r.pending.kind = "answer"
  OBVIOUS
<1> HIDE DEF a
<1>4. /\ Len(Append(r.attempts, a)) = Len(r.attempts) + 1
      /\ Append(r.attempts, a)[Len(r.attempts) + 1] = a
  BY <1>1
<1> QED
  BY <1>2, <1>3, <1>4 DEF LastAttempt, CurrentAttempt

(***************************************************************************)
(* The actions.                                                            *)
(***************************************************************************)
Moved(r, o, s, q) == Carries(r, o, s, q) \/ Advances(r, s, q)
Moves(u) == Moved(record[u], operations[u], record'[u], operations'[u])

\* A ticket that a step leaves alone carries on.
LEMMA OneMoves ==
  ASSUME IInv, NEW t \in Tickets, NEW s, NEW q,
         Moved(record[t], operations[t], s, q),
         record' = [record EXCEPT ![t] = s],
         operations' = [operations EXCEPT ![t] = q],
         NEW u \in Tickets
  PROVE  Moves(u)
<1>1. DOMAIN record = Tickets /\ DOMAIN operations = Tickets
  BY DEF IInv, TypeOK
<1>2. CASE u = t
  BY <1>1, <1>2 DEF Moves
<1>3. CASE u # t
  <2>1. record'[u] = record[u] /\ operations'[u] = operations[u]
    BY <1>1, <1>3
  <2>2. Carries(record[u], operations[u], record[u], operations[u])
    BY DEF Carries
  <2> QED
    BY <2>1, <2>2 DEF Moves, Moved
<1> QED
  BY <1>2, <1>3

\* The operation goes on.
LEMMA KeepsMove ==
  ASSUME IInv, NEW t \in Tickets, NEW s, Kept(record[t], s), Update(t, s),
         UNCHANGED operations, NEW u \in Tickets
  PROVE  Moves(u)
<1>1. /\ record' = [record EXCEPT ![t] = s]
      /\ operations' = [operations EXCEPT ![t] = operations[t]]
  BY DEF Update, IInv, TypeOK
<1>2. Moved(record[t], operations[t], s, operations[t])
  BY KeptCarries DEF Moved
<1> QED
  BY <1>1, <1>2, OneMoves

LEMMA EndsMove ==
  ASSUME IInv, NEW t \in Tickets, NEW s, Update(t, s), Finish(t),
         Carries(record[t], operations[t], s, NoOperation), NEW u \in Tickets
  PROVE  Moves(u)
<1>1. /\ record' = [record EXCEPT ![t] = s]
      /\ operations' = [operations EXCEPT ![t] = NoOperation]
  BY DEF Update, Finish
<1> QED
  BY <1>1, OneMoves DEF Moved

LEMMA NoOperationNeedsNothing == NeedsNothing(NoOperation)
BY DEF NeedsNothing, NoOperation

LEMMA StagesMove ==
  ASSUME IInv, NEW t \in Tickets, NEW s, Kept(record[t], s), Update(t, s),
         NEW next, operations' = [operations EXCEPT ![t].stage = next],
         NEW u \in Tickets
  PROVE  Moves(u)
<1> DEFINE q == [operations[t] EXCEPT !.stage = next]
<1>1. operations[t] \in Operation
  BY TicketFacts
<1>2. q.kind = operations[t].kind
      /\ q.continuation = operations[t].continuation
  BY <1>1 DEF Operation
<1>3. /\ record' = [record EXCEPT ![t] = s]
      /\ operations' = [operations EXCEPT ![t] = q]
  BY DEF Update, IInv, TypeOK
<1> HIDE DEF q
<1>4. Moved(record[t], operations[t], s, q)
  BY <1>2, KeptCarries DEF Moved
<1> QED
  BY <1>3, <1>4, OneMoves

LEMMA PreparationMoves ==
  ASSUME IInv, NEW t \in Tickets, NEW u \in Tickets,
         \/ PrepareRevision(t) \/ PrepareRevisionBlocked(t)
         \/ PrepareAgain(t) \/ PrepareAgainBlocked(t) \/ Archive(t)
  PROVE  Moves(u)
<1> DEFINE r == record[t]
<1>1. Typed(r)
  BY TicketFacts
<1>2. UNCHANGED operations
  BY DEF PrepareRevision, PrepareRevisionBlocked, PrepareAgain,
         PrepareAgainBlocked, Archive, memory
<1>3. PICK s : Kept(r, s) /\ Update(t, s)
  <2>1. \/ Update(t, TicketPrepared(TicketReserved(r)))
        \/ Update(t, TicketBlocked(TicketReserved(r)))
        \/ Update(t, TicketPrepared(r)) \/ Update(t, TicketBlocked(r))
        \/ Update(t, [r EXCEPT !.archived = ~@])
    BY DEF PrepareRevision, PrepareRevisionBlocked, PrepareAgain,
           PrepareAgainBlocked, Archive
  <2>2. /\ Kept(r, TicketPrepared(TicketReserved(r)))
        /\ Kept(r, TicketBlocked(TicketReserved(r)))
        /\ Kept(r, TicketPrepared(r)) /\ Kept(r, TicketBlocked(r))
        /\ Kept(r, [r EXCEPT !.archived = ~@])
    BY <1>1, KeptTransactions
  <2> QED
    BY <2>1, <2>2, Zenon
<1> QED
  BY <1>2, <1>3, KeepsMove

LEMMA RunMoves ==
  ASSUME IInv, NEW t \in Tickets, NEW u \in Tickets, Run(t)
  PROVE  Moves(u)
<1> DEFINE r == record[t]
           s == AttemptStarted(r)
           q == RunOperation(Queued(r))
<1>1. Typed(r)
  BY TicketFacts
<1>2. /\ record' = [record EXCEPT ![t] = s]
      /\ operations' = [operations EXCEPT ![t] = q]
  BY DEF Run, Update
<1>3. q.continuation # "answer"
  BY DEF RunOperation, NoOperation
<1>4. r.pending.kind = "answer" => r.pending.attempt = LastAttempt(r)
  BY DEF Run, ContinuationBinds
<1>5. /\ LastAttempt(s) = LastAttempt(r) + 1
      /\ s.pending = NoPending
      /\ CurrentAttempt(s).mode = "answer" => r.pending.kind = "answer"
  BY <1>1, StartedNumber
<1> HIDE DEF s, q
<1>6. Advances(r, s, q)
  BY <1>3, <1>4, <1>5 DEF Advances, NoPending
<1> QED
  BY <1>2, <1>6, OneMoves DEF Moved

LEMMA BodyMoves ==
  ASSUME IInv, NEW t \in Tickets, NEW u \in Tickets,
         SetupPassed(t) \/ BaselineDone(t) \/ EnterRuntime(t)
  PROVE  Moves(u)
<1> DEFINE r == record[t]
<1>1. Typed(r)
  BY TicketFacts
<1>2. Kept(r, r)
  BY DEF Kept
<1>3. record' = record => Update(t, r)
  BY DEF Update, IInv, TypeOK
<1>4. CASE SetupPassed(t)
  <2>1. CASE NeedsBaseline(r)
    <3>1. /\ Update(t, BaselineReserved(r))
          /\ operations' = [operations EXCEPT ![t].stage = "baseline"]
      BY <1>4, <2>1 DEF SetupPassed
    <3>2. Kept(r, BaselineReserved(r))
      BY <1>1, KeptTransactions
    <3> QED
      BY <3>1, <3>2, StagesMove
  <2>2. CASE ~NeedsBaseline(r)
    <3>1. /\ Update(t, r)
          /\ operations' = [operations EXCEPT ![t].stage = "launch"]
      BY <1>3, <1>4, <2>2 DEF SetupPassed
    <3> QED
      BY <1>2, <3>1, StagesMove
  <2> QED
    BY <2>1, <2>2
<1>5. CASE BaselineDone(t)
  <2>1. PICK c \in BOOLEAN : Update(t, BaselineSettled(r, c))
    BY <1>5 DEF BaselineDone
  <2>2. operations' = [operations EXCEPT ![t].stage = "launch"]
    BY <1>5 DEF BaselineDone
  <2>3. Kept(r, BaselineSettled(r, c))
    BY <1>1, KeptTransactions
  <2> QED
    BY <2>1, <2>2, <2>3, StagesMove
<1>6. CASE EnterRuntime(t)
  <2>1. /\ Update(t, r)
        /\ operations' = [operations EXCEPT ![t].stage = "runtime"]
    BY <1>3, <1>6 DEF EnterRuntime
  <2> QED
    BY <1>2, <2>1, StagesMove
<1> QED
  BY <1>4, <1>5, <1>6

LEMMA RunEndsMove ==
  ASSUME IInv, NEW t \in Tickets, NEW u \in Tickets,
         BlockOnSetup(t) \/ Settle(t) \/ RunFails(t)
  PROVE  Moves(u)
<1> DEFINE r == record[t]
           o == operations[t]
<1>1. Typed(r) /\ LastAttempt(r) > 0
  BY TicketFacts DEF BlockOnSetup, Settle, RunFails, Running, TicketInv
<1>2. Finish(t)
  BY DEF BlockOnSetup, Settle, RunFails
<1>3. ASSUME NEW s, Update(t, s), LastAttempt(s) = LastAttempt(r),
             s.pending = r.pending
      PROVE  Moves(u)
  <2>1. Carries(r, o, s, NoOperation)
    BY <1>3, NoOperationNeedsNothing DEF Carries
  <2> QED
    BY <1>2, <1>3, <2>1, EndsMove
<1>4. CASE BlockOnSetup(t)
  <2>1. Update(t, SetupBlocked(r, worktree[t]))
    BY <1>4 DEF BlockOnSetup
  <2> QED
    BY <1>1, <1>3, <2>1, SameNumber
<1>5. CASE Settle(t)
  <2>1. PICK x, d : Update(t, AttemptSettled(r, o.batch, x, d))
    BY <1>5 DEF Settle
  <2> QED
    BY <1>1, <1>3, <2>1, SameNumber
<1>6. CASE RunFails(t)
  <2>1. Update(t, AttemptFailed(r, o.stage = "runtime"))
    BY <1>6 DEF RunFails
  <2> DEFINE e == o.stage = "runtime"
  <2>2. e \in BOOLEAN
    OBVIOUS
  <2>3. Update(t, AttemptFailed(r, e))
    BY <2>1
  <2> HIDE DEF e
  <2>4. Kept(r, AttemptFailed(r, e))
    BY <1>1, <2>2, KeptTransactions
  <2>5. Carries(r, o, AttemptFailed(r, e), NoOperation)
    BY <2>4, NoOperationNeedsNothing, KeptCarries
  <2> QED
    BY <1>2, <2>3, <2>5, EndsMove
<1> QED
  BY <1>4, <1>5, <1>6

LEMMA ReceiptMoves ==
  ASSUME IInv, NEW t \in Tickets, NEW u \in Tickets, ObserveReceipt(t)
  PROVE  Moves(u)
<1> DEFINE r == record[t]
           o == operations[t]
           s == InboxSpliced(r, o.batch)
<1>1. Typed(r) /\ LastAttempt(r) > 0
  BY TicketFacts DEF ObserveReceipt, Running, TicketInv
<1>2. /\ LastAttempt(s) = LastAttempt(r) /\ s.pending = r.pending
      /\ CurrentAttempt(s).mode = CurrentAttempt(r).mode
  BY <1>1, SameNumber
<1>3. /\ record' = [record EXCEPT ![t] = s]
      /\ operations' = [operations EXCEPT ![t] = o]
  BY DEF ObserveReceipt, Update, memory, IInv, TypeOK
<1> HIDE DEF s
<1>4. Moved(r, o, s, o)
  BY <1>2 DEF Moved, Carries
<1> QED
  BY <1>3, <1>4, OneMoves

LEMMA AbortMoves ==
  ASSUME IInv, NEW t \in Tickets, NEW u \in Tickets, Abort(t)
  PROVE  Moves(u)
<1> DEFINE o == operations[t]
           q == [o EXCEPT !.abort = TRUE]
<1>1. o \in Operation
  BY TicketFacts
<1>2. q.kind = o.kind /\ q.continuation = o.continuation
  BY <1>1 DEF Operation
<1>3. /\ record' = [record EXCEPT ![t] = record[t]]
      /\ operations' = [operations EXCEPT ![t] = q]
  BY DEF Abort, IInv, TypeOK
<1> HIDE DEF q
<1>4. Moved(record[t], o, record[t], q)
  BY <1>2 DEF Moved, Carries
<1> QED
  BY <1>3, <1>4, OneMoves

LEMMA VerificationMoves ==
  ASSUME IInv, NEW t \in Tickets, NEW u \in Tickets,
         \/ Verify(t) \/ VerifySettles(t) \/ VerifyFails(t)
         \/ \E verdict \in Verdicts : RecordReview(t, verdict)
  PROVE  Moves(u)
<1> DEFINE r == record[t]
           o == operations[t]
<1>1. Typed(r)
  BY TicketFacts
<1>2. ASSUME NEW s, Update(t, s), Kept(r, s), Finish(t)
      PROVE  Moves(u)
  <2>1. Carries(r, o, s, NoOperation)
    BY <1>2, NoOperationNeedsNothing, KeptCarries
  <2> QED
    BY <1>2, <2>1, EndsMove
<1>3. CASE Verify(t)
  <2> DEFINE s == VerificationStarted(r, worktree[t])
  <2>1. NeedsNothing(VerifyOperation)
    BY DEF NeedsNothing, VerifyOperation, NoOperation
  <2>2. Kept(r, s)
    BY <1>1, KeptBySnapshots
  <2>3. /\ record' = [record EXCEPT ![t] = s]
        /\ operations' = [operations EXCEPT ![t] = VerifyOperation]
    BY <1>3 DEF Verify, Update
  <2> HIDE DEF s
  <2>4. Moved(r, o, s, VerifyOperation)
    BY <2>1, <2>2, KeptCarries DEF Moved
  <2> QED
    BY <2>3, <2>4, OneMoves
<1>4. CASE VerifySettles(t)
  <2>1. PICK b : Update(t, VerificationSettled(r, worktree[t], b))
    BY <1>4 DEF VerifySettles
  <2>2. Finish(t)
    BY <1>4 DEF VerifySettles
  <2> QED
    BY <1>1, <1>2, <2>1, <2>2, KeptBySnapshots
<1>5. CASE VerifyFails(t)
  <2>1. Update(t, VerificationFailed(r)) /\ Finish(t)
    BY <1>5 DEF VerifyFails
  <2> QED
    BY <1>1, <1>2, <2>1, KeptTransactions
<1>6. ASSUME NEW verdict \in Verdicts, RecordReview(t, verdict)
      PROVE  Moves(u)
  <2>1. /\ Update(t, ReviewRecorded(r, worktree[t], verdict))
        /\ UNCHANGED operations
    BY <1>6 DEF RecordReview, memory
  <2>2. Kept(r, ReviewRecorded(r, worktree[t], verdict))
    BY <1>1, KeptBySnapshots
  <2> QED
    BY <2>1, <2>2, KeepsMove
<1> QED
  BY <1>3, <1>4, <1>5, <1>6

LEMMA RecoveryMoves ==
  ASSUME IInv, NEW t \in Tickets, NEW u \in Tickets,
         \/ \E kind \in ContinuationKinds : Recover(t, kind)
         \/ RecoverySettles(t) \/ RecoveryFails(t)
  PROVE  Moves(u)
<1> DEFINE r == record[t]
           o == operations[t]
<1>1. Typed(r)
  BY TicketFacts
<1>2. ASSUME NEW kind \in ContinuationKinds, Recover(t, kind)
      PROVE  Moves(u)
  <2> DEFINE q == RecoverOperation(kind, worktree[t])
             s == RecoveryStarted(r)
  <2>1. o.kind = "none" /\ q.kind = "recover"
    BY <1>2 DEF Recover, Live, RecoverOperation, NoOperation
  <2>2. Kept(r, s)
    BY <1>1, KeptTransactions
  <2>3. /\ record' = [record EXCEPT ![t] = s]
        /\ operations' = [operations EXCEPT ![t] = q]
    BY <1>2 DEF Recover, Update
  <2> HIDE DEF s, q
  <2>4. Moved(r, o, s, q)
    BY <2>1, <2>2, KeptCarries DEF Moved
  <2> QED
    BY <2>3, <2>4, OneMoves
<1>3. CASE RecoverySettles(t)
  <2> DEFINE s == TicketRecovered(r, o.continuation, o.digest)
  <2>1. Update(t, s) /\ Finish(t)
    BY <1>3 DEF RecoverySettles
  <2>2. /\ LastAttempt(s) = LastAttempt(r)
        /\ s.pending.kind = "answer"
             => o.continuation = "answer" /\ s.pending.attempt = LastAttempt(r)
    BY <1>1, RecoveredNumber
  <2> HIDE DEF s
  <2>3. Carries(r, o, s, NoOperation)
    BY <2>2, NoOperationNeedsNothing DEF Carries
  <2> QED
    BY <2>1, <2>3, EndsMove
<1>4. CASE RecoveryFails(t)
  <2>1. Update(t, RecoveryFailed(r)) /\ Finish(t)
    BY <1>4 DEF RecoveryFails
  <2>2. Kept(r, RecoveryFailed(r))
    BY <1>1, KeptTransactions
  <2>3. Carries(r, o, RecoveryFailed(r), NoOperation)
    BY <2>2, NoOperationNeedsNothing, KeptCarries
  <2> QED
    BY <2>1, <2>3, EndsMove
<1> QED
  BY <1>2, <1>3, <1>4

LEMMA EnvironmentMoves ==
  ASSUME IInv, NEW t \in Tickets, NEW u \in Tickets,
         EditWorktree(t) \/ ProcessesExit(t)
  PROVE  Moves(u)
<1>1. record' = record /\ operations' = operations
  BY DEF EditWorktree, ProcessesExit, memory
<1>2. Carries(record[u], operations[u], record[u], operations[u])
  BY DEF Carries
<1> QED
  BY <1>1, <1>2 DEF Moves, Moved

LEMMA InstructionsMove ==
  ASSUME IInv, NEW t \in Tickets, NEW u \in Tickets, NEW i \in Instructions,
         \/ ObserveConsumption(t, i) \/ QueueInstruction(t, i)
         \/ SendInstruction(t, i) \/ SendReceived(t, i) \/ SendUncertain(t, i)
  PROVE  Moves(u)
<1> DEFINE r == record[t]
<1>1. Typed(r)
  BY TicketFacts
<1>2. UNCHANGED operations
  BY DEF ObserveConsumption, QueueInstruction, SendInstruction, SendReceived,
         SendUncertain, memory
<1>3. \/ Update(t, InstructionRecorded(r, i, TRUE))
      \/ Update(t, InstructionRecorded(r, i, FALSE))
      \/ Update(t, InstructionReceived(r, i))
      \/ Update(t, InstructionUncertain(r, i))
      \/ Update(t, InstructionConsumed(r, i))
  BY DEF ObserveConsumption, QueueInstruction, SendInstruction, SendReceived,
         SendUncertain
<1>4. /\ Kept(r, InstructionRecorded(r, i, TRUE))
      /\ Kept(r, InstructionRecorded(r, i, FALSE))
      /\ Kept(r, InstructionReceived(r, i))
      /\ Kept(r, InstructionUncertain(r, i))
      /\ Kept(r, InstructionConsumed(r, i))
  BY <1>1, KeptByInstructions
<1>5. PICK s : Kept(r, s) /\ Update(t, s)
  BY <1>3, <1>4, Zenon
<1> QED
  BY <1>2, <1>5, KeepsMove

LEMMA RestartsMove ==
  ASSUME IInv, NEW u \in Tickets,
         Restart \/ \E t \in Tickets : RestartInPrepare(t)
  PROVE  Moves(u)
<1>1. Typed(record[u]) /\ DOMAIN record = Tickets
  BY TicketFacts DEF IInv, TypeOK
<1>2. operations'[u] = NoOperation
  BY DEF Restart, RestartInPrepare, Restarted
<1>3. \/ record'[u] = Fenced(record[u])
      \/ /\ record'[u] = Fenced(TicketReserved(record[u]))
         /\ record[u].revision < MaxRevision
  BY <1>1 DEF Restart, RestartInPrepare, Restarted, CanReserve
<1>4. Kept(record[u], record'[u])
  BY <1>1, <1>3, KeptBySnapshots, KeptByReservedFence
<1>5. Carries(record[u], operations[u], record'[u], NoOperation)
  BY <1>4, NoOperationNeedsNothing, KeptCarries
<1> QED
  BY <1>2, <1>5 DEF Moves, Moved

\* Every step of the controller moves each ticket in this way.
LEMMA ControllerMoves ==
  ASSUME IInv, NEW u \in Tickets, Next
  PROVE  Moves(u)
<1>1. CASE Restart
  BY <1>1, RestartsMove
<1>2. ASSUME NEW t \in Tickets, TicketStep(t) PROVE Moves(u)
  <2>1. CASE \/ PrepareRevision(t) \/ PrepareRevisionBlocked(t)
             \/ PrepareAgain(t) \/ PrepareAgainBlocked(t) \/ Archive(t)
    BY <2>1, PreparationMoves
  <2>2. CASE Run(t)
    BY <2>2, RunMoves
  <2>3. CASE SetupPassed(t) \/ BaselineDone(t) \/ EnterRuntime(t)
    BY <2>3, BodyMoves
  <2>4. CASE BlockOnSetup(t) \/ Settle(t) \/ RunFails(t)
    BY <2>4, RunEndsMove
  <2>5. CASE ObserveReceipt(t)
    BY <2>5, ReceiptMoves
  <2>6. CASE Cancel(t)
    BY <2>6, AbortMoves DEF Cancel
  <2>7. CASE \/ Verify(t) \/ VerifySettles(t) \/ VerifyFails(t)
             \/ \E verdict \in Verdicts : RecordReview(t, verdict)
    BY <2>7, VerificationMoves
  <2>8. CASE \/ \E kind \in ContinuationKinds : Recover(t, kind)
             \/ RecoverySettles(t) \/ RecoveryFails(t)
    BY <2>8, RecoveryMoves
  <2>9. CASE EditWorktree(t) \/ ProcessesExit(t)
    BY <2>9, EnvironmentMoves
  <2>10. CASE RestartInPrepare(t)
    BY <2>10, RestartsMove
  <2> QED
    BY <1>2, <2>1, <2>2, <2>3, <2>4, <2>5, <2>6, <2>7, <2>8, <2>9, <2>10
       DEF TicketStep
<1>3. ASSUME NEW t \in Tickets, InstructionStep(t) PROVE Moves(u)
  <2>1. ASSUME NEW named \in SUBSET Instructions, CancelIfUnconsumed(t, named)
        PROVE  Moves(u)
    BY <2>1, AbortMoves DEF CancelIfUnconsumed
  <2>2. ASSUME NEW i \in Instructions,
               \/ ObserveConsumption(t, i) \/ QueueInstruction(t, i)
               \/ SendInstruction(t, i) \/ SendReceived(t, i)
               \/ SendUncertain(t, i)
        PROVE  Moves(u)
    BY <2>2, InstructionsMove
  <2> QED
    BY <1>3, <2>1, <2>2 DEF InstructionStep
<1> QED
  BY <1>1, <1>2, <1>3 DEF Next

(***************************************************************************)
(* The histories.                                                          *)
(***************************************************************************)
\* Fewer histories are lost than are not awaited.
LEMMA AwaitsStill ==
  ASSUME NEW r, NEW o, NEW h, NEW g, AwaitsFound(r, o, h),
         LastAttempt(r) \in Nat,
         \A n \in AttemptIds :
           h[n] # "none" =>
             \/ g[n] # "none"
             \/ ~Owned(r) /\ ~(r.pending.kind = "answer" /\ r.pending.attempt = n),
         o.kind \in {"run", "recover"} => Owned(r)
  PROVE  AwaitsFound(r, o, g)
<1>1. ASSUME NEW n, Found(h, n), Owned(r) PROVE Found(g, n)
  BY <1>1 DEF Found
<1>2. r.pending.kind = "answer" => Found(g, r.pending.attempt)
  BY DEF AwaitsFound, Found
<1> QED
  BY <1>1, <1>2 DEF AwaitsFound

\* Whoever runs or recovers owns the ticket.
LEMMA WorkOwns ==
  ASSUME IInv, NEW t \in Tickets
  PROVE  /\ operations[t].kind \in {"run", "recover"} => Owned(record[t])
         /\ operations[t].kind = "recover" => LastAttempt(record[t]) > 0
         /\ LastAttempt(record[t]) \in 0 .. MaxAttempts
<1>1. TicketInv(record[t], operations[t].kind, processes[t]) /\ Typed(record[t])
  BY TicketFacts
<1>2. operations[t].kind \in {"run", "recover"} => Owned(record[t])
  BY <1>1, Operators DEF TicketInv, Owned
<1>3. operations[t].kind = "recover" => LastAttempt(record[t]) > 0
  BY <1>1 DEF TicketInv, Restartable
<1> QED
  BY <1>1, <1>2, <1>3, CurrentTyped

\* A step that leaves the controller alone.
LEMMA HomeStep ==
  ASSUME HistoryInv, UNCHANGED vars,
         home' \in [Tickets -> [AttemptIds -> {"none", "open", "ended"}]],
         \A t \in Tickets, n \in AttemptIds :
           HasHistory(t, n) =>
             \/ home'[t][n] # "none"
             \/ /\ ~Owned(record[t])
                /\ ~ /\ record[t].pending.kind = "answer"
                     /\ record[t].pending.attempt = n
  PROVE  HistoryInv'
<1>1. IInv'
  BY StutterInv DEF HistoryInv
<1>2. record' = record /\ operations' = operations
  BY DEF vars
<1>3. ASSUME NEW t \in Tickets
      PROVE  AwaitsFound(record'[t], operations'[t], home'[t])
  <2> DEFINE r == record[t]
             o == operations[t]
             h == home[t]
             g == home'[t]
  <2>1. /\ o.kind \in {"run", "recover"} => Owned(r)
        /\ LastAttempt(r) \in Nat
    BY WorkOwns, BoundAssumption DEF HistoryInv
  <2>2. AwaitsFound(r, o, h)
    BY DEF HistoryInv
  <2>3. \A n \in AttemptIds :
          h[n] # "none" =>
            \/ g[n] # "none"
            \/ ~Owned(r) /\ ~(r.pending.kind = "answer" /\ r.pending.attempt = n)
    BY DEF HasHistory
  <2> HIDE DEF r, o, h, g
  <2>4. AwaitsFound(r, o, g)
    BY <2>1, <2>2, <2>3, AwaitsStill
  <2> QED
    BY <1>2, <2>4 DEF r, o, g
<1> QED
  BY <1>1, <1>3 DEF HistoryInv

LEMMA PruneKeeps == HistoryInv /\ Prune => HistoryInv'
<1> SUFFICES ASSUME HistoryInv, Prune PROVE HistoryInv'
  OBVIOUS
<1>1. PICK youngest \in [Tickets -> AttemptIds \union {0}] :
        home' = [t \in Tickets |-> [n \in AttemptIds |->
                   IF n <= youngest[t] /\ Disposable(t, n) THEN "none"
                                                           ELSE home[t][n]]]
  BY DEF Prune
<1>2. home' \in [Tickets -> [AttemptIds -> {"none", "open", "ended"}]]
  BY <1>1 DEF HistoryInv
<1>3. ASSUME NEW t \in Tickets, NEW n \in AttemptIds, HasHistory(t, n),
             home'[t][n] = "none"
      PROVE  /\ ~Owned(record[t])
             /\ ~ /\ record[t].pending.kind = "answer"
                  /\ record[t].pending.attempt = n
  <2>1. Disposable(t, n)
    BY <1>1, <1>3 DEF HasHistory
  <2> QED
    BY <2>1 DEF Disposable, Unowned
<1>4. UNCHANGED vars
  BY DEF Prune
<1> QED
  BY <1>2, <1>3, <1>4, HomeStep

LEMMA OpeningKeeps ==
  ASSUME HistoryInv, NEW t \in Tickets, RunnerOpens(t)
  PROVE  HistoryInv'
<1> DEFINE n == LastAttempt(record[t])
<1>1. home' = [home EXCEPT ![t][n] = "open"] /\ UNCHANGED vars
  BY DEF RunnerOpens
<1> HIDE DEF n
<1>2. home' \in [Tickets -> [AttemptIds -> {"none", "open", "ended"}]]
  BY <1>1 DEF HistoryInv
<1>3. ASSUME NEW u \in Tickets, NEW m \in AttemptIds, HasHistory(u, m)
      PROVE  home'[u][m] # "none"
  BY <1>1, <1>3 DEF HistoryInv, HasHistory
<1> QED
  BY <1>1, <1>2, <1>3, HomeStep

LEMMA ControllerKeeps ==
  ASSUME HistoryInv, Next, \A t \in Tickets : FindsHistory(t),
         home' = [t \in Tickets |-> [n \in AttemptIds |->
                    IF Settle(t) /\ n = LastAttempt(record[t])
                         /\ HasHistory(t, n)
                    THEN "ended" ELSE home[t][n]]]
  PROVE  HistoryInv'
<1>1. IInv /\ IInv'
  BY StepInv DEF HistoryInv
<1>2. home' \in [Tickets -> [AttemptIds -> {"none", "open", "ended"}]]
  BY DEF HistoryInv
<1>3. ASSUME NEW t \in Tickets
      PROVE  AwaitsFound(record'[t], operations'[t], home'[t])
  <2> DEFINE r == record[t]
             o == operations[t]
             s == record'[t]
             q == operations'[t]
             h == home[t]
             g == home'[t]
  <2>1. AwaitsFound(r, o, h)
    BY DEF HistoryInv
  <2>2. Carries(r, o, s, q) \/ Advances(r, s, q)
    BY <1>1, ControllerMoves DEF Moves, Moved
  <2>3. LastAttempt(r) \in 0 .. MaxAttempts
    BY <1>1, WorkOwns
  <2>4. \A n \in AttemptIds : h[n] # "none" => g[n] # "none"
    <3>1. ASSUME NEW n \in AttemptIds, h[n] # "none" PROVE g[n] # "none"
      BY <3>1
    <3> HIDE DEF h, g
    <3> QED
      BY <3>1
  <2>5. ASSUME o.kind = "none", q.continuation = "answer", q.kind = "recover"
        PROVE  Found(h, LastAttempt(r))
    <3>1. HasHistory(t, LastAttempt(r))
      BY <2>5 DEF FindsHistory, Live
    <3>2. LastAttempt(s) > 0
      <4>1. TicketInv(record[t], operations[t].kind, processes[t])'
        BY <1>1 DEF IInv
      <4> QED
        BY <2>5, <4>1 DEF TicketInv, Restartable, LastAttempt
    <3>3. LastAttempt(s) = LastAttempt(r)
      BY <2>2, <2>5 DEF Carries, Advances
    <3> QED
      BY <2>3, <3>1, <3>2, <3>3, BoundAssumption
         DEF Found, HasHistory, AttemptIds
  <2>6. LastAttempt(r) \in Nat
    BY <2>3, BoundAssumption
  <2> HIDE DEF r, o, s, q, h, g
  <2>7. AwaitsFound(s, q, g)
    BY <2>1, <2>2, <2>4, <2>5, <2>6, AwaitsOn
  <2> QED
    BY <2>7 DEF s, q, g
<1> QED
  BY <1>1, <1>2, <1>3 DEF HistoryInv

LEMMA HistoryKeeps == HistoryInv /\ [HistoryNext]_historyVars => HistoryInv'
<1> SUFFICES ASSUME HistoryInv, [HistoryNext]_historyVars PROVE HistoryInv'
  OBVIOUS
<1>1. CASE UNCHANGED historyVars
  <2>1. UNCHANGED vars /\ home' = home
    BY <1>1 DEF historyVars
  <2>2. home' \in [Tickets -> [AttemptIds -> {"none", "open", "ended"}]]
    BY <2>1 DEF HistoryInv
  <2>3. ASSUME NEW u \in Tickets, NEW m \in AttemptIds, HasHistory(u, m)
        PROVE  home'[u][m] # "none"
    BY <2>1, <2>3 DEF HasHistory
  <2> QED
    BY <2>1, <2>2, <2>3, HomeStep
<1>2. CASE Prune
  BY <1>2, PruneKeeps
<1>3. CASE \E t \in Tickets : RunnerOpens(t)
  BY <1>3, OpeningKeeps
<1>4. CASE /\ Next /\ \A t \in Tickets : FindsHistory(t)
           /\ home' = [t \in Tickets |-> [n \in AttemptIds |->
                         IF Settle(t) /\ n = LastAttempt(record[t])
                              /\ HasHistory(t, n)
                         THEN "ended" ELSE home[t][n]]]
  BY <1>4, ControllerKeeps
<1> QED
  BY <1>1, <1>2, <1>3, <1>4 DEF HistoryNext

LEMMA HistoryInitInv == HistoryInit => HistoryInv
<1> SUFFICES ASSUME HistoryInit PROVE HistoryInv
  OBVIOUS
<1>1. IInv
  BY InitInv DEF HistoryInit
<1>2. home \in [Tickets -> [AttemptIds -> {"none", "open", "ended"}]]
  BY DEF HistoryInit
<1>3. ASSUME NEW t \in Tickets
      PROVE  AwaitsFound(record[t], operations[t], home[t])
  BY DEF HistoryInit, Init, AwaitsFound, NoRecord, NoPending, NoOperation
<1> QED
  BY <1>1, <1>2, <1>3 DEF HistoryInv

\* The history of the session an answer continues is there as long as the
\* answer waits or its operation needs it, whatever is pruned and wherever the
\* controller dies meanwhile, for any number of tickets and attempts.
THEOREM HistoryAwaitedTheorem == HistorySpec => []HistoryAwaited
<1>1. HistoryInv => HistoryAwaited
  BY DEF HistoryInv, AwaitsFound, Found, HistoryAwaited, HasHistory
<1> QED
  BY <1>1, HistoryInitInv, HistoryKeeps, PTL DEF HistorySpec

-----------------------------------------------------------------------------
(***************************************************************************)
(* Part 7.  The window of the panel.  A page, and what the panel has       *)
(* loaded, are the visible ones of the numbers up to a cursor.             *)
(***************************************************************************)
\* w goes on with e if T has it.
Taking(w, T, e) == IF e \in T THEN Append(w, e) ELSE w

\* f[k] are those of the first k members of s that are in T.
IsPicked(f, s, T, n) ==
  f = [k \in 0 .. n |-> IF k = 0 THEN << >> ELSE Taking(f[k - 1], T, s[k])]
Picked(s, T, n) == (CHOOSE f : IsPicked(f, s, T, n))[n]

LEMMA AmongIs ==
  ASSUME NEW s, NEW T
  PROVE  Watching!Among(s, T) = Picked(s, T, Len(s))
BY DEF Watching!Among, Picked, IsPicked, Taking

LEMMA PickFirst ==
  ASSUME NEW s, NEW T, NEW n \in Nat, NEW f, IsPicked(f, s, T, n)
  PROVE  f[0] = << >>
BY DEF IsPicked

LEMMA PickNext ==
  ASSUME NEW s, NEW T, NEW n \in Nat, NEW f, IsPicked(f, s, T, n),
         NEW k \in Nat, k < n
  PROVE  f[k + 1] = Taking(f[k], T, s[k + 1])
<1>1. k + 1 \in 0 .. n /\ k + 1 # 0 /\ (k + 1) - 1 = k
  OBVIOUS
<1>2. f[k + 1] = Taking(f[(k + 1) - 1], T, s[k + 1])
  BY <1>1 DEF IsPicked
<1> QED
  BY <1>1, <1>2

LEMMA PickExists ==
  ASSUME NEW s, NEW T, NEW n \in Nat
  PROVE  \E f : IsPicked(f, s, T, n)
<1> DEFINE S == {d \in Nat : \E f : IsPicked(f, s, T, d)}
<1>1. 0 \in S
  <2> DEFINE f == [k \in 0 .. 0 |-> << >>]
  <2>1. IsPicked(f, s, T, 0)
    BY DEF IsPicked
  <2> QED
    BY <2>1
<1>2. ASSUME NEW d \in S
      PROVE  d + 1 \in S
  <2>1. PICK f : IsPicked(f, s, T, d)
    OBVIOUS
  <2> DEFINE D == 0 .. d + 1
             g == [k \in D |-> IF k <= d THEN f[k] ELSE Taking(f[d], T, s[k])]
  <2>2. ASSUME NEW k \in D
        PROVE  g[k] = IF k = 0 THEN << >> ELSE Taking(g[k - 1], T, s[k])
    <3>1. CASE k = 0
      <4>1. f[0] = << >>
        <5>1. d \in Nat
          OBVIOUS
        <5> HIDE DEF S, g
        <5> QED
          BY <2>1, <5>1, PickFirst
      <4> QED
        BY <3>1, <4>1
    <3>2. CASE k # 0 /\ k <= d
      <4>1. k - 1 \in Nat /\ k - 1 < d /\ k - 1 \in D
        BY <3>2
      <4>2. f[k] = Taking(f[k - 1], T, s[k])
        <5> DEFINE j == k - 1
        <5>1. j \in Nat /\ j < d /\ j + 1 = k /\ d \in Nat
          BY <4>1
        <5> HIDE DEF j, S, g
        <5>2. f[j + 1] = Taking(f[j], T, s[j + 1])
          BY <2>1, <5>1, PickNext
        <5> QED
          BY <5>1, <5>2 DEF j
      <4> QED
        BY <3>2, <4>1, <4>2
    <3>3. CASE k = d + 1
      <4>1. k - 1 = d /\ k - 1 \in D /\ k # 0 /\ ~(k <= d)
        BY <3>3
      <4>2. g[k - 1] = f[d]
        BY <4>1
      <4>3. g[k] = Taking(f[d], T, s[k])
        BY <4>1
      <4> QED
        BY <4>1, <4>2, <4>3
    <3> QED
      BY <3>1, <3>2, <3>3
  <2>3. g = [k \in D |-> g[k]]
    OBVIOUS
  <2> HIDE DEF g
  <2>4. g = [k \in D |-> IF k = 0 THEN << >> ELSE Taking(g[k - 1], T, s[k])]
    BY <2>2, <2>3
  <2>5. IsPicked(g, s, T, d + 1)
    BY <2>4 DEF IsPicked
  <2> QED
    BY <2>5
<1> HIDE DEF S
<1>3. S \in SUBSET Nat
  BY DEF S
<1>4. S = Nat
  BY <1>1, <1>2, <1>3, NatSet
<1> QED
  BY <1>4 DEF S

LEMMA PicksAgree ==
  ASSUME NEW s, NEW T, NEW n \in Nat, NEW f, NEW g,
         IsPicked(f, s, T, n), IsPicked(g, s, T, n + 1)
  PROVE  f[n] = g[n]
<1> DEFINE S == {d \in Nat : d <= n => f[d] = g[d]}
<1>1. 0 \in S
  <2>1. n + 1 \in Nat
    OBVIOUS
  <2>2. f[0] = << >> /\ g[0] = << >>
    <3> HIDE DEF S
    <3> QED
      BY <2>1, PickFirst
  <2> QED
    BY <2>2
<1>2. ASSUME NEW d \in S
      PROVE  d + 1 \in S
  <2> SUFFICES ASSUME d + 1 <= n
               PROVE  f[d + 1] = g[d + 1]
    OBVIOUS
  <2>1. f[d] = g[d]
    OBVIOUS
  <2>2. d \in Nat /\ d < n /\ d < n + 1 /\ n + 1 \in Nat
    OBVIOUS
  <2> HIDE DEF S
  <2>3. f[d + 1] = Taking(f[d], T, s[d + 1])
    BY <2>2, PickNext
  <2>4. g[d + 1] = Taking(g[d], T, s[d + 1])
    BY <2>2, PickNext
  <2> QED
    BY <2>1, <2>3, <2>4
<1> HIDE DEF S
<1>3. S \in SUBSET Nat
  BY DEF S
<1>4. S = Nat
  BY <1>1, <1>2, <1>3, NatSet
<1> QED
  BY <1>4 DEF S

LEMMA PickedFirst ==
  ASSUME NEW s, NEW T
  PROVE  Picked(s, T, 0) = << >>
<1> DEFINE f == CHOOSE h : IsPicked(h, s, T, 0)
<1>1. IsPicked(f, s, T, 0) /\ Picked(s, T, 0) = f[0]
  BY PickExists DEF Picked
<1> HIDE DEF f
<1> QED
  BY <1>1, PickFirst

LEMMA PickedNext ==
  ASSUME NEW s, NEW T, NEW n \in Nat
  PROVE  Picked(s, T, n + 1) = Taking(Picked(s, T, n), T, s[n + 1])
<1> DEFINE f == CHOOSE h : IsPicked(h, s, T, n)
           g == CHOOSE h : IsPicked(h, s, T, n + 1)
<1>1. IsPicked(f, s, T, n) /\ Picked(s, T, n) = f[n]
  BY PickExists DEF Picked
<1>2. IsPicked(g, s, T, n + 1) /\ Picked(s, T, n + 1) = g[n + 1]
  <2>1. n + 1 \in Nat
    OBVIOUS
  <2> QED
    BY <2>1, PickExists DEF Picked
<1> HIDE DEF f, g
<1>3. f[n] = g[n]
  BY <1>1, <1>2, PicksAgree
<1>4. g[n + 1] = Taking(g[n], T, s[n + 1])
  <2>1. n + 1 \in Nat /\ n < n + 1
    OBVIOUS
  <2> QED
    BY <1>2, <2>1, PickNext
<1> QED
  BY <1>1, <1>2, <1>3, <1>4

\* Only the first n members matter, and which of them are in T.
LEMMA PickedSame ==
  ASSUME NEW s, NEW r, NEW T, NEW R, NEW n \in Nat,
         \A k \in 1 .. n : s[k] = r[k] /\ (s[k] \in T <=> r[k] \in R)
  PROVE  Picked(s, T, n) = Picked(r, R, n)
<1> DEFINE S == {d \in Nat : d <= n => Picked(s, T, d) = Picked(r, R, d)}
<1>1. 0 \in S
  BY PickedFirst
<1>2. ASSUME NEW d \in S
      PROVE  d + 1 \in S
  <2> SUFFICES ASSUME d + 1 <= n
               PROVE  Picked(s, T, d + 1) = Picked(r, R, d + 1)
    OBVIOUS
  <2>1. Picked(s, T, d) = Picked(r, R, d)
    OBVIOUS
  <2>2. s[d + 1] = r[d + 1] /\ (s[d + 1] \in T <=> r[d + 1] \in R)
    OBVIOUS
  <2> HIDE DEF S
  <2>3. /\ Picked(s, T, d + 1) = Taking(Picked(s, T, d), T, s[d + 1])
        /\ Picked(r, R, d + 1) = Taking(Picked(r, R, d), R, r[d + 1])
    <3>1. d \in Nat
      BY DEF S
    <3> QED
      BY <3>1, PickedNext
  <2> QED
    BY <2>1, <2>2, <2>3 DEF Taking
<1> HIDE DEF S
<1>3. S \in SUBSET Nat
  BY DEF S
<1>4. S = Nat
  BY <1>1, <1>2, <1>3, NatSet
<1> QED
  BY <1>4 DEF S

\* A sequence all of whose members are in T is picked as a whole.
LEMMA PickedAll ==
  ASSUME NEW s \in Seq(Nat), NEW T, \A k \in 1 .. Len(s) : s[k] \in T
  PROVE  Picked(s, T, Len(s)) = s
<1> DEFINE S == {d \in Nat : d <= Len(s) => Picked(s, T, d) = SubSeq(s, 1, d)}
<1>1. 0 \in S
  <2>1. SubSeq(s, 1, 0) = << >>
    OBVIOUS
  <2> QED
    BY <2>1, PickedFirst
<1>2. ASSUME NEW d \in S
      PROVE  d + 1 \in S
  <2> SUFFICES ASSUME d + 1 <= Len(s)
               PROVE  Picked(s, T, d + 1) = SubSeq(s, 1, d + 1)
    OBVIOUS
  <2>1. Picked(s, T, d) = SubSeq(s, 1, d) /\ d \in Nat
    OBVIOUS
  <2> HIDE DEF S
  <2>2. Picked(s, T, d + 1) = Taking(Picked(s, T, d), T, s[d + 1])
    BY <2>1, PickedNext
  <2>3. Append(SubSeq(s, 1, d), s[d + 1]) = SubSeq(s, 1, d + 1)
    BY <2>1
  <2>4. s[d + 1] \in T
    BY <2>1
  <2> QED
    BY <2>1, <2>2, <2>3, <2>4 DEF Taking
<1>3. SubSeq(s, 1, Len(s)) = s /\ Len(s) \in Nat
  OBVIOUS
<1> HIDE DEF S
<1>4. S \in SUBSET Nat
  BY DEF S
<1>5. S = Nat
  BY <1>1, <1>2, <1>4, NatSet
<1>6. Len(s) \in S
  BY <1>3, <1>5
<1> QED
  BY <1>3, <1>6 DEF S

\* The numbers up to n that are in T, in order.
Number == [k \in Nat |-> k]
Upto(T, n) == Picked(Number, T, n)
After(T, a) == {k \in T : k > a}

LEMMA UptoNext ==
  ASSUME NEW T, NEW n \in Nat
  PROVE  Upto(T, n + 1) = Taking(Upto(T, n), T, n + 1)
<1>1. Number[n + 1] = n + 1
  BY DEF Number
<1> HIDE DEF Number
<1> QED
  BY <1>1, PickedNext DEF Upto

LEMMA UptoFirst ==
  ASSUME NEW T
  PROVE  Upto(T, 0) = << >>
BY PickedFirst DEF Upto

LEMMA UptoSame ==
  ASSUME NEW T, NEW R, NEW n \in Nat,
         \A k \in 1 .. n : k \in T <=> k \in R
  PROVE  Upto(T, n) = Upto(R, n)
<1>1. \A k \in 1 .. n : Number[k] \in T <=> Number[k] \in R
  BY DEF Number
<1> HIDE DEF Number
<1>2. Picked(Number, T, n) = Picked(Number, R, n)
  BY <1>1, PickedSame
<1> QED
  BY <1>2 DEF Upto

\* What is a sequence of members of T up to n.
IsUpto(w, T, n) ==
  /\ w \in Seq(Nat)
  /\ \A k \in 1 .. Len(w) : w[k] \in T /\ w[k] \in 1 .. n

LEMMA UptoFacts ==
  ASSUME NEW T, NEW n \in Nat
  PROVE  IsUpto(Upto(T, n), T, n)
<1> DEFINE S == {d \in Nat : IsUpto(Upto(T, d), T, d)}
<1>1. 0 \in S
  <2>1. IsUpto(<< >>, T, 0)
    BY DEF IsUpto
  <2> QED
    BY <2>1, UptoFirst
<1>2. ASSUME NEW d \in S
      PROVE  d + 1 \in S
  <2> DEFINE w == Upto(T, d)
             v == Upto(T, d + 1)
  <2>1. d \in Nat /\ IsUpto(w, T, d)
    OBVIOUS
  <2>2. v = Taking(w, T, d + 1)
    BY <2>1, UptoNext
  <2> HIDE DEF w, v
  <2>3. CASE d + 1 \in T
    <3>1. v = Append(w, d + 1)
      BY <2>2, <2>3 DEF Taking
    <3>2. /\ v \in Seq(Nat) /\ Len(v) = Len(w) + 1 /\ Len(w) \in Nat
          /\ v[Len(w) + 1] = d + 1
          /\ \A k \in 1 .. Len(w) : v[k] = w[k]
      BY <2>1, <3>1 DEF IsUpto
    <3>3. ASSUME NEW k \in 1 .. Len(v)
          PROVE  v[k] \in T /\ v[k] \in 1 .. d + 1
      <4>1. CASE k = Len(w) + 1
        BY <2>1, <2>3, <3>2, <4>1
      <4>2. CASE k # Len(w) + 1
        <5>1. k \in 1 .. Len(w)
          BY <3>2, <4>2
        <5>2. w[k] \in T /\ w[k] \in 1 .. d
          BY <2>1, <5>1 DEF IsUpto
        <5>3. v[k] = w[k]
          BY <3>2, <5>1
        <5> QED
          BY <2>1, <5>2, <5>3
      <4> QED
        BY <4>1, <4>2
    <3> QED
      BY <3>2, <3>3, <2>1 DEF IsUpto, v
  <2>4. CASE d + 1 \notin T
    <3>1. v = w
      BY <2>2, <2>4 DEF Taking
    <3>2. IsUpto(v, T, d + 1)
      BY <2>1, <3>1 DEF IsUpto
    <3> QED
      BY <2>1, <3>2 DEF v
  <2> QED
    BY <2>3, <2>4
<1> HIDE DEF S
<1>3. S \in SUBSET Nat
  BY DEF S
<1>4. S = Nat
  BY <1>1, <1>2, <1>3, NatSet
<1> QED
  BY <1>4 DEF S

\* Nothing up to a comes after it.
LEMMA UptoNone ==
  ASSUME NEW T \in SUBSET Nat, NEW a \in Nat
  PROVE  Upto(After(T, a), a) = << >>
<1> DEFINE w == Upto(After(T, a), a)
<1>1. IsUpto(w, After(T, a), a)
  BY UptoFacts
<1> HIDE DEF w
<1>2. w \in Seq(Nat) /\ Len(w) \in Nat
      /\ \A k \in 1 .. Len(w) : w[k] > a /\ w[k] \in 1 .. a
  BY <1>1 DEF IsUpto, After
<1>3. ~(1 \in 1 .. Len(w))
  BY <1>2
<1>4. Len(w) = 0
  BY <1>2, <1>3
<1>5. w = << >>
  BY <1>2, <1>4
<1> QED
  BY <1>5 DEF w

LEMMA AppendConcat ==
  ASSUME NEW w \in Seq(Nat), NEW x \in Seq(Nat), NEW e \in Nat
  PROVE  Append(w \o x, e) = w \o Append(x, e)
<1> DEFINE L == Append(w \o x, e)
           R == w \o Append(x, e)
<1>1. L \in Seq(Nat) /\ R \in Seq(Nat)
  OBVIOUS
<1>2. Len(L) = Len(w) + Len(x) + 1 /\ Len(R) = Len(L)
      /\ Len(w) \in Nat /\ Len(x) \in Nat
  OBVIOUS
<1>3. ASSUME NEW i \in 1 .. Len(L)
      PROVE  L[i] = R[i]
  BY <1>2
<1> HIDE DEF L, R
<1>4. L = R
  BY <1>1, <1>2, <1>3
<1> QED
  BY <1>4 DEF L, R

\* Those up to n are those up to a, and the ones after it.
LEMMA UptoSplits ==
  ASSUME NEW T \in SUBSET Nat, NEW a \in Nat, NEW n \in Nat, a <= n
  PROVE  Upto(T, n) = Upto(T, a) \o Upto(After(T, a), n)
<1> DEFINE A == After(T, a)
           W(d) == Upto(T, d)
           X(d) == Upto(A, d)
           S == {d \in Nat : W(a + d) = W(a) \o X(a + d)}
<1>0. \A d \in Nat : W(d) \in Seq(Nat) /\ X(d) \in Seq(Nat)
  BY UptoFacts DEF IsUpto
<1>1. 0 \in S
  <2>1. X(a) = << >>
    BY UptoNone
  <2>2. W(a) \in Seq(Nat) /\ a + 0 = a
    BY <1>0
  <2> HIDE DEF W, X
  <2>3. W(a) = W(a) \o << >>
    BY <2>2
  <2> QED
    BY <2>1, <2>2, <2>3
<1>2. ASSUME NEW d \in S
      PROVE  d + 1 \in S
  <2> DEFINE m == a + d
  <2>1. W(m) = W(a) \o X(m) /\ d \in Nat /\ m \in Nat
        /\ a + (d + 1) = m + 1 /\ m + 1 > a
    OBVIOUS
  <2>2. /\ W(m + 1) = Taking(W(m), T, m + 1)
        /\ X(m + 1) = Taking(X(m), A, m + 1)
    BY <2>1, UptoNext
  <2>3. m + 1 \in T <=> m + 1 \in A
    BY <2>1 DEF After
  <2>4. W(a) \in Seq(Nat) /\ X(m) \in Seq(Nat)
    BY <1>0, <2>1
  <2> HIDE DEF W, X, A, m
  <2>5. Append(W(a) \o X(m), m + 1) = W(a) \o Append(X(m), m + 1)
    <3>1. m + 1 \in Nat
      BY <2>1
    <3> QED
      BY <2>4, <3>1, AppendConcat
  <2>6. W(m + 1) = W(a) \o X(m + 1)
    BY <2>1, <2>2, <2>3, <2>5 DEF Taking
  <2>7. W(a + (d + 1)) = W(a) \o X(a + (d + 1)) /\ d + 1 \in Nat
    <3>1. a + (d + 1) = m + 1 /\ d + 1 \in Nat
      BY <2>1
    <3> QED
      BY <2>6, <3>1, Zenon
  <2> QED
    BY <2>7
<1> HIDE DEF S, W, X
<1>3. S \in SUBSET Nat
  BY DEF S
<1>4. S = Nat
  BY <1>1, <1>2, <1>3, NatSet
<1>5. n - a \in S /\ a + (n - a) = n
  BY <1>4
<1>6. W(n) = W(a) \o X(n)
  BY <1>5 DEF S
<1> QED
  BY <1>6 DEF W, X, A

\* The first m of those up to n are those up to the last of them.
LEMMA UptoPrefix ==
  ASSUME NEW T, NEW n \in Nat, NEW m \in 1 .. Len(Upto(T, n))
  PROVE  SubSeq(Upto(T, n), 1, m) = Upto(T, Upto(T, n)[m])
<1> DEFINE W(d) == Upto(T, d)
           S == {d \in Nat : \A i \in 1 .. Len(W(d)) :
                               SubSeq(W(d), 1, i) = W(W(d)[i])}
<1>0. \A d \in Nat : W(d) \in Seq(Nat)
  BY UptoFacts DEF IsUpto
<1>1. 0 \in S
  BY UptoFirst
<1>2. ASSUME NEW d \in S
      PROVE  d + 1 \in S
  <2> DEFINE w == W(d)
             v == W(d + 1)
  <2>1. d \in Nat /\ w \in Seq(Nat)
        /\ \A i \in 1 .. Len(w) : SubSeq(w, 1, i) = W(w[i])
    BY <1>0
  <2>2. v = Taking(w, T, d + 1)
    BY <2>1, UptoNext
  <2> HIDE DEF w
  <2>3. ASSUME NEW i \in 1 .. Len(v)
        PROVE  SubSeq(v, 1, i) = W(v[i])
    <3>1. CASE v = w
      BY <2>1, <2>3, <3>1
    <3>2. CASE v = Append(w, d + 1)
      <4>0. Len(w) \in Nat
        BY <2>1
      <4>1. CASE i = Len(w) + 1
        <5>1. SubSeq(Append(w, d + 1), 1, Len(w) + 1) = Append(w, d + 1)
          BY <2>1
        <5>2. Append(w, d + 1)[Len(w) + 1] = d + 1
          BY <2>1
        <5> QED
          BY <3>2, <4>1, <5>1, <5>2
      <4>2. CASE i # Len(w) + 1
        <5>1. i \in 1 .. Len(w)
          <6>1. Len(v) = Len(w) + 1
            BY <2>1, <3>2
          <6> HIDE DEF v
          <6> QED
            BY <4>0, <4>2, <6>1
        <5>2. /\ SubSeq(Append(w, d + 1), 1, i) = SubSeq(w, 1, i)
              /\ Append(w, d + 1)[i] = w[i]
          BY <2>1, <5>1
        <5> QED
          BY <2>1, <3>2, <5>1, <5>2
      <4> QED
        BY <4>1, <4>2
    <3> QED
      BY <2>2, <3>1, <3>2 DEF Taking
  <2> QED
    BY <2>1, <2>3
<1> HIDE DEF S
<1>3. S \in SUBSET Nat
  BY DEF S
<1>4. S = Nat
  BY <1>1, <1>2, <1>3, NatSet
<1> QED
  BY <1>4 DEF S

Visible == Watching!Visible

LEMMA BetweenIs ==
  ASSUME NEW a, NEW n \in Nat
  PROVE  Watching!Between(a, n) = Upto(After(Visible, a), n)
<1> DEFINE s == [k \in 1 .. n |-> k]
           T == After(Visible, a)
<1>1. Watching!Between(a, n) = Watching!Among(s, T)
  BY DEF Watching!Between, After, Visible
<1>2. Len(s) = n /\ \A k \in 1 .. n : s[k] = Number[k]
  BY DEF Number
<1> HIDE DEF s, T, Number
<1>3. Watching!Among(s, T) = Picked(s, T, n)
  BY <1>2, AmongIs
<1>4. Picked(s, T, n) = Picked(Number, T, n)
  BY <1>2, PickedSame
<1> QED
  BY <1>1, <1>3, <1>4 DEF Upto, T

LEMMA VisibleAre ==
  ASSUME log \in Seq(Notes)
  PROVE  Visible \in SUBSET Nat /\ Visible \subseteq DOMAIN log
         /\ Len(log) \in Nat /\ DOMAIN log = 1 .. Len(log)
BY DEF Visible, Watching!Visible

\* A page of the journal that is asked after a.
IsPage(page, a, last) ==
  /\ page.cursor \in a .. last
  /\ page.entries = Upto(After(Visible, a), page.cursor)

Pages == [entries : Seq(Nat), cursor : Nat, more : BOOLEAN]

LEMMA PageIs ==
  ASSUME log \in Seq(Notes), NEW a \in 0 .. Len(log)
  PROVE  /\ Watching!Page(a) \in Pages
         /\ IsPage(Watching!Page(a), a, Len(log))
<1> DEFINE T == After(Visible, a)
           next == Upto(T, Len(log))
           rows == Watching!RowsScanned(a)
           last == IF Len(rows) > Limit THEN Limit ELSE Len(rows)
           page == SubSeq(rows, 1, last)
           P == Watching!Page(a)
<1>1. P = [entries |-> page,
           cursor |-> IF page = << >> THEN a ELSE page[Len(page)],
           more |-> Len(rows) > Limit]
  BY DEF Watching!Page
<1>2. a \in Nat /\ Len(log) \in Nat /\ a <= Len(log)
  BY VisibleAre
<1>3. IsUpto(next, T, Len(log))
  BY <1>2, UptoFacts
<1>4. rows = SubSeq(next, 1, IF Len(next) < Limit + 1 THEN Len(next)
                                                      ELSE Limit + 1)
  <2>1. Watching!Between(a, Len(log)) = next
    BY <1>2, BetweenIs
  <2> HIDE DEF next
  <2> QED
    BY <2>1 DEF Watching!RowsScanned, Watching!Rows
<1>5. Limit \in Nat
  BY PanelAssumption
<1>6. \A i \in Nat : i \in 1 .. Len(next) => SubSeq(next, 1, i) = Upto(T, next[i])
  BY <1>2, UptoPrefix
<1>7. Upto(T, a) = << >>
  BY <1>2, UptoNone, VisibleAre
<1> HIDE DEF next, P
<1>8. next \in Seq(Nat) /\ Len(next) \in Nat
      /\ \A k \in 1 .. Len(next) : next[k] > a /\ next[k] \in 1 .. Len(log)
  BY <1>3 DEF IsUpto, After
<1> HIDE DEF T
<1>9. last \in 0 .. Len(next) /\ page = SubSeq(next, 1, last)
      /\ page \in Seq(Nat) /\ Len(page) = last
      /\ (last # 0 => page[last] = next[last])
  <2> DEFINE most == IF Len(next) < Limit + 1 THEN Len(next) ELSE Limit + 1
  <2>1. most \in 0 .. Len(next) /\ (most <= Limit => most = Len(next))
    BY <1>5, <1>8
  <2>2. rows = SubSeq(next, 1, most)
    BY <1>4
  <2> HIDE DEF most, rows
  <2>3. Len(rows) = most /\ rows \in Seq(Nat)
        /\ \A k \in 1 .. most : rows[k] = next[k]
    BY <1>8, <2>1, <2>2
  <2>4. last \in 0 .. most
    BY <1>5, <2>1, <2>3
  <2> HIDE DEF last
  <2>5. page = SubSeq(next, 1, last)
    BY <1>8, <2>1, <2>2, <2>4
  <2>6. Len(SubSeq(next, 1, last)) = last /\ SubSeq(next, 1, last) \in Seq(Nat)
        /\ (last # 0 => SubSeq(next, 1, last)[last] = next[last])
    BY <1>8, <2>1, <2>4
  <2> HIDE DEF page
  <2> QED
    BY <2>1, <2>4, <2>5, <2>6
<1> HIDE DEF last, page
<1>10. P.entries = page /\ P.cursor = (IF page = << >> THEN a ELSE page[Len(page)])
       /\ P.more \in BOOLEAN
       /\ P = [entries |-> P.entries, cursor |-> P.cursor, more |-> P.more]
  <2> DEFINE c == IF page = << >> THEN a ELSE page[Len(page)]
             m == Len(rows) > Limit
  <2>1. P = [entries |-> page, cursor |-> c, more |-> m] /\ m \in BOOLEAN
    BY <1>1
  <2> HIDE DEF c, m
  <2>2. P.entries = page /\ P.cursor = c /\ P.more \in BOOLEAN
        /\ P = [entries |-> P.entries, cursor |-> P.cursor, more |-> P.more]
    BY <2>1
  <2> QED
    BY <2>2 DEF c
<1> HIDE DEF rows
<1>11. P.cursor \in a .. Len(log) /\ P.entries = Upto(T, P.cursor)
  <2>1. CASE last = 0
    <3>1. page = << >>
      BY <1>9, <2>1
    <3>2. P.entries = Upto(T, a) /\ P.cursor = a
      BY <1>7, <1>10, <3>1
    <3> QED
      BY <1>2, <3>2
  <2>2. CASE last # 0
    <3>1. last \in 1 .. Len(next) /\ last \in Nat
      BY <1>8, <1>9, <2>2
    <3>2. page # << >>
      BY <1>9, <2>2
    <3>3. P.cursor = next[last]
      BY <1>9, <1>10, <2>2, <3>2
    <3>4. P.entries = Upto(T, next[last])
      BY <1>6, <1>9, <1>10, <3>1
    <3>5. next[last] \in a .. Len(log)
      BY <1>2, <1>8, <3>1
    <3> QED
      BY <3>3, <3>4, <3>5
  <2> QED
    BY <2>1, <2>2
<1>12. P.cursor \in Nat /\ P.entries \in Seq(Nat)
  BY <1>2, <1>9, <1>10, <1>11
<1>13. P \in Pages
  BY <1>10, <1>12 DEF Pages
<1> QED
  BY <1>11, <1>13 DEF IsPage, T, P

\* x is the end of l, as long as the window or all there is.
IsTail(x, l) ==
  /\ Len(x) <= Len(l)
  /\ x = SubSeq(l, Len(l) - Len(x) + 1, Len(l))
  /\ Len(x) = Window \/ x = l

\* The newest of what the panel has.
Newest(all) == SubSeq(all, IF Len(all) > Window THEN Len(all) - Window + 1 ELSE 1,
                      Len(all))

LEMMA TailGrows ==
  ASSUME NEW x \in Seq(Nat), NEW l \in Seq(Nat), NEW e \in Seq(Nat), IsTail(x, l)
  PROVE  Newest(x \o e) \in Seq(Nat) /\ IsTail(Newest(x \o e), l \o e)
<1> DEFINE a == x \o e
           b == l \o e
           d == Len(l) - Len(x)
<1>1. /\ a \in Seq(Nat) /\ b \in Seq(Nat)
      /\ Len(a) = Len(x) + Len(e) /\ Len(b) = Len(l) + Len(e)
      /\ Len(x) \in Nat /\ Len(l) \in Nat /\ Len(e) \in Nat
  OBVIOUS
<1>2. Len(x) <= Len(l) /\ d \in Nat /\ (Len(x) = Window \/ x = l)
      /\ Window \in Nat
  BY <1>1, PanelAssumption DEF IsTail
<1>3. \A i \in 1 .. Len(x) : x[i] = l[d + i]
  <2>1. x = SubSeq(l, d + 1, Len(l))
    BY <1>1 DEF IsTail
  <2>2. \A i \in 1 .. Len(x) : SubSeq(l, d + 1, Len(l))[i] = l[d + 1 + i - 1]
    BY <1>1, <1>2
  <2>3. ASSUME NEW i \in 1 .. Len(x) PROVE x[i] = l[d + i]
    <3>1. d + 1 + i - 1 = d + i
      BY <1>2
    <3>2. SubSeq(l, d + 1, Len(l))[i] = l[d + i]
      BY <2>2, <3>1
    <3> QED
      BY <2>1, <3>2
  <2> QED
    BY <2>3
<1>4. \A i \in 1 .. Len(a) : a[i] = b[d + i]
  <2> SUFFICES ASSUME NEW i \in 1 .. Len(a)
               PROVE  a[i] = b[d + i]
    OBVIOUS
  <2>1. CASE i \in 1 .. Len(x)
    <3>1. d + i \in 1 .. Len(l) /\ a[i] = x[i]
      BY <1>1, <1>2, <2>1
    <3>2. b[d + i] = l[d + i]
      BY <1>1, <3>1
    <3> QED
      BY <1>3, <2>1, <3>1, <3>2
  <2>2. CASE i \notin 1 .. Len(x)
    <3>1. i - Len(x) \in 1 .. Len(e) /\ d + i - Len(l) = i - Len(x)
          /\ d + i \in Len(l) + 1 .. Len(l) + Len(e)
      BY <1>1, <1>2, <2>2
    <3>2. a[i] = e[i - Len(x)]
      BY <1>1, <2>2, <3>1
    <3>3. b[d + i] = e[d + i - Len(l)]
      BY <1>1, <3>1
    <3> QED
      BY <3>1, <3>2, <3>3
  <2> QED
    BY <2>1, <2>2
<1>5. CASE Len(a) <= Window
  <2>1. Newest(a) = SubSeq(a, 1, Len(a))
    <3> HIDE DEF a, b, d
    <3>1. ~(Len(a) > Window)
      BY <1>1, <1>2, <1>5
    <3> QED
      BY <3>1 DEF Newest
  <2>2. SubSeq(a, 1, Len(a)) = a
    BY <1>1
  <2>3. Newest(a) = a
    BY <2>1, <2>2
  <2>4. Len(b) - Len(a) + 1 = d + 1 /\ Len(a) <= Len(b)
    BY <1>1, <1>2
  <2>5. a = SubSeq(b, d + 1, Len(b))
    <3> DEFINE c == SubSeq(b, d + 1, Len(b))
    <3>1. c \in Seq(Nat) /\ Len(c) = Len(a)
      BY <1>1, <1>2
    <3>2. \A i \in 1 .. Len(a) : c[i] = a[i]
      <4> HIDE DEF a, b, d
      <4>1. Len(b) - d = Len(a)
        BY <1>1, <1>2 DEF d
      <4> SUFFICES ASSUME NEW i \in 1 .. Len(a) PROVE c[i] = a[i]
        OBVIOUS
      <4>2. c[i] = b[d + 1 + i - 1]
        <5>1. /\ d + 1 \in Nat /\ Len(b) \in Nat
              /\ i \in 1 .. Len(b) - (d + 1) + 1
          BY <1>1, <1>2, <4>1
        <5> QED
          BY <5>1
      <4>3. d + 1 + i - 1 = d + i
        BY <1>2
      <4> QED
        BY <1>4, <4>2, <4>3
    <3> HIDE DEF a, c
    <3>3. a = c
      BY <1>1, <3>1, <3>2
    <3> QED
      BY <3>3 DEF c
  <2>6. Len(a) = Window \/ a = b
    <3>1. CASE x = l
      BY <3>1
    <3>2. CASE Len(x) = Window
      BY <1>1, <1>2, <1>5, <3>2
    <3> QED
      BY <1>2, <3>1, <3>2
  <2> HIDE DEF a, b, d
  <2>7. IsTail(a, b)
    BY <2>4, <2>5, <2>6 DEF IsTail
  <2> QED
    BY <1>1, <2>3, <2>7 DEF a, b
<1>6. CASE Len(a) > Window
  <2> DEFINE k == Len(a) - Window
             v == SubSeq(a, k + 1, Len(a))
             c == SubSeq(b, d + k + 1, Len(b))
  <2>1. Newest(a) = v
    BY <1>6 DEF Newest
  <2> HIDE DEF a, b
  <2>2. k \in Nat /\ d \in Nat /\ d + Len(a) = Len(b) /\ k <= Len(a)
        /\ d + k = Len(b) - Window /\ Len(a) - k = Window
        /\ Len(b) - (d + k) = Window
    BY <1>1, <1>2, <1>6
  <2> HIDE DEF k, d
  <2>3. v \in Seq(Nat) /\ Len(v) = Window /\ c \in Seq(Nat) /\ Len(c) = Window
    <3>1. v \in Seq(Nat) /\ Len(v) = Len(a) - k
      <4>1. k \in Nat /\ k <= Len(a) /\ Len(a) \in Nat
        BY <1>1, <2>2
      <4> QED
        BY <1>1, <4>1
    <3>2. c \in Seq(Nat) /\ Len(c) = Len(b) - (d + k)
      <4>1. d + k \in Nat /\ d + k <= Len(b)
        BY <1>1, <1>2, <2>2
      <4> QED
        BY <1>1, <4>1
    <3> QED
      BY <2>2, <3>1, <3>2
  <2>4. \A i \in 1 .. Window : v[i] = c[i]
    <3> SUFFICES ASSUME NEW i \in 1 .. Window PROVE v[i] = c[i]
      OBVIOUS
    <3>1. v[i] = a[k + 1 + i - 1] /\ k + 1 + i - 1 = k + i
      BY <1>1, <1>2, <2>2
    <3>2. c[i] = b[d + k + 1 + i - 1] /\ d + k + 1 + i - 1 = d + (k + i)
      BY <1>1, <1>2, <2>2
    <3>3. k + i \in 1 .. Len(a)
      BY <1>1, <1>2, <2>2
    <3> QED
      BY <1>4, <3>1, <3>2, <3>3
  <2> HIDE DEF v, c
  <2>5. v = c
    BY <2>3, <2>4
  <2>6. Len(v) <= Len(b) /\ Len(b) - Len(v) + 1 = d + k + 1
    BY <1>1, <1>2, <2>2, <2>3
  <2>7. IsTail(v, b)
    BY <2>3, <2>5, <2>6 DEF IsTail, c
  <2> QED
    BY <2>1, <2>3, <2>7 DEF a, b
<1> QED
  BY <1>1, <1>2, <1>5, <1>6

Requested == {"unmounted", "none", "asked", "answered"}
Panels == [cursor : Nat, entries : Seq(Nat), more : BOOLEAN,
           request : Requested, page : Pages]

\* The panel has the end of what is visible up to its cursor; a page that has
\* arrived goes on from there, since only a panel at rest starts again.
PanelInv ==
  /\ panel \in Panels /\ panel.cursor <= Len(log)
  /\ IsTail(panel.entries, Upto(Visible, panel.cursor))
  /\ panel.request = "answered" => IsPage(panel.page, panel.cursor, Len(log))

LEMMA PanelInitInv == Watching!TrajectoryInit => PanelInv
<1> SUFFICES ASSUME Watching!TrajectoryInit PROVE PanelInv
  OBVIOUS
<1>1. /\ log = << >>
      /\ panel = [cursor |-> 0, entries |-> << >>, more |-> FALSE,
                  request |-> "unmounted",
                  page |-> [entries |-> << >>, cursor |-> 0, more |-> FALSE]]
  BY DEF Watching!TrajectoryInit, Watching!NoPage
<1>2. [entries |-> << >>, cursor |-> 0, more |-> FALSE] \in Pages
  BY DEF Pages
<1>3. panel \in Panels
  BY <1>1, <1>2 DEF Panels, Requested
<1>4. panel.entries = << >> /\ panel.cursor = 0 /\ panel.request = "unmounted"
      /\ Len(log) = 0
  BY <1>1
<1>5. IsTail(<< >>, << >>)
  BY DEF IsTail
<1>6. IsTail(panel.entries, Upto(Visible, panel.cursor))
  BY <1>4, <1>5, UptoFirst
<1> QED
  BY <1>3, <1>4, <1>6 DEF PanelInv

\* What is visible of the journal so far stays so.
LEMMA StaysVisible ==
  ASSUME log \in Seq(Notes), NEW e, log' = Append(log, e) \/ log' = log,
         log' \in Seq(Notes)
  PROVE  /\ Len(log) <= Len(log')
         /\ \A k \in 1 .. Len(log) : k \in Visible <=> k \in Visible'
<1>1. /\ Len(log) \in Nat /\ Len(log') \in Nat /\ Len(log) <= Len(log')
      /\ \A k \in 1 .. Len(log) : log'[k] = log[k]
  <2>1. CASE log' = log
    BY <2>1
  <2>2. CASE log' = Append(log, e)
    BY <2>2
  <2> QED
    BY <2>1, <2>2
<1>2. DOMAIN log = 1 .. Len(log) /\ DOMAIN log' = 1 .. Len(log')
  OBVIOUS
<1>3. ASSUME NEW k \in 1 .. Len(log)
      PROVE  k \in Visible <=> k \in Visible'
  <2>1. k \in DOMAIN log
    BY <1>2
  <2>2. log'[k] = log[k]
    BY <1>1
  <2>3. k \in 1 .. Len(log')
    BY <1>1
  <2>4. k \in DOMAIN log'
    BY <1>2, <2>3
  <2> QED
    BY <2>1, <2>2, <2>4 DEF Visible, Watching!Visible
<1> QED
  BY <1>1, <1>3

\* The journal grows, and the panel asks or stops asking at most.
LEMMA GrowthKeeps ==
  ASSUME PanelInv, log \in Seq(Notes), log' \in Seq(Notes), NEW e,
         log' = Append(log, e) \/ log' = log, panel' \in Panels,
         panel'.cursor = panel.cursor, panel'.entries = panel.entries,
         panel'.request = "answered" =>
           panel.request = "answered" /\ panel'.page = panel.page
  PROVE  PanelInv'
<1> DEFINE n == Len(log)
           c == panel.cursor
           p == panel.page
<1>1. /\ n \in Nat /\ Len(log') \in Nat /\ n <= Len(log')
      /\ \A k \in 1 .. n : k \in Visible <=> k \in Visible'
  <2>1. Len(log) \in Nat /\ Len(log') \in Nat
    OBVIOUS
  <2>2. Len(log) <= Len(log')
    BY StaysVisible
  <2>3. \A k \in 1 .. Len(log) : k \in Visible <=> k \in Visible'
    BY StaysVisible
  <2> QED
    BY <2>1, <2>2, <2>3
<1>2. c \in Nat /\ c <= n /\ IsTail(panel.entries, Upto(Visible, c))
      /\ panel \in Panels
  BY DEF PanelInv, Panels
<1> HIDE DEF n, c
<1>3. ASSUME NEW T, NEW R, NEW d \in 0 .. n,
             \A k \in 1 .. n : k \in T <=> k \in R
      PROVE  Upto(T, d) = Upto(R, d)
  <2>1. d \in Nat /\ \A k \in 1 .. d : k \in T <=> k \in R
    BY <1>1, <1>3
  <2> QED
    BY <2>1, UptoSame
<1>4. Upto(Visible, c) = Upto(Visible', c)
  BY <1>1, <1>2, <1>3
<1>5. IsTail(panel.entries, Upto(Visible', c))
  BY <1>2, <1>4
<1>6. ASSUME panel.request = "answered"
      PROVE  /\ p.cursor \in c .. Len(log')
             /\ p.entries = Upto(After(Visible', c), p.cursor)
  <2>1. p.cursor \in c .. n /\ p.entries = Upto(After(Visible, c), p.cursor)
    BY <1>6 DEF PanelInv, IsPage, n, c
  <2>2. \A k \in 1 .. n : k \in After(Visible, c) <=> k \in After(Visible', c)
    BY <1>1 DEF After
  <2>3. p.cursor \in 0 .. n
    BY <1>1, <1>2, <2>1
  <2>4. Upto(After(Visible, c), p.cursor) = Upto(After(Visible', c), p.cursor)
    BY <1>3, <2>2, <2>3
  <2>5. p.cursor \in c .. Len(log')
    BY <1>1, <1>2, <2>1
  <2> QED
    BY <2>1, <2>4, <2>5
<1>7. panel'.cursor = c /\ panel'.cursor <= Len(log')
  BY <1>1, <1>2 DEF c
<1>8. IsTail(panel'.entries, Upto(Visible', panel'.cursor))
  BY <1>5, <1>7
<1>9. panel'.request = "answered" =>
        /\ panel'.page.cursor \in panel'.cursor .. Len(log')
        /\ panel'.page.entries
             = Upto(After(Visible', panel'.cursor), panel'.page.cursor)
  BY <1>6, <1>7
<1> QED
  BY <1>7, <1>8, <1>9 DEF PanelInv, IsPage, IsTail, Upto, Picked, IsPicked,
                          Taking, After, Number

\* A page is shown: what it has is all new, and goes on from the window.
LEMMA ShowingKeeps ==
  ASSUME PanelInv, log \in Seq(Notes), Watching!PanelShows
  PROVE  PanelInv'
<1> DEFINE c == panel.cursor
           e == panel.page.entries
           d == panel.page.cursor
           T == {k \in DOMAIN log : k > panel.cursor}
           x == panel.entries
           l == Upto(Visible, c)
<1>1. /\ panel \in Panels /\ c \in Nat /\ d \in Nat /\ e \in Seq(Nat)
      /\ x \in Seq(Nat) /\ panel.page.more \in BOOLEAN
      /\ IsTail(x, l) /\ c <= Len(log)
  BY DEF PanelInv, Panels, Pages
<1>2. d \in c .. Len(log) /\ e = Upto(After(Visible, c), d) /\ c <= d
  <2>1. IsPage(panel.page, panel.cursor, Len(log))
    BY DEF PanelInv, Watching!PanelShows
  <2>2. d \in c .. Len(log) /\ e = Upto(After(Visible, c), d)
    BY <2>1 DEF IsPage
  <2>3. Len(log) \in Nat
    OBVIOUS
  <2> HIDE DEF c, d, e
  <2> QED
    BY <1>1, <2>2, <2>3
<1>3. Visible \in SUBSET Nat /\ Visible \subseteq DOMAIN log
  BY VisibleAre
<1>4. \A k \in 1 .. Len(e) : e[k] \in T
  <2>1. IsUpto(Upto(After(Visible, c), d), After(Visible, c), d)
    BY <1>1, UptoFacts
  <2>2. \A k \in 1 .. Len(e) : e[k] \in After(Visible, c)
    BY <1>2, <2>1 DEF IsUpto
  <2> QED
    BY <1>3, <2>2 DEF After
<1>5. /\ panel' = [cursor |-> d, more |-> panel.page.more,
                   entries |-> Newest(x \o Watching!Among(e, T)),
                   request |-> "none", page |-> Watching!NoPage]
      /\ UNCHANGED log
  BY DEF Watching!PanelShows, Newest
<1>6. PICK L : L = l
  OBVIOUS
<1>7. L \in Seq(Nat)
  <2>1. IsUpto(l, Visible, c)
    BY <1>1, UptoFacts
  <2> QED
    BY <1>6, <2>1 DEF IsUpto
<1> HIDE DEF c, e, d, T, x, l
<1>8. Watching!Among(e, T) = e
  BY <1>1, <1>4, AmongIs, PickedAll
<1>9. Upto(Visible, d) = l \o e
  BY <1>1, <1>2, <1>3, UptoSplits DEF l
<1>10. Newest(x \o e) \in Seq(Nat) /\ IsTail(Newest(x \o e), Upto(Visible, d))
  <2>1. IsTail(x, L)
    BY <1>1, <1>6
  <2>2. Newest(x \o e) \in Seq(Nat) /\ IsTail(Newest(x \o e), L \o e)
    BY <1>1, <1>7, <2>1, TailGrows
  <2> QED
    BY <1>6, <1>9, <2>2
<1>11. Watching!NoPage \in Pages
  BY DEF Watching!NoPage, Pages
<1>12. panel' = [cursor |-> d, more |-> panel.page.more,
                 entries |-> Newest(x \o e),
                 request |-> "none", page |-> Watching!NoPage]
  BY <1>5, <1>8
<1>13. panel' \in Panels
  <2> DEFINE f == Newest(x \o e)
             m == panel.page.more
             N == Watching!NoPage
  <2>1. f \in Seq(Nat) /\ m \in BOOLEAN /\ N \in Pages
    BY <1>1, <1>10, <1>11
  <2>2. panel' = [cursor |-> d, more |-> m, entries |-> f,
                  request |-> "none", page |-> N]
    BY <1>12
  <2> HIDE DEF f, m, N
  <2> QED
    BY <1>1, <2>1, <2>2 DEF Panels, Requested
<1>14. panel'.cursor = d /\ panel'.entries = Newest(x \o e)
       /\ panel'.request = "none"
  BY <1>12
<1>15. d <= Len(log) /\ Visible' = Visible
  BY <1>1, <1>2, <1>5 DEF Visible, Watching!Visible
<1>16. IsTail(panel'.entries, Upto(Visible', panel'.cursor))
  BY <1>10, <1>14, <1>15
<1>17. panel'.cursor <= Len(log') /\ panel'.request # "answered"
  BY <1>5, <1>14, <1>15
<1> QED
  BY <1>13, <1>16, <1>17 DEF PanelInv, IsTail, Upto, Picked, IsPicked, Taking,
                             Number

LEMMA AnsweringKeeps ==
  ASSUME PanelInv, log \in Seq(Notes), Watching!PanelAnswered
  PROVE  PanelInv'
<1> DEFINE c == panel.cursor
           P == Watching!Page(panel.cursor)
<1>1. panel \in Panels /\ c \in 0 .. Len(log)
      /\ IsTail(panel.entries, Upto(Visible, c))
  BY DEF PanelInv, Panels
<1>2. P \in Pages /\ IsPage(P, c, Len(log))
  BY <1>1, PageIs
<1>3. panel' = [[panel EXCEPT !.request = "answered"] EXCEPT !.page = P]
      /\ UNCHANGED log
  BY DEF Watching!PanelAnswered
<1> HIDE DEF c, P
<1>4. panel' \in Panels /\ panel'.cursor = panel.cursor
      /\ panel'.entries = panel.entries /\ panel'.page = P
  BY <1>1, <1>2, <1>3 DEF Panels, Requested
<1>5. Visible' = Visible
  BY <1>3 DEF Visible, Watching!Visible
<1>6. panel'.cursor <= Len(log') /\ panel'.cursor = c
  BY <1>1, <1>3, <1>4 DEF PanelInv, c
<1>7. IsTail(panel'.entries, Upto(Visible', panel'.cursor))
  BY <1>1, <1>4, <1>5, <1>6
<1>8. /\ panel'.page.cursor \in panel'.cursor .. Len(log')
      /\ panel'.page.entries
           = Upto(After(Visible', panel'.cursor), panel'.page.cursor)
  BY <1>2, <1>3, <1>4, <1>5, <1>6 DEF IsPage
<1> QED
  BY <1>4, <1>6, <1>7, <1>8 DEF PanelInv, IsPage, IsTail, Upto, Picked,
                                IsPicked, Taking, After, Number

\* Starting again empties the panel, when it has no request.
LEMMA StartingAgainKeeps ==
  ASSUME PanelInv, log \in Seq(Notes), Watching!StartAgain
  PROVE  PanelInv'
<1>1. panel \in Panels /\ panel.request = "none"
  BY DEF PanelInv, Watching!StartAgain, Watching!MayStartAgain
<1>2. panel' = [[[panel EXCEPT !.cursor = 0] EXCEPT !.entries = << >>]
                   EXCEPT !.request = "asked"]
      /\ UNCHANGED log
  BY <1>1 DEF Watching!StartAgain, Panels
<1>3. panel' \in Panels /\ panel'.cursor = 0 /\ panel'.entries = << >>
      /\ panel'.request = "asked"
  <2> DEFINE p == [panel EXCEPT !.cursor = 0]
             q == [p EXCEPT !.entries = << >>]
             r == [q EXCEPT !.request = "asked"]
  <2>1. p \in Panels /\ p.cursor = 0
    BY <1>1 DEF Panels
  <2> HIDE DEF p
  <2>2. << >> \in Seq(Nat)
    OBVIOUS
  <2>3. q \in Panels /\ q.cursor = 0 /\ q.entries = << >>
    BY <2>1, <2>2 DEF Panels
  <2> HIDE DEF q
  <2>4. r \in Panels /\ r.cursor = 0 /\ r.entries = << >> /\ r.request = "asked"
    BY <2>3 DEF Panels, Requested
  <2>5. panel' = r
    BY <1>2 DEF q, p
  <2> HIDE DEF r
  <2> QED
    BY <2>4, <2>5
<1>4. IsTail(<< >>, << >>)
  BY DEF IsTail
<1>5. Upto(Visible', 0) = << >>
  BY UptoFirst
<1>6. IsTail(panel'.entries, Upto(Visible', panel'.cursor))
  BY <1>3, <1>4, <1>5
<1>7. panel'.cursor <= Len(log')
  BY <1>2, <1>3
<1> QED
  BY <1>3, <1>6, <1>7 DEF PanelInv, IsTail, Upto, Picked, IsPicked, Taking,
                          Number

LEMMA PanelKeeps ==
  ASSUME WatchInv, PanelInv, [Watching!TrajectoryNext]_(Watching!trajectoryVars)
  PROVE  PanelInv'
<1>1. log \in Seq(Notes) /\ log' \in Seq(Notes)
  BY WatchKeeps DEF WatchInv, LogInv
<1>2. panel \in Panels
  BY DEF PanelInv
<1>3. CASE UNCHANGED panel /\ \E e : log' = Append(log, e) \/ log' = log
  BY <1>1, <1>2, <1>3, GrowthKeeps
<1>4. ASSUME NEW r \in {"none", "asked"}, panel' = [panel EXCEPT !.request = r],
             \E e : log' = Append(log, e) \/ log' = log
      PROVE  PanelInv'
  <2>1. panel' \in Panels /\ panel'.request # "answered"
        /\ panel'.cursor = panel.cursor /\ panel'.entries = panel.entries
    BY <1>2, <1>4 DEF Panels, Requested
  <2> QED
    BY <1>1, <1>4, <2>1, GrowthKeeps
<1>5. CASE Watching!Start \/ Watching!Happens \/ Watching!Ends
           \/ Watching!Recover \/ Watching!ActivityRead
           \/ UNCHANGED Watching!trajectoryVars
  <2>1. UNCHANGED panel
    BY <1>5 DEF Watching!Start, Watching!Happens, Watching!Ends,
                Watching!Recover, Watching!ActivityRead, Watching!trajectoryVars
  <2>2. \E e : log' = Append(log, e) \/ log' = log
    BY <1>5 DEF Watching!Start, Watching!Happens, Watching!Ends,
                Watching!Recover, Watching!ActivityRead,
                Watching!trajectoryVars, Watching!Logs
  <2> QED
    BY <1>3, <2>1, <2>2
<1>6. CASE Watching!Mount \/ Watching!Tick \/ Watching!LoadMore
  BY <1>4, <1>6 DEF Watching!Mount, Watching!Tick, Watching!LoadMore,
                    Watching!Asks
<1>7. CASE Watching!ServiceRestarts
  <2>1. \E e : log' = Append(log, e) \/ log' = log
    BY <1>7 DEF Watching!ServiceRestarts, Watching!Logs
  <2>2. panel' = panel \/ panel' = [panel EXCEPT !.request = "none"]
    BY <1>7 DEF Watching!ServiceRestarts
  <2> QED
    BY <1>3, <1>4, <2>1, <2>2
<1>8. CASE Watching!PanelFails
  <2>1. panel' = [[panel EXCEPT !.request = "none"]
                     EXCEPT !.page = Watching!NoPage]
        /\ log' = log
    BY <1>8 DEF Watching!PanelFails, Watching!Freed
  <2>2. Watching!NoPage \in Pages
    BY DEF Watching!NoPage, Pages
  <2>3. panel' \in Panels /\ panel'.request # "answered"
        /\ panel'.cursor = panel.cursor /\ panel'.entries = panel.entries
    BY <1>2, <2>1, <2>2 DEF Panels, Requested
  <2> QED
    BY <1>1, <2>1, <2>3, GrowthKeeps
<1> QED
  BY <1>1, <1>5, <1>6, <1>7, <1>8, ShowingKeeps, AnsweringKeeps,
     StartingAgainKeeps DEF Watching!TrajectoryNext

\* The panel shows the end of the visible journal up to its cursor, without
\* gap or repetition, whatever is loaded, started again, lost or restarted
\* meanwhile, for every length of a page, of the window and of the journal.
THEOREM WindowIsTailTheorem == Watching!TrajectorySpec => []WindowIsTail
<1>1. WatchInv /\ [Watching!TrajectoryNext]_(Watching!trajectoryVars)
        => WatchInv'
  BY WatchKeeps
<1>2. WatchInv /\ PanelInv
        /\ [Watching!TrajectoryNext]_(Watching!trajectoryVars) => PanelInv'
  BY PanelKeeps
<1>3. WatchInv /\ PanelInv => WindowIsTail
  <2> SUFFICES ASSUME WatchInv, PanelInv PROVE WindowIsTail
    OBVIOUS
  <2> DEFINE x == panel.entries
             l == Upto(Visible, panel.cursor)
             b == Watching!Between(0, panel.cursor)
  <2>1. panel.cursor \in Nat /\ IsTail(x, l) /\ log \in Seq(Notes)
    BY DEF PanelInv, Panels, WatchInv, LogInv
  <2>2. b = Upto(After(Visible, 0), panel.cursor)
    BY <2>1, BetweenIs
  <2>3. \A k \in 1 .. panel.cursor : k \in After(Visible, 0) <=> k \in Visible
    BY <2>1 DEF After
  <2>4. b = l
    BY <2>1, <2>2, <2>3, UptoSame
  <2>5. /\ x = SubSeq(b, Len(b) - Len(x) + 1, Len(b))
        /\ Len(x) = Window \/ x = b
    BY <2>1, <2>4 DEF IsTail
  <2> HIDE DEF b
  <2> QED
    BY <2>5 DEF WindowIsTail, Watching!WindowIsTail, b
<1> QED
  BY <1>1, <1>3, <1>2, WatchInitInv, PanelInitInv, PTL
     DEF Watching!TrajectorySpec

-----------------------------------------------------------------------------
(***************************************************************************)
(* Part 8.  The types of the components.                                   *)
(***************************************************************************)
Steps == {"disconnect", "withdraw", "abort", "settle", "unmark", "release"}

LifeStages == {"new", "locked", "unmarked", "marking", "owner", "listening",
               "serving", "disposing", "refused", "gone"}

\* What is left of a disposal is some of its steps.
LifeTypes == remaining \in [Services -> Seq(Steps)] /\ LifeTypeOK

LEMMA OrdersAreSteps ==
  /\ DisposeOrder \in Seq(Steps) /\ Len(DisposeOrder) = 6
  /\ <<"unmark", "release">> \in Seq(Steps) /\ Len(<<"unmark", "release">>) = 2
BY DEF DisposeOrder, Steps

\* A step of a service enters one place, with so many steps left to do.
LEMMA LifeEnters ==
  ASSUME LifeTypes, LifeNext
  PROVE  \E s \in Services :
           /\ stage' = stage \/ \E x \in LifeStages : stage' = [stage EXCEPT ![s] = x]
           /\ remaining' = remaining \/ \E x \in Seq(Steps) :
                Len(x) <= 6 /\ remaining' = [remaining EXCEPT ![s] = x]
           /\ holder' \in {holder, s, NoService}
           /\ discovery' \in {discovery, s, NoService}
           /\ marker' \in {marker, s, NoService, "torn"}
           /\ announced' \in {announced, announced \union {s}}
           /\ working' \in {working, working \union {s}, working \ {s}}
<1>1. PICK s \in Services :
        \/ Starts(s) \/ WorkBegins(s) \/ WorkEnds(s) \/ Dispose(s)
        \/ DisposeStep(s) \/ Die(s)
  BY DEF LifeNext
<1> WITNESS s \in Services
<1>2. CASE Contend(s) \/ CheckMarker(s) \/ CreateMarker(s)
  BY <1>2 DEF Contend, CheckMarker, CreateMarker, Enters, LifeStages
<1>3. CASE OpenStore(s) \/ Listen(s) \/ Announce(s) \/ Dispose(s)
  <2>1. /\ holder' = holder /\ discovery' \in {discovery, s}
        /\ marker' \in {marker, s} /\ working' = working
        /\ announced' \in {announced, announced \union {s}}
    BY <1>3 DEF OpenStore, Listen, Announce, Dispose
  <2>2. \/ /\ \E x \in {"owner", "listening", "serving"} : Enters(s, x)
           /\ UNCHANGED remaining
        \/ Disposes(s, DisposeOrder) \/ Disposes(s, <<"unmark", "release">>)
    BY <1>3 DEF OpenStore, Listen, Announce, Dispose
  <2>3. ASSUME NEW x \in Seq(Steps), Len(x) <= 6, Disposes(s, x)
        PROVE  /\ stage' = [stage EXCEPT ![s] = "disposing"]
               /\ \E y \in Seq(Steps) :
                    Len(y) <= 6 /\ remaining' = [remaining EXCEPT ![s] = y]
    BY <2>3 DEF Disposes, Enters
  <2>4. CASE Disposes(s, DisposeOrder) \/ Disposes(s, <<"unmark", "release">>)
    <3>1. /\ DisposeOrder \in Seq(Steps) /\ Len(DisposeOrder) <= 6
          /\ <<"unmark", "release">> \in Seq(Steps)
          /\ Len(<<"unmark", "release">>) <= 6
      BY OrdersAreSteps
    <3>2. /\ stage' = [stage EXCEPT ![s] = "disposing"]
          /\ \E y \in Seq(Steps) :
               Len(y) <= 6 /\ remaining' = [remaining EXCEPT ![s] = y]
      BY <2>3, <2>4, <3>1
    <3> QED
      BY <2>1, <3>2 DEF LifeStages
  <2>5. CASE \E x \in {"owner", "listening", "serving"} :
               Enters(s, x) /\ UNCHANGED remaining
    BY <2>1, <2>5 DEF Enters, LifeStages
  <2> QED
    BY <2>2, <2>4, <2>5
<1>4. CASE WorkBegins(s) \/ WorkEnds(s)
  BY <1>4 DEF WorkBegins, WorkEnds
<1>5. CASE DisposeStep(s)
  <2> DEFINE x == remaining[s]
  <2>1. PICK step : Does(s, step)
    BY <1>5 DEF DisposeStep, Disconnect, Withdraw, AbortWork, SettleWork,
                Unmark, Release
  <2>2. x \in Seq(Steps) /\ x # << >> /\ Len(x) <= 6
    BY <2>1 DEF Does, LifeTypes, LifeTypeOK
  <2>3. Tail(x) \in Seq(Steps) /\ Len(Tail(x)) <= 6
    <3> HIDE DEF x
    <3>1. Tail(x) \in Seq(Steps) /\ Len(Tail(x)) = Len(x) - 1
      BY <2>2
    <3>2. Len(x) \in Nat
      BY <2>2
    <3> QED
      BY <2>2, <3>1, <3>2
  <2>4. /\ remaining' = [remaining EXCEPT ![s] = Tail(x)]
        /\ stage' = stage \/ stage' = [stage EXCEPT ![s] = "gone"]
    BY <2>1 DEF Does
  <2> HIDE DEF x
  <2>5. /\ holder' \in {holder, s, NoService}
        /\ discovery' \in {discovery, s, NoService}
        /\ marker' \in {marker, s, NoService, "torn"}
        /\ announced' = announced /\ working' = working
    BY <1>5 DEF DisposeStep, Disconnect, Withdraw, AbortWork, SettleWork,
                Unmark, Release
  <2> QED
    BY <2>3, <2>4, <2>5 DEF LifeStages
<1>6. CASE Die(s)
  <2>1. << >> \in Seq(Steps) /\ Len(<< >>) <= 6
    OBVIOUS
  <2> QED
    BY <1>6, <2>1 DEF Die, Enters, LifeStages
<1> QED
  BY <1>1, <1>2, <1>3, <1>4, <1>5, <1>6 DEF Starts

LEMMA LifeTypesKept == LifeTypes /\ [LifeNext]_lifeVars => LifeTypes'
<1> SUFFICES ASSUME LifeTypes, [LifeNext]_lifeVars PROVE LifeTypes'
  OBVIOUS
<1>1. CASE LifeNext
  <2>1. PICK s \in Services :
           /\ stage' = stage \/ \E x \in LifeStages : stage' = [stage EXCEPT ![s] = x]
           /\ remaining' = remaining \/ \E x \in Seq(Steps) :
                Len(x) <= 6 /\ remaining' = [remaining EXCEPT ![s] = x]
           /\ holder' \in {holder, s, NoService}
           /\ discovery' \in {discovery, s, NoService}
           /\ marker' \in {marker, s, NoService, "torn"}
           /\ announced' \in {announced, announced \union {s}}
           /\ working' \in {working, working \union {s}, working \ {s}}
    BY <1>1, LifeEnters
  <2>2. stage \in [Services -> LifeStages]
    BY DEF LifeTypes, LifeTypeOK, LifeStages
  <2>3. stage' \in [Services -> LifeStages]
    <3> HIDE DEF LifeStages
    <3> QED
      BY <2>1, <2>2
  <2>4. /\ remaining' \in [Services -> Seq(Steps)]
        /\ \A u \in Services : Len(remaining'[u]) <= 6
    <3>1. CASE remaining' = remaining
      BY <3>1 DEF LifeTypes, LifeTypeOK
    <3>2. CASE remaining' # remaining
      <4>1. PICK x \in Seq(Steps) :
              Len(x) <= 6 /\ remaining' = [remaining EXCEPT ![s] = x]
        BY <2>1, <3>2
      <4> QED
        BY <4>1 DEF LifeTypes, LifeTypeOK
    <3> QED
      BY <3>1, <3>2
  <2>5. /\ {holder, discovery}' \subseteq Services \union {NoService}
        /\ marker' \in Services \union {NoService, "torn"}
        /\ announced' \subseteq Services /\ working' \subseteq Services
    BY <2>1 DEF LifeTypes, LifeTypeOK
  <2> QED
    BY <2>3, <2>4, <2>5 DEF LifeTypes, LifeTypeOK, LifeStages
<1>2. CASE UNCHANGED lifeVars
  BY <1>2 DEF lifeVars, LifeTypes, LifeTypeOK
<1> QED
  BY <1>1, <1>2

\* The types of the services of a home.
LEMMA LifeTyped == LifeSpec => []LifeTypeOK
<1>1. LifeInit => LifeTypes
  BY DEF LifeInit, LifeTypes, LifeTypeOK
<1>2. LifeTypes => LifeTypeOK
  BY DEF LifeTypes
<1> QED
  BY <1>1, <1>2, LifeTypesKept, PTL DEF LifeSpec

-----------------------------------------------------------------------------
LEMMA CaptureTypesKept == CaptureTypeOK /\ [CaptureNext]_captureVars => CaptureTypeOK'
<1> SUFFICES ASSUME CaptureTypeOK, [CaptureNext]_captureVars PROVE CaptureTypeOK'
  OBVIOUS
<1>0. MaxEdits \in Nat
  BY BoundsAssumption
<1>1. CASE AddWorktree \/ MarkOwner \/ RecordBaseline \/ PrepareFails
  BY <1>1 DEF AddWorktree, MarkOwner, RecordBaseline, PrepareFails, treeVars,
              CaptureTypeOK
<1>2. ASSUME Disturbs PROVE edits' \in 0 .. MaxEdits
  BY <1>0, <1>2 DEF Disturbs, CaptureTypeOK
<1>3. ASSUME NEW p \in Paths, Edit(p) \/ Stage(p) \/ Hide(p)
      PROVE  CaptureTypeOK'
  <2>1. Disturbs
    BY <1>3 DEF Edit, Stage, Hide
  <2>2. UNCHANGED <<place, preparing, recorded, files>>
    BY <2>1 DEF Disturbs
  <2>3. /\ DOMAIN work' = Paths /\ DOMAIN index' = Paths
        /\ hidden' \subseteq Paths /\ converts' \in BOOLEAN
    BY <1>3 DEF Edit, Stage, Hide, CaptureTypeOK
  <2> QED
    BY <1>2, <2>1, <2>2, <2>3 DEF CaptureTypeOK
<1>4. CASE Reconfigure
  <2>1. UNCHANGED <<place, preparing, recorded, files, work, index, hidden>>
        /\ converts' = ~converts
    BY <1>4 DEF Reconfigure, Disturbs
  <2> QED
    BY <1>2, <1>4, <2>1 DEF Reconfigure, CaptureTypeOK
<1>5. CASE BeginCapture \/ ReadIndex \/ ReadOthers \/ ReadDiff
  BY <1>5 DEF BeginCapture, ReadIndex, ReadOthers, ReadDiff, treeVars,
              CaptureTypeOK
<1>6. ASSUME NEW p \in Paths, StatFile(p) \/ ReadFile(p)
      PROVE  CaptureTypeOK'
  <2>1. /\ UNCHANGED <<place, preparing, recorded, treeVars>>
        /\ DOMAIN files' = Paths
    BY <1>6 DEF StatFile, ReadFile, CaptureTypeOK
  <2> QED
    BY <2>1 DEF treeVars, CaptureTypeOK
<1>7. CASE UNCHANGED captureVars
  BY <1>7 DEF captureVars, treeVars, CaptureTypeOK
<1> QED
  BY <1>1, <1>3, <1>4, <1>5, <1>6, <1>7 DEF CaptureNext

\* The types of a worktree.
LEMMA CaptureTyped == CaptureSpec => []CaptureTypeOK
<1>1. CaptureInit => CaptureTypeOK
  <2>1. 0 \in 0 .. MaxEdits
    BY BoundsAssumption
  <2> QED
    BY <2>1 DEF CaptureInit, CaptureTypeOK
<1> QED
  BY <1>1, CaptureTypesKept, PTL DEF CaptureSpec

-----------------------------------------------------------------------------
\* The step with its requests: those there were are there still.
PollTyped == PollInv /\ Polling!PollingTypeOK

LEMMA SomeLeast ==
  ASSUME NEW T \in SUBSET Nat, T # {}
  PROVE  \E x \in T : \A y \in T : x <= y
<1>1. IsWellFoundedOn(Less, Nat)
  BY NatLessThanWellFounded DEF OpToRel, Less
<1>2. PICK x \in T : \A y \in T : ~(<<y, x>> \in Less)
  BY <1>1, WFMin
<1>3. ASSUME NEW y \in T PROVE x <= y
  <2>1. x \in Nat /\ y \in Nat /\ ~(<<y, x>> \in Less)
    BY <1>2
  <2>2. ~(y < x)
    BY <2>1 DEF Less
  <2> QED
    BY <2>1, <2>2
<1> QED
  BY <1>3

\* The oldest request that a worker has not yet captured is one of its requests.
LEMMA CapturesPosted ==
  ASSUME PollInv, NEW w, Polling!Capture(w)
  PROVE  /\ \E k \in DOMAIN requests : replies' = replies \union {k}
         /\ DOMAIN requests' = DOMAIN requests
<1> DEFINE T == Polling!Posted(w)
           k == CHOOSE j \in T : \A l \in T : j <= l
<1>1. DOMAIN requests \subseteq Nat
  BY DEF PollInv, PollTypes
<1>2. T # {} /\ T \subseteq Nat /\ T \subseteq DOMAIN requests
  BY <1>1 DEF Polling!Capture, Polling!Posted
<1>3. replies' = replies \union {k} /\ DOMAIN requests' = DOMAIN requests
  BY DEF Polling!Capture
<1>4. k \in T
  <2> HIDE DEF T
  <2> QED
    BY <1>2, SomeLeast
<1> QED
  BY <1>2, <1>3, <1>4

\* A poll starts or goes on to read.
LEMMA ReadsTypes ==
  ASSUME PollTyped, NEW p \in Polls, Polling!Reads(p)
  PROVE  /\ \A q \in Polls : poll'[q].stage \in {"idle", "reading", "answered"}
         /\ worker' \in 0 .. workers' /\ alive' \subseteq 1 .. workers'
         /\ replies' \subseteq DOMAIN requests' /\ terminating \in 0 .. workers'
<1>1. /\ \A q \in Polls \ {p} : poll'[q] = poll[q]
      /\ poll'[p].stage = "reading"
  BY DEF Polling!Reads, PollTyped, PollInv, PollTypes
<1>2. /\ workers \in Nat /\ worker \in 0 .. workers /\ alive \subseteq 1 .. workers
      /\ requests \in Seq(Requests) /\ replies \subseteq DOMAIN requests
      /\ terminating \in 0 .. workers
  BY DEF PollTyped, PollInv, PollTypes, Polling!PollingTypeOK
<1>3. CASE Polling!Usable
  BY <1>1, <1>2, <1>3
     DEF Polling!Reads, Polling!readerVars, PollTyped, Polling!PollingTypeOK
<1>4. CASE ~Polling!Usable
  <2>1. /\ workers' = IF worker = 0 THEN workers + 1 ELSE workers
        /\ worker' = IF worker = 0 THEN workers' ELSE worker
        /\ alive' = IF worker = 0 THEN alive \union {worker'} ELSE alive
        /\ replies' = replies
        /\ \E r : requests' = Append(requests, r)
    BY <1>4 DEF Polling!Reads
  <2>2. DOMAIN requests \subseteq DOMAIN requests'
    <3>1. PICK r : requests' = Append(requests, r)
      BY <2>1
    <3>2. /\ DOMAIN requests = 1 .. Len(requests) /\ Len(requests) \in Nat
          /\ DOMAIN Append(requests, r) = 1 .. Len(requests) + 1
      BY <1>2
    <3> QED
      BY <3>1, <3>2
  <2>3. /\ worker' \in 0 .. workers' /\ alive' \subseteq 1 .. workers'
        /\ terminating \in 0 .. workers'
    BY <1>2, <2>1
  <2> QED
    BY <1>1, <1>2, <2>1, <2>2, <2>3 DEF PollTyped, Polling!PollingTypeOK
<1> QED
  BY <1>3, <1>4

LEMMA AnswersTypes ==
  ASSUME PollTyped, NEW p \in Polls, NEW shown, NEW digest,
         Polling!Answers(p, shown, digest)
  PROVE  /\ \A q \in Polls : poll'[q].stage \in {"idle", "reading", "answered"}
         /\ worker' \in 0 .. workers' /\ alive' \subseteq 1 .. workers'
         /\ replies' \subseteq DOMAIN requests' /\ terminating \in 0 .. workers'
<1>1. /\ \A q \in Polls \ {p} : poll'[q] = poll[q]
      /\ poll'[p].stage = "answered" /\ UNCHANGED Polling!readerVars
  BY DEF Polling!Answers, PollTyped, PollInv, PollTypes
<1> QED
  BY <1>1 DEF Polling!readerVars, PollTyped, Polling!PollingTypeOK

LEMMA PollTypesKept ==
  ASSUME PollTyped, [Polling!PollingNext]_(Polling!pollingVars)
  PROVE  Polling!PollingTypeOK'
<1> USE DEF Polling!recordVars, Polling!readerVars
<1>0. /\ version \in 0 .. MaxSaves /\ settled \in BOOLEAN
      /\ tree \in Contents /\ sinceSave \subseteq Contents
      /\ \A p \in Polls : poll[p].stage \in {"idle", "reading", "answered"}
      /\ worker \in 0 .. workers /\ alive \subseteq 1 .. workers
      /\ replies \subseteq DOMAIN requests
      /\ terminating \in 0 .. workers /\ closed \in BOOLEAN
      /\ workers \in Nat /\ MaxSaves \in Nat /\ requests \in Seq(Requests)
  BY BoundsAssumption
     DEF PollTyped, PollInv, PollTypes, Polling!PollingTypeOK
<1>1. CASE Polling!Save \/ Polling!Edit
  <2>1. /\ version' \in {version, version + 1} /\ settled' \in BOOLEAN
        /\ version' = version + 1 => version < MaxSaves
        /\ tree' \in Contents /\ sinceSave' \subseteq Contents
        /\ UNCHANGED <<poll, worker, workers, alive, replies, requests,
                       terminating, closed>>
    BY <1>0, <1>1 DEF Polling!Save, Polling!Edit
  <2>2. version' \in 0 .. MaxSaves
    BY <1>0, <2>1
  <2> QED
    BY <1>0, <2>1, <2>2 DEF Polling!PollingTypeOK
<1>2. ASSUME UNCHANGED Polling!recordVars,
             \A p \in Polls : poll'[p].stage \in {"idle", "reading", "answered"},
             worker' \in 0 .. workers', alive' \subseteq 1 .. workers',
             replies' \subseteq DOMAIN requests',
             terminating' \in 0 .. workers', closed' \in BOOLEAN
      PROVE  Polling!PollingTypeOK'
  BY <1>0, <1>2 DEF Polling!PollingTypeOK
<1>3. ASSUME NEW w \in alive, Polling!Capture(w)
      PROVE  Polling!PollingTypeOK'
  <2>1. replies' \subseteq DOMAIN requests'
    BY <1>0, <1>3, CapturesPosted DEF PollTyped
  <2>2. UNCHANGED <<Polling!recordVars, poll, worker, workers, alive,
                    terminating, closed>>
    BY <1>3 DEF Polling!Capture
  <2> QED
    BY <1>0, <1>2, <2>1, <2>2
<1>4. ASSUME NEW w \in alive, Polling!WorkerDies(w)
      PROVE  Polling!PollingTypeOK'
  BY <1>0, <1>2, <1>4 DEF Polling!WorkerDies
<1>5. CASE Polling!CacheExpires \/ Polling!Close
  <2>1. /\ UNCHANGED <<Polling!recordVars, poll, requests, worker, alive,
                       replies, workers>>
        /\ terminating' \in {terminating, worker} /\ closed' \in {closed, TRUE}
    BY <1>5 DEF Polling!CacheExpires, Polling!Close, Polling!AwaitsExit
  <2> QED
    BY <1>0, <1>2, <2>1
<1>6. ASSUME NEW k \in replies, Polling!OnReply(k)
      PROVE  Polling!PollingTypeOK'
  <2>1. /\ UNCHANGED <<Polling!recordVars, poll, worker, workers, alive,
                       terminating, closed>>
        /\ replies' = replies \ {k} /\ DOMAIN requests' = DOMAIN requests
    BY <1>6 DEF Polling!OnReply
  <2> QED
    BY <1>0, <1>2, <2>1
<1>7. ASSUME NEW d \in deaths, Polling!OnDeath(d[1], d[2])
      PROVE  Polling!PollingTypeOK'
  <2>1. /\ UNCHANGED <<Polling!recordVars, poll, workers, alive, replies,
                       terminating>>
        /\ worker' \in {worker, 0} /\ DOMAIN requests' = DOMAIN requests
        /\ closed' \in BOOLEAN
    BY <1>0, <1>7 DEF Polling!OnDeath, Polling!AllRejected
  <2> QED
    BY <1>0, <1>2, <2>1
<1>8. ASSUME NEW p \in Polls, Polling!Ask(p) \/ Polling!Continue(p) \/ Polling!Fails(p)
      PROVE  Polling!PollingTypeOK'
  <2>1. UNCHANGED <<Polling!recordVars, terminating, closed>>
    BY <1>8 DEF Polling!Ask, Polling!Continue, Polling!Fails
  <2>2. \/ Polling!Reads(p)
        \/ \E shown, digest : Polling!Answers(p, shown, digest)
    BY <1>8 DEF Polling!Ask, Polling!Continue, Polling!Fails, Polling!Asks
  <2>3. /\ \A q \in Polls : poll'[q].stage \in {"idle", "reading", "answered"}
        /\ worker' \in 0 .. workers' /\ alive' \subseteq 1 .. workers'
        /\ replies' \subseteq DOMAIN requests' /\ terminating \in 0 .. workers'
    BY <2>2, ReadsTypes, AnswersTypes
  <2> QED
    BY <1>0, <1>2, <2>1, <2>3
<1>9. CASE UNCHANGED Polling!pollingVars
  BY <1>0, <1>2, <1>9 DEF Polling!pollingVars
<1> QED
  BY <1>1, <1>3, <1>4, <1>5, <1>6, <1>7, <1>8, <1>9
     DEF Polling!PollingNext, Polling!ReaderStep

\* The types of the polls and of the reader they share.
LEMMA PollsTyped == Polling!PollingSpec => []Polling!PollingTypeOK
<1>1. Polling!PollingInit => PollTyped
  <2> SUFFICES ASSUME Polling!PollingInit PROVE Polling!PollingTypeOK
    BY PollInitInv DEF PollTyped
  <2>1. 0 \in 0 .. MaxSaves /\ 0 \in 0 .. 0
    BY BoundsAssumption
  <2>2. \A p \in Polls : poll[p].stage = "idle"
    BY DEF Polling!PollingInit, Polling!Idle
  <2>3. /\ version = 0 /\ settled \in BOOLEAN /\ tree \in Contents
        /\ sinceSave = {tree} /\ worker = 0 /\ workers = 0 /\ alive = {}
        /\ replies = {} /\ terminating = 0 /\ closed = FALSE
    BY DEF Polling!PollingInit
  <2> QED
    BY <2>1, <2>2, <2>3 DEF Polling!PollingTypeOK
<1>2. PollTyped /\ [Polling!PollingNext]_(Polling!pollingVars) => PollTyped'
  BY PollKeeps, PollTypesKept DEF PollTyped
<1>3. PollTyped => Polling!PollingTypeOK
  BY DEF PollTyped
<1> QED
  BY <1>1, <1>2, <1>3, PTL DEF Polling!PollingSpec

-----------------------------------------------------------------------------
\* The agents of so many attempts.
AgentsOf(n) == [Watching!Sessions -> [attempt : 0 .. n, status : Statuses]]

LEMMA FollowStays ==
  ASSUME NEW n \in Nat, NEW K \in AgentsOf(n), NEW e,
         e.kind \in Watching!Notifications => e.session \in Watching!Sessions
  PROVE  Watching!Follow(K, e) \in AgentsOf(n)
<1> DEFINE s == e.session
           p == Watching!Parent(s)
           D == [attempt : 0 .. n, status : Statuses]
<1>1. CASE e.kind = "started" /\ K[p] # Unseen
  <2>1. s \in Watching!Sessions
    BY <1>1 DEF Watching!Notifications
  <2>2. p \in Watching!Sessions
    BY <2>1 DEF Watching!Sessions, Watching!Parent, Watching!Worker
  <2>3. K[p] \in D
    BY <2>2 DEF AgentsOf
  <2> DEFINE a == [attempt |-> K[p].attempt, status |-> "running"]
  <2>4. a \in D
    BY <2>3 DEF Statuses
  <2>5. Watching!Follow(K, e) = [K EXCEPT ![s] = a]
    BY <1>1 DEF Watching!Follow, Unseen
  <2> HIDE DEF a
  <2> QED
    BY <2>4, <2>5 DEF AgentsOf
<1>2. CASE /\ ~(e.kind = "started" /\ K[p] # Unseen)
           /\ e.kind \in Watching!Notifications \ {"started"} /\ K[s] # Unseen
  <2> DEFINE status == IF e.kind = "finished" THEN "ended" ELSE e.kind
             a == [K[s] EXCEPT !.status = status]
  <2>1. K[s] \in D
    BY <1>2 DEF AgentsOf
  <2>2. status \in Statuses
    BY <1>2 DEF Watching!Notifications, Statuses
  <2>3. Watching!Follow(K, e) = [K EXCEPT ![s] = a]
    BY <1>2 DEF Watching!Follow, Unseen
  <2> HIDE DEF status
  <2>4. a \in D
    BY <2>1, <2>2
  <2> HIDE DEF a
  <2> QED
    BY <2>3, <2>4 DEF AgentsOf
<1>3. CASE /\ ~(e.kind = "started" /\ K[p] # Unseen)
           /\ ~(/\ e.kind \in Watching!Notifications \ {"started"}
                /\ K[s] # Unseen)
  BY <1>3 DEF Watching!Follow, Unseen
<1> QED
  BY <1>1, <1>2, <1>3

\* A reading of the journal gives an agent no attempt that is not there.
LEMMA ReadingStays ==
  ASSUME WatchInv, agents.known \in AgentsOf(Len(attempts))
  PROVE  Watching!CaughtUp(agents).known \in AgentsOf(Len(attempts))
<1> DEFINE c == agents.cursor
           n == Len(log)
           m == Len(attempts)
           K == Reg(agents.known, Ids)
           T == {pair \in AgentsOf(m) \X AgentsOf(m) : TRUE}
<1>1. /\ c \in Nat /\ n \in Nat /\ c <= n /\ agents.known \in Knowns
      /\ log \in Seq(Notes) /\ Told(log, n, Ids) /\ m \in Nat
      /\ agents = [cursor |-> c, known |-> agents.known]
  BY DEF WatchInv, AgentsInv, LogInv, AttemptsInv
<1>2. \A i \in Ids : i \in 0 .. m
  <2>1. /\ DOMAIN attempts = 1 .. m
        /\ \A k \in DOMAIN attempts : attempts[k].session \in 1 .. k
    BY DEF WatchInv, AttemptsInv
  <2> QED
    BY <1>1, <2>1 DEF Ids
<1>3. K \in AgentsOf(m)
  <2>1. ASSUME NEW s \in Watching!Sessions
        PROVE  K[s] \in [attempt : 0 .. m, status : Statuses]
    <3>1. agents.known[s] \in [attempt : 0 .. m, status : Statuses]
      BY DEF AgentsOf
    <3> QED
      BY <1>2, <3>1 DEF Reg, Statuses
  <2> HIDE DEF m
  <2> QED
    BY <2>1 DEF Reg, AgentsOf
<1>4. Watching!CaughtUp(agents).known = Folded(K, log, c, n)
  <2>1. Watching!Registered(agents.known) = K
    BY <1>1, RegisteredIs DEF WatchInv
  <2>2. Watching!CaughtUp(agents)
          = [cursor |-> n, known |-> Folded(Watching!Registered(agents.known),
                                            log, c, n)]
    BY <1>1, CaughtUpIs
  <2> QED
    BY <2>1, <2>2
<1>5. ASSUME NEW i \in c + 1 .. n, NEW x, NEW y, <<x, y>> \in T
      PROVE  <<Watching!Follow(x, log[i]), Watching!Follow(y, log[i])>> \in T
  <2>1. log[i].kind \in Watching!Notifications =>
          log[i].session \in Watching!Sessions
    <3>1. i \in 1 .. n
      BY <1>1, <1>5
    <3> QED
      BY <1>1, <3>1 DEF Told
  <2>2. x \in AgentsOf(m) /\ y \in AgentsOf(m)
    BY <1>5
  <2> HIDE DEF m
  <2>3. /\ Watching!Follow(x, log[i]) \in AgentsOf(m)
        /\ Watching!Follow(y, log[i]) \in AgentsOf(m)
    BY <1>1, <2>1, <2>2, FollowStays
  <2> QED
    BY <2>3
<1>6. <<K, K>> \in T
  BY <1>3
<1> HIDE DEF T, K, c, n, m
<1>7. <<Folded(K, log, c, n), Folded(K, log, c, n)>> \in T
  BY <1>1, <1>5, <1>6, FoldsKeep
<1> QED
  BY <1>4, <1>7 DEF T, m

WrittenNotes ==
  [kind : Watching!AllKinds \union {"processes"}, session : Watching!Sessions]

\* What is typed of the executions beyond what their invariant says.
WatchTyped ==
  /\ WatchInv /\ PanelInv
  /\ interrupted \in BOOLEAN /\ log \in Seq(WrittenNotes)
  /\ agents.known \in AgentsOf(Len(attempts))

\* An entry of the journal is about a session of an attempt.
LEMMA WrittenStays ==
  ASSUME WatchTyped, [Watching!TrajectoryNext]_(Watching!trajectoryVars)
  PROVE  log' \in Seq(WrittenNotes) /\ interrupted' \in BOOLEAN
<1>1. log \in Seq(WrittenNotes) /\ interrupted \in BOOLEAN
  BY DEF WatchTyped
<1>2. \A e \in WrittenNotes : Append(log, e) \in Seq(WrittenNotes)
  <2> HIDE DEF WrittenNotes
  <2> QED
    BY <1>1
<1>3. /\ attempts \in Seq([session : Nat, ended : BOOLEAN, clean : BOOLEAN])
      /\ Len(attempts) <= MaxRuns /\ Len(attempts) \in Nat /\ MaxRuns \in Nat
      /\ DOMAIN attempts = 1 .. Len(attempts)
      /\ \A k \in DOMAIN attempts : attempts[k].session \in 1 .. k
      /\ interrupted => attempts # << >>
  BY RunsAssumption DEF WatchTyped, WatchInv, AttemptsInv
<1>4. Len(attempts) < MaxRuns \/ attempts # << >> =>
        Watching!Control \in WrittenNotes
  <2> SUFFICES ASSUME Len(attempts) < MaxRuns \/ attempts # << >>
               PROVE  Watching!Control \in WrittenNotes
    OBVIOUS
  <2>1. attempts # << >> => Len(attempts) > 0
    BY <1>3
  <2>2. 1 \in 1 .. MaxRuns
    BY <1>3, <2>1
  <2>3. <<1, "worker">> \in Watching!Sessions
    BY <2>2 DEF Watching!Sessions
  <2> QED
    BY <2>3 DEF Watching!Control, Watching!Worker, WrittenNotes,
                Watching!AllKinds
<1>5. CASE Watching!Start
  BY <1>1, <1>2, <1>4, <1>5 DEF Watching!Start, Watching!Logs
<1>6. CASE Watching!Happens
  <2> DEFINE i == attempts[Len(attempts)].session
  <2>1. attempts # << >> /\ interrupted' = interrupted
    BY <1>6 DEF Watching!Happens, Watching!Live
  <2>2. PICK kind \in Watching!Notifications \union {"processes"},
             s \in {Watching!Worker(i), Watching!Child(i)} :
               log' = Append(log, [kind |-> kind, session |-> s])
    BY <1>6 DEF Watching!Happens, Watching!Latest, Watching!Logs
  <2>3. i \in 1 .. MaxRuns
    <3>1. attempts # << >> => Len(attempts) \in DOMAIN attempts
      BY <1>3
    <3>2. i \in 1 .. Len(attempts)
      BY <1>3, <2>1, <3>1
    <3> HIDE DEF i
    <3> QED
      BY <1>3, <3>2
  <2> HIDE DEF i
  <2>4. s \in Watching!Sessions
    BY <2>3 DEF Watching!Sessions, Watching!Worker, Watching!Child
  <2>5. [kind |-> kind, session |-> s] \in WrittenNotes
    BY <2>4 DEF WrittenNotes, Watching!AllKinds
  <2> QED
    BY <1>1, <1>2, <2>1, <2>2, <2>5
<1>7. CASE Watching!Ends \/ Watching!Recover \/ Watching!ServiceRestarts
  <2>1. /\ log' = log \/ (attempts # << >> /\ log' = Append(log, Watching!Control))
        /\ interrupted' \in BOOLEAN
    <3>1. CASE Watching!Ends
      BY <3>1 DEF Watching!Ends, Watching!Live, Watching!Logs
    <3>2. CASE Watching!Recover
      BY <1>3, <3>2 DEF Watching!Recover, Watching!Logs
    <3>3. CASE Watching!ServiceRestarts
      BY <1>1, <3>3 DEF Watching!ServiceRestarts, Watching!Live, Watching!Logs
    <3> QED
      BY <1>7, <3>1, <3>2, <3>3
  <2> QED
    BY <1>1, <1>2, <1>4, <2>1
<1>8. CASE UNCHANGED <<log, interrupted>>
  BY <1>1, <1>8
<1> QED
  BY <1>5, <1>6, <1>7, <1>8
     DEF Watching!TrajectoryNext, Watching!ActivityRead, Watching!Mount,
         Watching!Tick, Watching!LoadMore, Watching!StartAgain,
         Watching!PanelAnswered, Watching!PanelShows, Watching!PanelFails,
         Watching!trajectoryVars

\* Attempts are never forgotten.
LEMMA AttemptsStay ==
  ASSUME WatchInv, WatchInv', [Watching!TrajectoryNext]_(Watching!trajectoryVars)
  PROVE  /\ Len(attempts) \in Nat /\ Len(attempts') \in Nat
         /\ Len(attempts) <= Len(attempts')
<1> DEFINE A == [session : Nat, ended : BOOLEAN, clean : BOOLEAN]
<1>1. attempts \in Seq(A) /\ attempts' \in Seq(A)
  BY DEF WatchInv, AttemptsInv
<1> HIDE DEF A
<1>2. \/ attempts' = attempts \/ \E x : attempts' = Append(attempts, x)
      \/ DOMAIN attempts' = DOMAIN attempts
  <2>1. CASE Watching!Start
    BY <2>1 DEF Watching!Start
  <2>2. CASE Watching!Ends
    BY <2>2 DEF Watching!Ends
  <2>3. CASE Watching!Recover
    BY <2>3 DEF Watching!Recover
  <2>4. CASE attempts' = attempts
    BY <2>4
  <2> QED
    BY <2>1, <2>2, <2>3, <2>4
       DEF Watching!TrajectoryNext, Watching!Happens, Watching!ServiceRestarts,
           Watching!ActivityRead, Watching!Mount, Watching!Tick,
           Watching!LoadMore, Watching!StartAgain, Watching!PanelAnswered,
           Watching!PanelShows, Watching!PanelFails, Watching!trajectoryVars
<1>3. Len(attempts) \in Nat /\ Len(attempts') \in Nat
  BY <1>1
<1>4. CASE DOMAIN attempts' = DOMAIN attempts
  BY <1>1, <1>4
<1>5. ASSUME NEW x, attempts' = Append(attempts, x)
      PROVE  Len(attempts) <= Len(attempts')
  <2>1. Len(Append(attempts, x)) = Len(attempts) + 1
    BY <1>1
  <2> QED
    BY <1>3, <1>5, <2>1
<1> QED
  BY <1>2, <1>3, <1>4, <1>5

LEMMA WatchTypesKept ==
  ASSUME WatchTyped, [Watching!TrajectoryNext]_(Watching!trajectoryVars)
  PROVE  WatchTyped'
<1> DEFINE n == Len(attempts)
<1>1. WatchInv /\ WatchInv' /\ PanelInv'
  BY WatchKeeps, PanelKeeps DEF WatchTyped
<1>2. n \in Nat /\ n' \in Nat /\ n <= n'
  BY <1>1, AttemptsStay
<1>3. \A K \in AgentsOf(n) : K \in AgentsOf(n')
  <2> HIDE DEF n
  <2>1. 0 .. n \subseteq 0 .. n'
    BY <1>2
  <2> QED
    BY <2>1 DEF AgentsOf
<1>4. agents'.known \in AgentsOf(n)
  <2>1. CASE agents' = agents
    BY <2>1 DEF WatchTyped
  <2>2. CASE agents' = Watching!CaughtUp(agents)
    BY <1>1, <2>2, ReadingStays DEF WatchTyped
  <2>3. CASE agents' = Watching!Fresh
    <3>1. agents'.known = [s \in Watching!Sessions |-> Unseen]
      BY <2>3 DEF Watching!Fresh, Unseen
    <3>2. Unseen \in [attempt : 0 .. n, status : Statuses]
      BY <1>2 DEF Unseen, Watching!Absent, Statuses
    <3> HIDE DEF n
    <3> QED
      BY <3>1, <3>2 DEF AgentsOf
  <2> QED
    BY <2>1, <2>2, <2>3
       DEF Watching!TrajectoryNext, Watching!Start, Watching!Ends,
           Watching!Recover, Watching!Happens, Watching!ServiceRestarts,
           Watching!ActivityRead, Watching!Mount, Watching!Tick,
           Watching!LoadMore, Watching!StartAgain, Watching!PanelAnswered,
           Watching!PanelShows, Watching!PanelFails, Watching!trajectoryVars
<1>5. agents'.known \in AgentsOf(n')
  BY <1>3, <1>4
<1>6. (agents.known \in AgentsOf(Len(attempts)))'
  BY <1>5 DEF AgentsOf
<1> QED
  BY <1>1, <1>6, WrittenStays DEF WatchTyped

LEMMA WatchTypesOK == WatchTyped => Watching!TrajectoryTypeOK
<1> SUFFICES ASSUME WatchTyped PROVE Watching!TrajectoryTypeOK
  OBVIOUS
<1> DEFINE A == [session : Nat, ended : BOOLEAN, clean : BOOLEAN]
           B == [session : 1 .. MaxRuns, ended : BOOLEAN, clean : BOOLEAN]
<1>1. /\ attempts \in Seq(A) /\ Len(attempts) <= MaxRuns /\ MaxRuns \in Nat
      /\ \A k \in DOMAIN attempts : attempts[k].session \in 1 .. k
  BY RunsAssumption DEF WatchTyped, WatchInv, AttemptsInv
<1>2. /\ DOMAIN attempts = 1 .. Len(attempts) /\ Len(attempts) \in Nat
      /\ \A k \in DOMAIN attempts : attempts[k] \in A
  <2> HIDE DEF A
  <2> QED
    BY <1>1
<1>3. \A k \in DOMAIN attempts : attempts[k] \in B
  <2> TAKE k \in DOMAIN attempts
  <2>1. attempts[k] \in A /\ attempts[k].session \in 1 .. MaxRuns
    BY <1>1, <1>2
  <2>2. attempts[k] = [session |-> attempts[k].session,
                       ended |-> attempts[k].ended,
                       clean |-> attempts[k].clean]
    BY <2>1
  <2> QED
    BY <2>1, <2>2
<1>4. attempts \in Seq(B)
  <2> HIDE DEF B
  <2>1. attempts = [k \in DOMAIN attempts |-> attempts[k]]
    <3> HIDE DEF A
    <3> QED
      BY <1>1
  <2>2. attempts \in [1 .. Len(attempts) -> B]
    BY <1>2, <1>3, <2>1
  <2> QED
    BY <1>2, <2>2
<1>5. /\ agents.cursor \in 0 .. Len(log) /\ interrupted \in BOOLEAN
      /\ panel.request \in {"unmounted", "none", "asked", "answered"}
  BY DEF WatchTyped, WatchInv, AgentsInv, LogInv, PanelInv, Panels, Requested
<1> QED
  BY <1>4, <1>5
     DEF WatchTyped, WrittenNotes, AgentsOf, Statuses, Watching!TrajectoryTypeOK

\* The types of the executions, of what is shown of their agents, and of the
\* panel.
LEMMA TrajectoryTyped == Watching!TrajectorySpec => []Watching!TrajectoryTypeOK
<1>1. Watching!TrajectoryInit => WatchTyped
  <2> SUFFICES ASSUME Watching!TrajectoryInit PROVE WatchTyped
    OBVIOUS
  <2>1. /\ interrupted = FALSE /\ log = << >> /\ attempts = << >>
        /\ agents.known = [s \in Watching!Sessions |-> Unseen]
    BY DEF Watching!TrajectoryInit, Watching!Fresh, Unseen
  <2>2. Len(attempts) = 0 /\ Unseen \in [attempt : 0 .. 0, status : Statuses]
    BY <2>1 DEF Unseen, Watching!Absent, Statuses
  <2>3. agents.known \in AgentsOf(Len(attempts))
    BY <2>1, <2>2 DEF AgentsOf
  <2>4. log \in Seq(WrittenNotes)
    BY <2>1
  <2>5. WatchInv /\ PanelInv
    BY WatchInitInv, PanelInitInv
  <2> QED
    BY <2>1, <2>3, <2>4, <2>5 DEF WatchTyped
<1>2. WatchTyped /\ [Watching!TrajectoryNext]_(Watching!trajectoryVars)
        => WatchTyped'
  BY WatchTypesKept
<1> QED
  BY <1>1, <1>2, WatchTypesOK, PTL DEF Watching!TrajectorySpec

-----------------------------------------------------------------------------
\* What is typed of the page beyond its type.
ViewTyped ==
  /\ StreamInv /\ Viewing!ViewTypeOK
  /\ journal \in Seq(Shown \union {"noise", Viewing!NoTicketId})
  /\ stream # Viewing!Down => stream.flushed <= Len(journal)
  /\ reading.stage = "answered" => reading.data \in [Shown -> 0 .. MaxEvents]
  /\ request \in Nat

LEMMA ViewSteps ==
  ASSUME [Viewing!ViewNext]_(Viewing!viewVars)
  PROVE  \/ Viewing!Happens \/ Viewing!Act \/ Viewing!Flush \/ Viewing!Drop
         \/ Viewing!Connect \/ Viewing!HandleEvent \/ Viewing!AnswerOverview
         \/ Viewing!ShowOverview \/ Viewing!EveryThreeSeconds \/ Viewing!Open
         \/ Viewing!ReadFails \/ Viewing!ShowFresh \/ Viewing!Close
         \/ \E a \in acts : Viewing!ActAnswered(a)
         \/ \E a \in acts : Viewing!ActShown(a)
         \/ \E c \in clicks : Viewing!AnswerClick(c)
         \/ \E c \in clicks : Viewing!ShowClicked(c)
         \/ \E t \in Shown : Viewing!Click(t)
         \/ UNCHANGED Viewing!viewVars
BY DEF Viewing!ViewNext, Viewing!ServerStep, Viewing!PageStep

\* The answer to a click changes nothing but the clicks.
LEMMA AnswerClickOnly ==
  ASSUME NEW c, Viewing!AnswerClick(c)
  PROVE  UNCHANGED <<looks, journal, stream, cursor, seen, overview, reading,
                     selected, dialog, request, acts>>
BY Zenon DEF Viewing!AnswerClick, Viewing!streamVars

\* The journal grows; the stream does not run ahead of it.
LEMMA StreamTypes ==
  ASSUME ViewTyped, [Viewing!ViewNext]_(Viewing!viewVars)
  PROVE  /\ journal' \in Seq(Shown \union {"noise", Viewing!NoTicketId})
         /\ Len(journal') <= MaxEvents
         /\ stream' # Viewing!Down => stream'.flushed <= Len(journal')
         /\ cursor' \in 0 .. Len(journal')
<1> USE DEF Viewing!streamVars
<1> DEFINE E == Shown \union {"noise", Viewing!NoTicketId}
<1>0. /\ journal \in Seq(E) /\ Len(journal) \in Nat /\ Len(journal) <= MaxEvents
      /\ stream # Viewing!Down => stream.flushed <= Len(journal)
      /\ cursor \in 0 .. Len(journal) /\ MaxEvents \in Nat
      /\ stream \in [flushed : Int, wire : Seq(Nat)]
      /\ stream # Viewing!Down =>
           /\ stream.flushed \in Nat /\ cursor <= stream.flushed
           /\ stream.wire = Following(cursor, stream.flushed - cursor)
      /\ selected \in E
  <2> HIDE DEF E
  <2>1. journal \in Seq(E)
    BY DEF ViewTyped, E
  <2>2. selected \in E
    BY DEF ViewTyped, Viewing!ViewTypeOK, E
  <2> QED
    BY <2>1, <2>2, BoundsAssumption DEF ViewTyped, Viewing!ViewTypeOK, StreamInv
<1>1. ASSUME NEW e \in E, Len(journal) < MaxEvents,
             journal' = Append(journal, e), UNCHANGED <<stream, cursor, seen>>
      PROVE  /\ journal' \in Seq(E) /\ Len(journal') <= MaxEvents
             /\ stream' # Viewing!Down => stream'.flushed <= Len(journal')
             /\ cursor' \in 0 .. Len(journal')
  <2> HIDE DEF E
  <2>1. journal' \in Seq(E) /\ Len(journal') = Len(journal) + 1
    BY <1>0, <1>1
  <2> QED
    BY <1>0, <1>1, <2>1
<1>2. CASE Viewing!Happens /\ journal' # journal
  <2>0. Shown \subseteq E /\ "noise" \in E
    OBVIOUS
  <2>1. /\ Len(journal) < MaxEvents /\ UNCHANGED <<stream, cursor, seen>>
        /\ \E e \in E : journal' = Append(journal, e)
    BY <1>2, <2>0 DEF Viewing!Happens, Viewing!Announced
  <2> QED
    BY <1>1, <2>1
<1>3. CASE Viewing!Act
  <2>1. /\ Len(journal) < MaxEvents /\ UNCHANGED <<stream, cursor, seen>>
        /\ journal' = Append(journal, selected)
    BY <1>3 DEF Viewing!Act, Viewing!Announced
  <2> QED
    BY <1>0, <1>1, <2>1
<1>4. CASE Viewing!Flush
  <2>1. /\ stream.flushed < Len(journal) /\ stream # Viewing!Down
        /\ UNCHANGED <<journal, cursor>>
        /\ stream' = Viewing!Down
             \/ stream' = [flushed |-> stream.flushed + 1,
                           wire |-> Append(stream.wire, stream.flushed + 1)]
    BY <1>4 DEF Viewing!Flush, Viewing!Overload
  <2>2. stream' # Viewing!Down => stream'.flushed <= Len(journal)
    BY <1>0, <2>1
  <2> QED
    BY <1>0, <2>1, <2>2
<1>5. CASE Viewing!Drop
  BY <1>0, <1>5 DEF Viewing!Drop
<1>6. CASE Viewing!Connect
  <2>1. stream'.flushed = cursor /\ UNCHANGED <<journal, cursor>>
    BY <1>6 DEF Viewing!Connect, Viewing!Down
  <2> QED
    BY <1>0, <2>1
<1>7. CASE Viewing!HandleEvent
  <2>1. /\ stream # Viewing!Down /\ stream.wire # << >>
        /\ cursor' = Head(stream.wire) /\ journal' = journal
        /\ stream'.flushed = stream.flushed
    BY <1>0, <1>7 DEF Viewing!HandleEvent
  <2>2. cursor' = cursor + 1 /\ cursor + 1 <= stream.flushed
    <3> DEFINE m == stream.flushed - cursor
    <3>1. /\ m \in Nat /\ cursor \in Nat /\ stream.wire = Following(cursor, m)
          /\ m > 0 => cursor + 1 <= stream.flushed
      BY <1>0, <2>1
    <3> HIDE DEF m
    <3>2. m > 0 /\ Head(Following(cursor, m)) = cursor + 1
      BY <2>1, <3>1, FollowingFacts
    <3> QED
      BY <2>1, <3>1, <3>2
  <2>3. cursor + 1 \in 0 .. Len(journal)
    BY <1>0, <2>1, <2>2
  <2> QED
    BY <1>0, <2>1, <2>2, <2>3
<1>8. CASE UNCHANGED <<journal, stream, cursor>>
  BY <1>0, <1>8
<1>11. CASE Viewing!Happens /\ journal' = journal
  BY <1>8, <1>11 DEF Viewing!Happens
<1>9. CASE \/ Viewing!AnswerOverview \/ Viewing!Open \/ Viewing!ShowOverview
           \/ Viewing!EveryThreeSeconds \/ Viewing!ReadFails
           \/ \E a \in acts : Viewing!ActAnswered(a)
  BY <1>8, <1>9 DEF Viewing!AnswerOverview, Viewing!Open, Viewing!ShowOverview,
     Viewing!EveryThreeSeconds, Viewing!ReadFails, Viewing!ActAnswered
<1>10. CASE \/ Viewing!ShowFresh \/ Viewing!Close
            \/ \E a \in acts : Viewing!ActShown(a)
            \/ \E c \in clicks : Viewing!AnswerClick(c)
            \/ \E c \in clicks : Viewing!ShowClicked(c)
            \/ \E t \in Shown : Viewing!Click(t)
            \/ UNCHANGED Viewing!viewVars
  BY <1>8, <1>10, AnswerClickOnly DEF Viewing!ShowFresh, Viewing!Close,
     Viewing!ActShown, Viewing!ShowClicked, Viewing!Click, Viewing!viewVars
<1> HIDE DEF E
<1> QED
  BY <1>2, <1>3, <1>4, <1>5, <1>6, <1>7, <1>9, <1>10, <1>11, ViewSteps DEF E

\* A ticket's history of looks goes on, and is never longer than the bound.
LEMMA LooksTypes ==
  ASSUME ViewTyped, [Viewing!ViewNext]_(Viewing!viewVars)
  PROVE  /\ looks' \in [Shown -> Seq(Looks)]
         /\ \A t \in Shown : /\ Len(looks[t]) \in Nat /\ Len(looks'[t]) \in Nat
                             /\ Len(looks[t]) <= Len(looks'[t])
                             /\ Len(looks'[t]) <= MaxEvents
<1>0. /\ looks \in [Shown -> Seq(Looks)] /\ MaxEvents \in Nat
      /\ \A t \in Shown : Len(looks[t]) \in Nat /\ Len(looks[t]) <= MaxEvents
  <2>1. /\ looks \in [Shown -> Seq(Looks)]
        /\ \A t \in Shown : Len(looks[t]) <= MaxEvents
    BY DEF ViewTyped, Viewing!ViewTypeOK, Viewing!Version
  <2> QED
    BY <2>1, BoundsAssumption
<1>1. ASSUME NEW x, Viewing!Changes(x)
      PROVE  /\ looks' \in [Shown -> Seq(Looks)]
             /\ \A t \in Shown : /\ Len(looks'[t]) \in Nat
                                 /\ Len(looks[t]) <= Len(looks'[t])
                                 /\ Len(looks'[t]) <= MaxEvents
  <2>1. PICK l \in Looks : looks' = [looks EXCEPT ![x] = Append(looks[x], l)]
    BY <1>1 DEF Viewing!Changes
  <2>2. Len(looks[x]) < MaxEvents
    BY <1>1 DEF Viewing!Changes, Viewing!Version
  <2>3. CASE x \in Shown
    <3> DEFINE n == Append(looks[x], l)
    <3>1. looks[x] \in Seq(Looks)
      BY <1>0, <2>3
    <3>2. n \in Seq(Looks) /\ Len(n) = Len(looks[x]) + 1
      BY <3>1
    <3>3. looks' = [looks EXCEPT ![x] = n]
      BY <2>1
    <3> HIDE DEF n
    <3>4. looks' \in [Shown -> Seq(Looks)]
      BY <1>0, <3>2, <3>3
    <3>5. \A t \in Shown : looks'[t] = IF t = x THEN n ELSE looks[t]
      BY <1>0, <3>3
    <3> QED
      BY <1>0, <2>2, <2>3, <3>2, <3>4, <3>5
  <2>4. CASE x \notin Shown
    <3>1. looks' = looks
      BY <1>0, <2>1, <2>4, Zenon
    <3> QED
      BY <1>0, <3>1
  <2> QED
    BY <2>3, <2>4
<1>2. CASE looks' = looks
  BY <1>0, <1>2
<1>3. (\E x : Viewing!Changes(x)) \/ looks' = looks
  <2>1. CASE Viewing!Happens \/ Viewing!Act
    BY <2>1 DEF Viewing!Happens, Viewing!Act
  <2>2. CASE \/ Viewing!Flush \/ Viewing!Drop
             \/ Viewing!Connect \/ Viewing!HandleEvent \/ Viewing!AnswerOverview
             \/ Viewing!ShowOverview \/ Viewing!EveryThreeSeconds \/ Viewing!Open
    BY <2>2 DEF Viewing!Flush, Viewing!Drop, Viewing!Connect,
       Viewing!HandleEvent, Viewing!AnswerOverview, Viewing!ShowOverview,
       Viewing!EveryThreeSeconds, Viewing!Open
  <2>3. CASE \/ Viewing!ReadFails \/ Viewing!ShowFresh \/ Viewing!Close
             \/ \E a \in acts : Viewing!ActAnswered(a)
             \/ \E a \in acts : Viewing!ActShown(a)
             \/ \E c \in clicks : Viewing!AnswerClick(c)
             \/ \E c \in clicks : Viewing!ShowClicked(c)
             \/ \E x \in Shown : Viewing!Click(x)
             \/ UNCHANGED Viewing!viewVars
    BY <2>3, AnswerClickOnly DEF Viewing!ReadFails, Viewing!ShowFresh,
       Viewing!Close, Viewing!ActAnswered, Viewing!ActShown,
       Viewing!ShowClicked, Viewing!Click, Viewing!viewVars
  <2> QED
    BY <2>1, <2>2, <2>3, ViewSteps
<1> QED
  BY <1>0, <1>1, <1>2, <1>3

\* A request for the overview is answered with versions of the tickets.
LEMMA OverviewTypes ==
  ASSUME ViewTyped, [Viewing!ViewNext]_(Viewing!viewVars)
  PROVE  /\ overview' \in [Shown -> 0 .. MaxEvents]
         /\ reading'.stage \in {"closed", "none", "asked", "answered", "detailing"}
         /\ reading'.stage = "answered" =>
              reading'.data \in [Shown -> 0 .. MaxEvents]
<1> DEFINE D == [Shown -> 0 .. MaxEvents]
<1>0. /\ overview \in D
      /\ reading.stage \in {"closed", "none", "asked", "answered", "detailing"}
      /\ reading.stage = "answered" => reading.data \in D
  BY DEF ViewTyped, Viewing!ViewTypeOK
<1> HIDE DEF D
<1>1. CASE Viewing!AnswerOverview
  <2>1. PICK data \in D : reading' = [stage |-> "answered", data |-> data]
    BY <1>1 DEF Viewing!AnswerOverview, D
  <2>2. reading'.stage = "answered" /\ reading'.data = data
        /\ overview' = overview
    BY <1>1, <2>1 DEF Viewing!AnswerOverview
  <2> QED
    BY <1>0, <2>2 DEF D
<1>2. CASE Viewing!ShowOverview
  <2>1. /\ overview' \in D
        /\ reading'.stage = "none" \/ reading'.stage = "detailing"
    BY <1>0, <1>2 DEF Viewing!ShowOverview, Viewing!NotReading
  <2> QED
    BY <2>1 DEF D
<1>3. ASSUME overview' = overview,
             reading' = reading \/ reading'.stage \in {"none", "asked"}
      PROVE  /\ overview' \in D
             /\ reading'.stage \in {"closed", "none", "asked", "answered",
                                    "detailing"}
             /\ reading'.stage = "answered" => reading'.data \in D
  BY <1>0, <1>3
<1>4. CASE \/ Viewing!HandleEvent \/ Viewing!EveryThreeSeconds \/ Viewing!Open
           \/ \E a \in acts : Viewing!ActAnswered(a)
           \/ Viewing!ReadFails \/ Viewing!ShowFresh
  <2>1. overview' = overview
    BY <1>4 DEF Viewing!HandleEvent, Viewing!EveryThreeSeconds, Viewing!Open,
                Viewing!ActAnswered, Viewing!ReadFails, Viewing!ShowFresh
  <2>2. reading' = reading \/ reading'.stage \in {"none", "asked"}
    BY <1>4 DEF Viewing!HandleEvent, Viewing!EveryThreeSeconds, Viewing!Timer,
                Viewing!Open, Viewing!ActAnswered, Viewing!ReadFails,
                Viewing!ShowFresh, Viewing!Refresh, Viewing!NotReading
  <2> QED
    BY <1>3, <2>1, <2>2 DEF D
<1>5. CASE UNCHANGED <<overview, reading>>
  BY <1>3, <1>5 DEF D
<1>6. CASE \/ Viewing!Happens \/ Viewing!Act \/ Viewing!Flush \/ Viewing!Drop
           \/ Viewing!Connect \/ Viewing!Close \/ UNCHANGED Viewing!viewVars
  BY <1>5, <1>6 DEF Viewing!Happens, Viewing!Act, Viewing!Flush, Viewing!Drop,
     Viewing!Connect, Viewing!Close, Viewing!viewVars
<1>7. CASE \/ \E a \in acts : Viewing!ActShown(a)
           \/ \E c \in clicks : Viewing!AnswerClick(c)
           \/ \E c \in clicks : Viewing!ShowClicked(c)
           \/ \E t \in Shown : Viewing!Click(t)
  BY <1>5, <1>7, AnswerClickOnly DEF Viewing!ActShown, Viewing!ShowClicked,
     Viewing!Click
<1> QED
  BY <1>1, <1>2, <1>4, <1>6, <1>7, ViewSteps DEF D

\* Clicks have the numbers of the requests so far.
LEMMA DialogTypes ==
  ASSUME ViewTyped, [Viewing!ViewNext]_(Viewing!viewVars)
  PROVE  /\ selected' \in Shown \union {Viewing!NoTicketId}
         /\ dialog'.open \in BOOLEAN /\ request' \in Nat
         /\ \A c \in clicks' : c.id \in 1 .. request'
<1> USE DEF Viewing!dialogVars
<1>0. /\ selected \in Shown \union {Viewing!NoTicketId}
      /\ dialog.open \in BOOLEAN /\ request \in Nat
      /\ \A c \in clicks : c.id \in 1 .. request
  BY DEF ViewTyped, Viewing!ViewTypeOK
<1>1. ASSUME NEW c \in clicks, Viewing!AnswerClick(c)
      PROVE  /\ UNCHANGED <<selected, dialog, request>>
             /\ \A d \in clicks' : d.id \in 1 .. request
  <2> DEFINE d == [[c EXCEPT !.answered = TRUE]
                      EXCEPT !.version = Viewing!Version(c.ticket)]
  <2>1. /\ UNCHANGED <<selected, dialog, request>>
        /\ clicks' = (clicks \ {c}) \union {d}
    BY <1>1 DEF Viewing!AnswerClick
  <2>2. d.id = c.id
    OBVIOUS
  <2> HIDE DEF d
  <2> QED
    BY <1>0, <2>1, <2>2
<1>2. ASSUME NEW t \in Shown, Viewing!Click(t)
      PROVE  /\ selected' = t /\ dialog' = dialog /\ request' \in Nat
             /\ \A d \in clicks' : d.id \in 1 .. request'
  <2> DEFINE d == [id |-> request', ticket |-> t, answered |-> FALSE,
                   version |-> 0]
  <2>1. /\ selected' = t /\ dialog' = dialog /\ request' = request + 1
        /\ clicks' = clicks \union {d} /\ d.id = request'
    BY <1>2 DEF Viewing!Click
  <2> HIDE DEF d
  <2> QED
    BY <1>0, <2>1
<1>3. ASSUME NEW c \in clicks, Viewing!ShowClicked(c)
      PROVE  /\ UNCHANGED <<selected, request>> /\ clicks' \subseteq clicks
             /\ dialog'.open \in BOOLEAN
  <2>1. UNCHANGED <<selected, request>> /\ clicks' \subseteq clicks
    BY <1>3 DEF Viewing!ShowClicked
  <2>2. dialog' = dialog \/ dialog'.open = TRUE
    BY <1>3 DEF Viewing!ShowClicked
  <2> QED
    BY <1>0, <2>1, <2>2
<1>4. CASE Viewing!Close
  <2>1. /\ selected' = Viewing!NoTicketId /\ request' = request + 1
        /\ dialog' = [dialog EXCEPT !.open = FALSE] /\ clicks' = clicks
    BY <1>4 DEF Viewing!Close
  <2>2. dialog'.open \in BOOLEAN
    BY <1>0, <2>1
  <2>3. request' \in Nat /\ \A c \in clicks' : c.id \in 1 .. request'
    BY <1>0, <2>1
  <2> QED
    BY <2>1, <2>2, <2>3
<1>5. CASE Viewing!ShowFresh \/ \E a \in acts : Viewing!ActShown(a)
  <2>1. /\ UNCHANGED <<selected, request, clicks>>
        /\ \/ dialog' = dialog
           \/ \E x : dialog' = [dialog EXCEPT !.detail = x]
    BY <1>5 DEF Viewing!ShowFresh, Viewing!ActShown, Viewing!Render
  <2>2. \A x : [dialog EXCEPT !.detail = x].open = dialog.open
    OBVIOUS
  <2>3. dialog'.open \in BOOLEAN
    BY <1>0, <2>1, <2>2
  <2> QED
    BY <1>0, <2>1, <2>3
<1>6. CASE UNCHANGED <<selected, dialog, request, clicks>>
  BY <1>0, <1>6
<1>7. \/ \E c \in clicks : Viewing!AnswerClick(c)
      \/ \E t \in Shown : Viewing!Click(t)
      \/ \E c \in clicks : Viewing!ShowClicked(c)
      \/ Viewing!Close \/ Viewing!ShowFresh
      \/ \E a \in acts : Viewing!ActShown(a)
      \/ UNCHANGED <<selected, dialog, request, clicks>>
  BY ViewSteps
     DEF Viewing!viewVars, Viewing!Happens, Viewing!Flush, Viewing!Drop,
         Viewing!AnswerOverview, Viewing!Open, Viewing!Connect,
         Viewing!EveryThreeSeconds, Viewing!HandleEvent, Viewing!ShowOverview,
         Viewing!ActAnswered, Viewing!ReadFails, Viewing!Act
<1> QED
  BY <1>0, <1>1, <1>2, <1>3, <1>4, <1>5, <1>6, <1>7

LEMMA ViewTypesKept ==
  ASSUME ViewTyped, [Viewing!ViewNext]_(Viewing!viewVars)
  PROVE  ViewTyped'
<1>1. StreamInv'
  BY StreamKeeps DEF ViewTyped
<1> QED
  BY <1>1, StreamTypes, LooksTypes, OverviewTypes, DialogTypes
     DEF ViewTyped, Viewing!ViewTypeOK, Viewing!Version

LEMMA ViewInitTyped == Viewing!ViewInit => ViewTyped
<1> SUFFICES ASSUME Viewing!ViewInit PROVE ViewTyped
  OBVIOUS
<1>1. /\ journal = << >> /\ stream = Viewing!Down /\ cursor = 0
      /\ overview = [t \in Shown |-> 0] /\ reading.stage = "closed"
      /\ selected = Viewing!NoTicketId /\ request = 0 /\ dialog.open = FALSE
      /\ clicks = {} /\ looks = [t \in Shown |-> << >>]
  BY DEF Viewing!ViewInit, Viewing!NotOpen
<1>2. StreamInv
  BY StreamInitInv
<1>3. Len(journal) = 0 /\ 0 \in 0 .. MaxEvents /\ MaxEvents \in Nat
  BY <1>1, BoundsAssumption
<1>4. overview \in [Shown -> 0 .. MaxEvents]
  BY <1>1, <1>3
<1>5. Viewing!ViewTypeOK
  <2>1. Len(journal) <= MaxEvents /\ cursor \in 0 .. Len(journal)
    BY <1>1, <1>3
  <2>2. << >> \in Seq(Looks) /\ Len(<< >>) <= MaxEvents
    BY <1>3
  <2>3. /\ looks \in [Shown -> Seq(Looks)]
        /\ \A t \in Shown : Viewing!Version(t) <= MaxEvents
    BY <1>1, <2>2 DEF Viewing!Version
  <2> QED
    BY <1>1, <1>4, <2>1, <2>3 DEF Viewing!ViewTypeOK
<1>6. journal \in Seq(Shown \union {"noise", Viewing!NoTicketId})
  BY <1>1
<1> QED
  BY <1>1, <1>2, <1>5, <1>6 DEF ViewTyped

\* The types of the page and of the stream it follows.
LEMMA PageTyped == Viewing!ViewSpec => []Viewing!ViewTypeOK
<1>1. ViewTyped /\ [Viewing!ViewNext]_(Viewing!viewVars) => ViewTyped'
  BY ViewTypesKept
<1>2. ViewTyped => Viewing!ViewTypeOK
  BY DEF ViewTyped
<1> QED
  BY <1>1, <1>2, ViewInitTyped, PTL DEF Viewing!ViewSpec

-----------------------------------------------------------------------------
\* What is typed of the processes and of execute().
CleanupTyped == CleanupInv /\ Cleaning!CleanupTypeOK

LEMMA CloserTypes ==
  ASSUME CleanupTyped, NEW c \in Calls, Cleaning!CloserStep(c)
  PROVE  /\ UNCHANGED <<life, parent, unmarked, reuses, command, phase, aborted,
                       early>>
         /\ doomed' \subseteq Cleaning!Living
         /\ struck' \subseteq Cleaning!Everyone
<1> USE DEF Cleaning!osVars, Cleaning!jsVars
<1>1. doomed \subseteq Cleaning!Living /\ struck \subseteq Cleaning!Everyone
  BY DEF CleanupTyped, Cleaning!CleanupTypeOK
<1>2. CASE Cleaning!Kill(c)
  <2>1. struck' \subseteq Cleaning!Living
    BY <1>2 DEF Cleaning!Kill, Cleaning!Holders
  <2>2. \E S \in SUBSET struck' : doomed' = doomed \union S
    BY <1>2 DEF Cleaning!Kill
  <2>3. UNCHANGED <<life, parent, unmarked, reuses, command, phase, aborted,
                    early>>
    BY <1>2 DEF Cleaning!Kill
  <2> QED
    BY <1>1, <2>1, <2>2, <2>3 DEF Cleaning!Living
<1>3. CASE \/ Cleaning!ReadTable(c) \/ Cleaning!ReadMarkers(c)
           \/ Cleaning!CheckAlive(c) \/ Cleaning!SignalsEnd(c)
  BY <1>1, <1>3 DEF Cleaning!ReadTable, Cleaning!ReadMarkers,
     Cleaning!CheckAlive, Cleaning!SignalsEnd
<1> QED
  BY <1>2, <1>3 DEF Cleaning!CloserStep

LEMMA OsTypes ==
  ASSUME CleanupTyped,
         \/ \E p, q \in Own : Cleaning!Fork(p, q)
         \/ \E p \in Cleaning!Everyone : Cleaning!End(p)
         \/ \E p \in Cleaning!Others, q \in Own : Cleaning!PidReused(p, q)
  PROVE  /\ life' \in [Cleaning!Everyone -> {"unborn", "living", "dead"}]
         /\ parent' \in [Cleaning!Everyone ->
                           Cleaning!Everyone \union {Cleaning!Init1}]
         /\ unmarked' \subseteq Cleaning!Everyone
         /\ reuses' \in [Cleaning!Others -> Cleaning!OwnProcesses
                                               \union {Cleaning!Nobody}]
         /\ doomed' \subseteq Cleaning!Living'
         /\ UNCHANGED <<Cleaning!jsVars, struck>>
<1>0. /\ life \in [Cleaning!Everyone -> {"unborn", "living", "dead"}]
      /\ parent \in [Cleaning!Everyone ->
                       Cleaning!Everyone \union {Cleaning!Init1}]
      /\ unmarked \subseteq Cleaning!Everyone /\ doomed \subseteq Cleaning!Living
      /\ reuses \in [Cleaning!Others -> Cleaning!OwnProcesses
                                            \union {Cleaning!Nobody}]
  BY DEF CleanupTyped, Cleaning!CleanupTypeOK
<1>1. ASSUME NEW p \in Own, NEW q \in Own, Cleaning!Fork(p, q)
      PROVE  /\ life' \in [Cleaning!Everyone -> {"unborn", "living", "dead"}]
             /\ parent' \in [Cleaning!Everyone ->
                               Cleaning!Everyone \union {Cleaning!Init1}]
             /\ unmarked' \subseteq Cleaning!Everyone
             /\ doomed' \subseteq Cleaning!Living'
  <2>1. /\ life' = [life EXCEPT ![q] = "living"]
        /\ parent' = [parent EXCEPT ![q] = p]
        /\ unmarked' \in {unmarked, unmarked \union {q}}
        /\ doomed' = doomed
    BY <1>1 DEF Cleaning!Fork
  <2>2. p \in Cleaning!Everyone /\ q \in Cleaning!Everyone
    BY OwnFacts
  <2>3. Cleaning!Living \subseteq Cleaning!Living'
    BY <1>0, <2>1 DEF Cleaning!Living
  <2> QED
    BY <1>0, <2>1, <2>2, <2>3
<1>2. ASSUME NEW p \in Cleaning!Everyone, Cleaning!End(p)
      PROVE  /\ life' \in [Cleaning!Everyone -> {"unborn", "living", "dead"}]
             /\ parent' \in [Cleaning!Everyone ->
                               Cleaning!Everyone \union {Cleaning!Init1}]
             /\ unmarked' \subseteq Cleaning!Everyone
             /\ doomed' \subseteq Cleaning!Living'
  <2>1. /\ life' = [life EXCEPT ![p] = "dead"]
        /\ parent' = [q \in Cleaning!Everyone |->
                        IF parent[q] = p THEN Cleaning!Init1 ELSE parent[q]]
        /\ doomed' = doomed \ {p} /\ unmarked' = unmarked
    BY <1>2 DEF Cleaning!End
  <2>2. Cleaning!Living \ {p} \subseteq Cleaning!Living'
    BY <1>0, <2>1 DEF Cleaning!Living
  <2> QED
    BY <1>0, <2>1, <2>2
<1>3. ASSUME NEW p \in Cleaning!Others, NEW r \in Own,
             Cleaning!PidReused(p, r)
      PROVE  /\ life' \in [Cleaning!Everyone -> {"unborn", "living", "dead"}]
             /\ parent' \in [Cleaning!Everyone ->
                               Cleaning!Everyone \union {Cleaning!Init1}]
             /\ unmarked' \subseteq Cleaning!Everyone
             /\ doomed' \subseteq Cleaning!Living'
  <2>1. /\ life' = [life EXCEPT ![p] = "living"]
        /\ unmarked' = unmarked \union {p} /\ UNCHANGED <<parent, doomed>>
    BY <1>3 DEF Cleaning!PidReused
  <2>2. p \in Cleaning!Everyone
    BY OwnFacts
  <2>3. Cleaning!Living \subseteq Cleaning!Living'
    BY <1>0, <2>1 DEF Cleaning!Living
  <2> QED
    BY <1>0, <2>1, <2>2, <2>3
<1>4. UNCHANGED <<Cleaning!jsVars, struck>>
  BY DEF Cleaning!Fork, Cleaning!End, Cleaning!PidReused
<1>5. reuses' = reuses \/ \E p, r : r \in Own /\ reuses' = [reuses EXCEPT ![p] = r]
  BY DEF Cleaning!Fork, Cleaning!End, Cleaning!PidReused
<1>6. reuses' \in [Cleaning!Others -> Cleaning!OwnProcesses
                                       \union {Cleaning!Nobody}]
  BY <1>0, <1>5 DEF Own
<1> QED
  BY <1>1, <1>2, <1>3, <1>4, <1>6

LEMMA ExecuteTypes ==
  ASSUME CleanupTyped,
         \/ Cleaning!Spawn \/ Cleaning!PollStarts \/ Cleaning!Expires
         \/ Cleaning!ExecuteStep
  PROVE  /\ life' \in [Cleaning!Everyone -> {"unborn", "living", "dead"}]
         /\ UNCHANGED <<parent, unmarked, reuses, doomed, struck>>
         /\ Cleaning!Living \subseteq Cleaning!Living'
         /\ command' \in 0 .. ListLength
         /\ phase' \in {"idle", "running", "exited", "ending", "stopped"}
         /\ aborted' \in BOOLEAN /\ early' \subseteq Cleaning!Commands
<1> USE DEF Cleaning!osVars
<1>0. /\ life \in [Cleaning!Everyone -> {"unborn", "living", "dead"}]
      /\ command \in 0 .. ListLength
      /\ phase \in {"idle", "running", "exited", "ending", "stopped"}
      /\ aborted \in BOOLEAN /\ early \subseteq Cleaning!Commands
      /\ ListLength \in Nat
  BY BoundsAssumption DEF CleanupTyped, Cleaning!CleanupTypeOK
<1>1. CASE Cleaning!Spawn
  <2> DEFINE root == <<command', "root">>
  <2>1. /\ command' = command + 1 /\ command' \in Cleaning!Commands
        /\ phase' = "running" /\ life' = [life EXCEPT ![root] = "living"]
        /\ UNCHANGED <<parent, unmarked, reuses, doomed, struck, aborted, early>>
    BY <1>1 DEF Cleaning!Spawn
  <2>2. command' \in 0 .. ListLength
    BY <1>0, <2>1 DEF Cleaning!Commands
  <2> HIDE DEF root
  <2>3. /\ life' \in [Cleaning!Everyone -> {"unborn", "living", "dead"}]
        /\ Cleaning!Living \subseteq Cleaning!Living'
    BY <1>0, <2>1 DEF Cleaning!Living
  <2> QED
    BY <1>0, <2>1, <2>2, <2>3
<1>2. CASE Cleaning!Expires
  <2>1. /\ UNCHANGED <<life, parent, unmarked, reuses, doomed, struck, command,
                      phase>>
        /\ early' = early \union {command} /\ aborted' \in BOOLEAN
        /\ command \in Cleaning!Commands
    BY <1>2 DEF Cleaning!Expires, CleanupTyped, CleanupInv
  <2> QED
    BY <1>0, <2>1 DEF Cleaning!Living
<1>3. CASE Cleaning!PollStarts \/ Cleaning!ExecuteStep
  <2>1. /\ UNCHANGED <<life, parent, unmarked, reuses, doomed, struck, command,
                      aborted, early>>
        /\ phase' \in {phase, "exited", "ending", "stopped", "idle"}
    BY <1>3 DEF Cleaning!PollStarts, Cleaning!ExecuteStep, Cleaning!PollEnds,
                Cleaning!Exits, Cleaning!CleansUp, Cleaning!Settles
  <2> QED
    BY <1>0, <2>1 DEF Cleaning!Living
<1> QED
  BY <1>1, <1>2, <1>3

LEMMA CleanupTypesKept ==
  ASSUME CleanupTyped, [Cleaning!CleanupNext]_(Cleaning!cleanupVars)
  PROVE  CleanupTyped'
<1> USE DEF Cleaning!osVars, Cleaning!jsVars
<1>0. CleanupInv'
  BY CleanupKeeps DEF CleanupTyped
<1>1. /\ known' \subseteq Cleaning!Everyone
      /\ \A c \in Cleaning!Calls : closer'[c].state \in
           {"off", "starting", "term", "kill", "gone", "remain"}
  BY <1>0, OwnFacts DEF CleanupInv, IsCloser, CloserStates, Calls
<1>2. CASE \/ \E p, q \in Own : Cleaning!Fork(p, q)
           \/ \E p \in Cleaning!Everyone : Cleaning!End(p)
           \/ \E p \in Cleaning!Others, q \in Own : Cleaning!PidReused(p, q)
  BY <1>0, <1>1, <1>2, OsTypes DEF CleanupTyped, Cleaning!CleanupTypeOK
<1>3. CASE \/ Cleaning!Spawn \/ Cleaning!PollStarts \/ Cleaning!Expires
           \/ Cleaning!ExecuteStep
  BY <1>0, <1>1, <1>3, ExecuteTypes DEF CleanupTyped, Cleaning!CleanupTypeOK
<1>4. ASSUME NEW c \in Calls, Cleaning!CloserStep(c)
      PROVE  CleanupTyped'
  <2>1. /\ UNCHANGED <<life, parent, unmarked, reuses, command, phase, aborted,
                      early>>
        /\ doomed' \subseteq Cleaning!Living
        /\ struck' \subseteq Cleaning!Everyone
    BY <1>4, CloserTypes
  <2>2. Cleaning!Living' = Cleaning!Living
    BY <2>1 DEF Cleaning!Living
  <2> QED
    BY <1>0, <1>1, <2>1, <2>2 DEF CleanupTyped, Cleaning!CleanupTypeOK
<1>5. CASE UNCHANGED Cleaning!cleanupVars
  BY <1>0, <1>1, <1>5
     DEF Cleaning!cleanupVars, CleanupTyped, Cleaning!CleanupTypeOK,
         Cleaning!Living
<1> QED
  BY <1>2, <1>3, <1>4, <1>5 DEF Cleaning!CleanupNext, Own, Calls

\* The types of the processes of commands, and of what cleans up after them.
LEMMA CommandsTyped == Cleaning!CleanupSpec => []Cleaning!CleanupTypeOK
<1>1. Cleaning!CleanupInit => CleanupTyped
  <2> SUFFICES ASSUME Cleaning!CleanupInit PROVE Cleaning!CleanupTypeOK
    BY CleanupInitInv DEF CleanupTyped
  <2>1. 0 \in 0 .. ListLength
    BY BoundsAssumption
  <2>2. \A c \in Cleaning!Calls : closer[c].state = "off"
    BY DEF Cleaning!CleanupInit, Cleaning!Off
  <2> QED
    BY <2>1, <2>2 DEF Cleaning!CleanupInit, Cleaning!CleanupTypeOK
<1>2. CleanupTyped /\ [Cleaning!CleanupNext]_(Cleaning!cleanupVars)
        => CleanupTyped'
  BY CleanupTypesKept
<1>3. CleanupTyped => Cleaning!CleanupTypeOK
  BY DEF CleanupTyped
<1> QED
  BY <1>1, <1>2, <1>3, PTL DEF Cleaning!CleanupSpec

\* In every behaviour of the components, every variable of every one of them
\* has its type: for any numbers of services, paths, polls, runs, events,
\* commands and processes.
THEOREM ComponentsTypeOKTheorem == Components => []ComponentsTypeOK
<1>1. Components => [](LifeTypeOK /\ CaptureTypeOK)
  BY EachComponent, LifeTyped, CaptureTyped, PTL
<1>2. Components => []Polling!PollingTypeOK
  BY EachComponent, PollsTyped
<1>3. Components => []Watching!TrajectoryTypeOK
  BY EachComponent, TrajectoryTyped
<1>4. Components => []Viewing!ViewTypeOK
  BY EachComponent, PageTyped
<1>5. Components => []Cleaning!CleanupTypeOK
  BY EachComponent, CommandsTyped
<1>6. /\ LifeTypeOK /\ CaptureTypeOK /\ Polling!PollingTypeOK
      /\ Watching!TrajectoryTypeOK /\ Viewing!ViewTypeOK
      /\ Cleaning!CleanupTypeOK
      => ComponentsTypeOK
  BY DEF ComponentsTypeOK
<1> QED
  BY <1>1, <1>2, <1>3, <1>4, <1>5, <1>6, PTL

-----------------------------------------------------------------------------
(***************************************************************************)
(* Part 9.  The overview.                                                  *)
(***************************************************************************)
\* A request that is under way will be answered with nothing older than what is
\* shown, and no ticket is behind what was read of it.
OverviewInv ==
  \A t \in Shown :
    /\ overview[t] <= Viewing!Version(t)
    /\ reading.stage = "asked" =>
         /\ reading.at[t] \in Nat
         /\ overview[t] <= reading.at[t] /\ reading.at[t] <= Viewing!Version(t)
    /\ reading.stage = "answered" =>
         /\ reading.data[t] \in Nat
         /\ overview[t] <= reading.data[t]
         /\ reading.data[t] <= Viewing!Version(t)

LEMMA VersionsKept ==
  ASSUME ViewTyped, [Viewing!ViewNext]_(Viewing!viewVars), NEW t \in Shown
  PROVE  /\ Viewing!Version(t) \in Nat /\ Viewing!Version(t)' \in Nat
         /\ Viewing!Version(t) <= Viewing!Version(t)'
BY LooksTypes DEF Viewing!Version

LEMMA OverviewStep ==
  ASSUME ViewTyped, OverviewInv, [Viewing!ViewNext]_(Viewing!viewVars)
  PROVE  OverviewInv' /\ \A t \in Shown : overview[t] <= overview'[t]
<1> SUFFICES ASSUME NEW t \in Shown
             PROVE  /\ overview'[t] <= Viewing!Version(t)'
                    /\ reading'.stage = "asked" =>
                         /\ reading'.at[t] \in Nat
                         /\ overview'[t] <= reading'.at[t]
                         /\ reading'.at[t] <= Viewing!Version(t)'
                    /\ reading'.stage = "answered" =>
                         /\ reading'.data[t] \in Nat
                         /\ overview'[t] <= reading'.data[t]
                         /\ reading'.data[t] <= Viewing!Version(t)'
                    /\ overview[t] <= overview'[t]
  BY DEF OverviewInv
<1> DEFINE v == Viewing!Version(t)
           w == Viewing!Version(t)'
           o == overview[t]
<1>1. v \in Nat /\ w \in Nat /\ v <= w
  BY VersionsKept
<1>2. o \in Nat /\ overview \in [Shown -> 0 .. MaxEvents]
  BY BoundsAssumption DEF ViewTyped, Viewing!ViewTypeOK
<1>3. /\ o <= v
      /\ reading.stage = "asked" =>
           reading.at[t] \in Nat /\ o <= reading.at[t] /\ reading.at[t] <= v
      /\ reading.stage = "answered" =>
           reading.data[t] \in Nat /\ o <= reading.data[t] /\ reading.data[t] <= v
  BY DEF OverviewInv
<1> HIDE DEF v, w, o
<1>4. CASE Viewing!AnswerOverview
  <2>1. /\ reading.stage = "asked" /\ overview' = overview
        /\ reading'.stage = "answered" /\ reading'.data[t] \in Nat
        /\ reading.at[t] <= reading'.data[t] /\ reading'.data[t] <= v
    <3>1. PICK data \in [Shown -> 0 .. MaxEvents] :
            /\ \A x \in Shown : reading.at[x] <= data[x]
                                  /\ data[x] <= Viewing!Version(x)
            /\ reading' = [stage |-> "answered", data |-> data]
      BY <1>4 DEF Viewing!AnswerOverview
    <3>2. data[t] \in Nat /\ reading.at[t] <= data[t] /\ data[t] <= v
      BY <3>1, BoundsAssumption DEF v
    <3>3. reading.stage = "asked" /\ overview' = overview
      BY <1>4 DEF Viewing!AnswerOverview
    <3> QED
      BY <3>1, <3>2, <3>3
  <2>2. overview'[t] = o
    BY <2>1 DEF o
  <2> QED
    BY <1>1, <1>2, <1>3, <2>1, <2>2 DEF v, w, o
<1>5. CASE Viewing!ShowOverview
  <2>1. /\ reading.stage = "answered" /\ overview' = reading.data
        /\ reading'.stage \in {"none", "detailing"}
    BY <1>5 DEF Viewing!ShowOverview, Viewing!NotReading
  <2> QED
    BY <1>1, <1>2, <1>3, <2>1 DEF v, w, o
<1>6. ASSUME overview' = overview,
             \/ reading' = reading
             \/ reading' = [stage |-> "asked", at |-> Viewing!Versions]
             \/ reading'.stage = "none"
      PROVE  /\ overview'[t] <= w
             /\ reading'.stage = "asked" =>
                  /\ reading'.at[t] \in Nat
                  /\ overview'[t] <= reading'.at[t] /\ reading'.at[t] <= w
             /\ reading'.stage = "answered" =>
                  /\ reading'.data[t] \in Nat
                  /\ overview'[t] <= reading'.data[t] /\ reading'.data[t] <= w
             /\ overview[t] <= overview'[t]
  <2>1. overview'[t] = o /\ overview[t] = o
    BY <1>6 DEF o
  <2>2. CASE reading' = reading
    BY <1>1, <1>2, <1>3, <2>1, <2>2
  <2>3. CASE reading' = [stage |-> "asked", at |-> Viewing!Versions]
    <3>1. reading'.stage = "asked" /\ reading'.at[t] = v
      BY <2>3 DEF Viewing!Versions, v
    <3> QED
      BY <1>1, <1>2, <1>3, <2>1, <3>1
  <2>4. CASE reading'.stage = "none"
    BY <1>1, <1>2, <1>3, <2>1, <2>4
  <2> QED
    BY <1>6, <2>2, <2>3, <2>4
<1>7. CASE \/ Viewing!HandleEvent \/ Viewing!EveryThreeSeconds \/ Viewing!Open
           \/ \E a \in acts : Viewing!ActAnswered(a)
           \/ Viewing!ReadFails \/ Viewing!ShowFresh
  <2>1. overview' = overview
    BY <1>7 DEF Viewing!HandleEvent, Viewing!EveryThreeSeconds, Viewing!Open,
                Viewing!ActAnswered, Viewing!ReadFails, Viewing!ShowFresh
  <2>2. \/ reading' = reading
        \/ reading' = [stage |-> "asked", at |-> Viewing!Versions]
        \/ reading'.stage = "none"
    BY <1>7 DEF Viewing!HandleEvent, Viewing!EveryThreeSeconds, Viewing!Timer,
                Viewing!Open, Viewing!ActAnswered, Viewing!ReadFails,
                Viewing!ShowFresh, Viewing!Refresh, Viewing!NotReading
  <2> QED
    BY <1>6, <2>1, <2>2 DEF v, w, o
<1>8. CASE UNCHANGED <<overview, reading>>
  BY <1>6, <1>8 DEF v, w, o
<1>9. CASE \/ Viewing!Happens \/ Viewing!Act \/ Viewing!Flush \/ Viewing!Drop
           \/ Viewing!Connect \/ Viewing!Close \/ UNCHANGED Viewing!viewVars
  BY <1>8, <1>9 DEF Viewing!Happens, Viewing!Act, Viewing!Flush, Viewing!Drop,
     Viewing!Connect, Viewing!Close, Viewing!viewVars
<1>10. CASE \/ \E a \in acts : Viewing!ActShown(a)
            \/ \E c \in clicks : Viewing!AnswerClick(c)
            \/ \E c \in clicks : Viewing!ShowClicked(c)
            \/ \E x \in Shown : Viewing!Click(x)
  BY <1>8, <1>10, AnswerClickOnly DEF Viewing!ActShown, Viewing!ShowClicked,
     Viewing!Click
<1> QED
  BY <1>4, <1>5, <1>7, <1>9, <1>10, ViewSteps

\* What the page shows of a ticket never gives way to something older: an answer
\* is at least as new as what was shown when it was asked for, and nothing newer
\* can be shown before it.
THEOREM OverviewOnlyAdvancesTheorem ==
  Viewing!ViewSpec => Viewing!OverviewOnlyAdvances
<1>1. Viewing!ViewInit => OverviewInv
  <2> SUFFICES ASSUME Viewing!ViewInit, NEW t \in Shown
               PROVE  /\ overview[t] <= Viewing!Version(t)
                      /\ reading.stage = "closed"
    BY DEF OverviewInv
  <2>1. looks[t] = << >> /\ overview[t] = 0 /\ reading.stage = "closed"
    BY DEF Viewing!ViewInit, Viewing!NotOpen
  <2> QED
    BY <2>1 DEF Viewing!Version
<1>2. ViewTyped /\ OverviewInv /\ [Viewing!ViewNext]_(Viewing!viewVars)
        => OverviewInv'
  BY OverviewStep
<1>3. ViewTyped /\ OverviewInv /\ [Viewing!ViewNext]_(Viewing!viewVars)
        => [\A t \in Shown : overview[t] <= overview'[t]]_(Viewing!viewVars)
  BY OverviewStep
<1>4. ViewTyped /\ [Viewing!ViewNext]_(Viewing!viewVars) => ViewTyped'
  BY ViewTypesKept
<1> QED
  BY <1>1, <1>2, <1>3, <1>4, ViewInitTyped, PTL
     DEF Viewing!ViewSpec, Viewing!OverviewOnlyAdvances
=============================================================================
