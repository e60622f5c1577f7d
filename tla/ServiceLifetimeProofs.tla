------------------------ MODULE ServiceLifetimeProofs ------------------------
(***************************************************************************)
(* Machine-checked proofs about contending services, for any number of     *)
(* them and any sequence of starts, failures, disposals and crashes.       *)
(***************************************************************************)
EXTENDS ServiceLifetimeProperties, TLAPS

(***************************************************************************)
(* What is left of a disposal is an end of DisposeOrder; a start that      *)
(* fails at the store has the last two steps to do.                        *)
(***************************************************************************)
AbortAhead ==
  {<<"disconnect", "withdraw", "abort", "settle", "unmark", "release">>,
   <<"withdraw", "abort", "settle", "unmark", "release">>,
   <<"abort", "settle", "unmark", "release">>}
SettleAhead == AbortAhead \union {<<"settle", "unmark", "release">>}
Plans == SettleAhead \union {<<"unmark", "release">>, <<"release">>, << >>}

Idle == {"new", "refused", "gone"}
Starting == {"locked", "unmarked", "marking", "owner"}
Open == {"listening", "serving"}
Stages == Idle \union Starting \union Open \union {"disposing"}

(***************************************************************************)
(* The inductive invariant: a service lives exactly while it holds the     *)
(* home, and works only where its disposal still has work to settle.       *)
(***************************************************************************)
ServiceInv(s) ==
  /\ stage[s] \notin Idle <=> holder = s
  /\ remaining[s] # << >> <=> stage[s] = "disposing"
  /\ s \in working => stage[s] \in Open \/ remaining[s] \in SettleAhead
  /\ stage[s] = "serving" => discovery = s
  /\ stage[s] \in {"new", "locked", "unmarked"} => marker # s

LifeTyped ==
  /\ stage \in [Services -> Stages]
  /\ remaining \in [Services -> Plans]
  /\ holder \in Services \union {NoService}

LifeInv == LifeTyped /\ \A s \in Services : ServiceInv(s)

-----------------------------------------------------------------------------
\* The steps of a disposal: it starts with the whole order, goes on with a tail,
\* settles before it lets go, and releases the home last.
LEMMA DisposeOrderIsPlan == DisposeOrder \in AbortAhead
BY DEF AbortAhead, DisposeOrder

LEMMA PlanSteps ==
  ASSUME NEW p \in Plans, p # << >>
  PROVE  /\ Tail(p) \in Plans
         /\ Len(p) = 1 <=> Head(p) = "release"
         /\ Tail(p) = << >> <=> Head(p) = "release"
         /\ p \in SettleAhead /\ Head(p) # "settle" => Tail(p) \in SettleAhead
<1>1. CASE p = <<"disconnect", "withdraw", "abort", "settle", "unmark", "release">>
  BY <1>1 DEF Plans, SettleAhead, AbortAhead
<1>2. CASE p = <<"withdraw", "abort", "settle", "unmark", "release">>
  BY <1>2 DEF Plans, SettleAhead, AbortAhead
<1>3. CASE p = <<"abort", "settle", "unmark", "release">>
  BY <1>3 DEF Plans, SettleAhead, AbortAhead
<1>4. CASE p = <<"settle", "unmark", "release">>
  BY <1>4 DEF Plans, SettleAhead, AbortAhead
<1>5. CASE p = <<"unmark", "release">>
  BY <1>5 DEF Plans, SettleAhead, AbortAhead
<1>6. CASE p = <<"release">>
  BY <1>6 DEF Plans, SettleAhead, AbortAhead
<1> QED
  BY <1>1, <1>2, <1>3, <1>4, <1>5, <1>6 DEF Plans, SettleAhead, AbortAhead

LEMMA WorkBeforeAbort ==
  ASSUME NEW p \in Plans, NEW k \in DOMAIN p, p[k] = "abort"
  PROVE  p \in SettleAhead
<1>1. p # <<"settle", "unmark", "release">>
  OBVIOUS
<1>2. p # <<"unmark", "release">> /\ p # <<"release">> /\ p # << >>
  OBVIOUS
<1> QED
  BY <1>1, <1>2 DEF Plans, SettleAhead

-----------------------------------------------------------------------------
\* Nobody works, holds or is announced at first.
LEMMA InitLifeInv == LifeInit => LifeInv
BY NoServiceAssumption
   DEF LifeInit, LifeInv, LifeTyped, ServiceInv, Stages, Idle, Open, Plans

\* A step of one service: the others keep what they hold and say.
LEMMA OneService ==
  ASSUME LifeInv, NEW s \in Services, NEW place \in Stages, NEW rest \in Plans,
         stage' = [stage EXCEPT ![s] = place],
         remaining' = [remaining EXCEPT ![s] = rest],
         holder' \in Services \union {NoService},
         \A o \in Services \ {s} :
           /\ holder' = o <=> holder = o
           /\ o \in working' <=> o \in working
           /\ stage[o] = "serving" => discovery' = discovery
           /\ marker' = o => marker = o,
         ServiceInv(s)'
  PROVE  LifeInv'
<1>1. LifeTyped'
  BY DEF LifeInv, LifeTyped
<1>2. ASSUME NEW o \in Services \ {s} PROVE ServiceInv(o)'
  <2>1. stage'[o] = stage[o] /\ remaining'[o] = remaining[o]
    BY DEF LifeInv, LifeTyped
  <2> QED
    BY <2>1 DEF LifeInv, ServiceInv
<1> QED
  BY <1>1, <1>2 DEF LifeInv

\* A start either moves on, gives the home back, or begins a disposal.
LEMMA StartKeeps ==
  ASSUME LifeInv, NEW s \in Services, Starts(s)
  PROVE  LifeInv'
<1> USE NoServiceAssumption
    DEF LifeInv, LifeTyped, ServiceInv, Enters, Stages, Idle, Starting, Open
<1>1. CASE Contend(s)
  BY <1>1 DEF Contend
<1>2. CASE CheckMarker(s)
  BY <1>2 DEF CheckMarker, Living
<1>3. CASE CreateMarker(s)
  BY <1>3 DEF CreateMarker
<1>4. CASE OpenStore(s)
  <2>1. <<"unmark", "release">> \in Plans /\ <<"unmark", "release">> # << >>
    BY DEF Plans
  <2>2. CASE Enters(s, "owner") /\ UNCHANGED remaining
    BY <1>4, <2>2 DEF OpenStore
  <2>3. ASSUME NEW rest \in Plans, rest # << >>, Disposes(s, rest)
        PROVE  LifeInv'
    <3>1. << >> \notin SettleAhead
      BY DEF SettleAhead, AbortAhead
    <3> QED
      BY <1>4, <2>3, <3>1 DEF OpenStore, Disposes
  <2> QED
    BY <1>4, <2>1, <2>2, <2>3 DEF OpenStore
<1>5. DisposeOrder \in SettleAhead /\ DisposeOrder \in Plans /\ DisposeOrder # << >>
  BY DisposeOrderIsPlan DEF Plans, SettleAhead, DisposeOrder
<1>6. CASE Listen(s)
  BY <1>5, <1>6 DEF Listen, Disposes
<1>7. CASE Announce(s)
  BY <1>5, <1>7 DEF Announce, Disposes
<1> QED
  BY <1>1, <1>2, <1>3, <1>4, <1>6, <1>7 DEF Starts

\* Work begins only before a disposal has aborted it.
LEMMA WorkKeeps ==
  ASSUME LifeInv, NEW s \in Services, WorkBegins(s) \/ WorkEnds(s)
  PROVE  LifeInv'
<1> USE DEF LifeInv, LifeTyped, ServiceInv
<1>1. CASE WorkBegins(s)
  <2>1. stage[s] \in Open \/ remaining[s] \in SettleAhead
    BY <1>1, WorkBeforeAbort DEF WorkBegins, Open
  <2> QED
    BY <1>1, <2>1 DEF WorkBegins
<1>2. CASE WorkEnds(s)
  BY <1>2 DEF WorkEnds
<1> QED
  BY <1>1, <1>2

\* The home is held up to the last step of a disposal, and settled before.
LEMMA DoesKeeps ==
  ASSUME LifeInv, NEW s \in Services, NEW step, Does(s, step),
         working' = working, step = "settle" => s \notin working,
         holder' = (IF step = "release" THEN NoService ELSE holder),
         discovery' \in {discovery, NoService},
         marker' \in {marker, NoService}
  PROVE  LifeInv'
<1> DEFINE rest == Tail(remaining[s])
           place == IF step = "release" THEN "gone" ELSE "disposing"
<1>1. /\ remaining[s] \in Plans /\ remaining[s] # << >>
      /\ stage[s] = "disposing" /\ holder = s
  BY DEF LifeInv, LifeTyped, ServiceInv, Does, Idle
<1>2. /\ rest \in Plans
      /\ rest = << >> <=> step = "release"
      /\ remaining[s] \in SettleAhead /\ step # "settle" => rest \in SettleAhead
      /\ Len(remaining[s]) = 1 <=> step = "release"
  BY <1>1, PlanSteps DEF Does
<1>3. << >> \notin SettleAhead
  BY DEF SettleAhead, AbortAhead
<1> HIDE DEF rest
<1>4. /\ stage' = [stage EXCEPT ![s] = place]
      /\ remaining' = [remaining EXCEPT ![s] = rest]
      /\ stage'[s] = place /\ remaining'[s] = rest
  BY <1>1, <1>2 DEF Does, rest, LifeInv, LifeTyped
<1>5. s \in working => rest \in SettleAhead
  BY <1>1, <1>2 DEF LifeInv, ServiceInv, Open
<1>6. ServiceInv(s)'
  BY <1>1, <1>2, <1>3, <1>4, <1>5, NoServiceAssumption DEF ServiceInv, Idle
<1>7. \A o \in Services \ {s} :
        /\ holder' = o <=> holder = o
        /\ stage[o] = "serving" => discovery' = discovery
        /\ marker' = o => marker = o
  BY <1>1, NoServiceAssumption DEF LifeInv, ServiceInv, Idle
<1> QED
  BY <1>1, <1>2, <1>4, <1>6, <1>7, OneService DEF Stages, Idle, LifeInv, LifeTyped

LEMMA DisposalKeeps ==
  ASSUME LifeInv, NEW s \in Services, Dispose(s) \/ DisposeStep(s)
  PROVE  LifeInv'
<1>1. CASE Dispose(s)
  <2>1. DisposeOrder \in SettleAhead /\ DisposeOrder \in Plans
        /\ DisposeOrder # << >>
    BY DisposeOrderIsPlan DEF Plans, SettleAhead, DisposeOrder
  <2> QED
    BY <1>1, <2>1 DEF Dispose, Disposes, Enters, LifeInv, LifeTyped, ServiceInv,
                      Stages, Idle, Open
<1>2. CASE Disconnect(s)
  BY <1>2, DoesKeeps DEF Disconnect
<1>3. CASE Withdraw(s)
  BY <1>3, DoesKeeps DEF Withdraw
<1>4. CASE AbortWork(s)
  BY <1>4, DoesKeeps DEF AbortWork
<1>5. CASE SettleWork(s)
  BY <1>5, DoesKeeps DEF SettleWork
<1>6. CASE Unmark(s)
  BY <1>6, DoesKeeps DEF Unmark
<1>7. CASE Release(s)
  BY <1>7, DoesKeeps DEF Release
<1> QED
  BY <1>1, <1>2, <1>3, <1>4, <1>5, <1>6, <1>7 DEF DisposeStep

\* A death ends what only the living have: the transaction and the work.
LEMMA DeathKeeps ==
  ASSUME LifeInv, NEW s \in Services, Die(s)
  PROVE  LifeInv'
BY NoServiceAssumption
   DEF LifeInv, LifeTyped, ServiceInv, Die, Living, Enters, Stages, Idle, Plans

LEMMA StutterKeeps == LifeInv /\ UNCHANGED lifeVars => LifeInv'
BY DEF LifeInv, LifeTyped, ServiceInv, lifeVars

LEMMA LifeStepInv == LifeInv /\ [LifeNext]_lifeVars => LifeInv'
BY StartKeeps, WorkKeeps, DisposalKeeps, DeathKeeps, StutterKeeps DEF LifeNext

-----------------------------------------------------------------------------
\* The inductive invariant holds in every reachable state.
THEOREM LifeInvariant == LifeSpec => []LifeInv
<1> QED
  BY InitLifeInv, LifeStepInv, PTL DEF LifeSpec

\* Only the service that holds the home has its store open or works.
THEOREM SoleOwnerTheorem == LifeSpec => []SoleOwner
<1>1. << >> \notin SettleAhead
  BY DEF SettleAhead, AbortAhead
<1>2. LifeInv => SoleOwner
  BY <1>1 DEF LifeInv, LifeTyped, ServiceInv, SoleOwner, Idle, Open
<1> QED
  BY <1>2, LifeInvariant, PTL

\* A service that serves is the one service.json names.
THEOREM DiscoveryTheorem == LifeSpec => []DiscoveryIsCurrent
<1>1. LifeInv => DiscoveryIsCurrent
  BY DEF LifeInv, ServiceInv, DiscoveryIsCurrent
<1> QED
  BY <1>1, LifeInvariant, PTL

\* A start is refused only while another service holds the home.
THEOREM RefusalTheorem == LifeSpec => RefusedForAnOwner
<1> DEFINE Refusal ==
  \A s \in Services : stage'[s] = "refused" /\ stage[s] # "refused"
                        => holder \in Services \ {s}
<1>1. LifeInv /\ LifeNext => Refusal
  <2> SUFFICES ASSUME LifeInv, LifeNext, NEW s \in Services,
                      stage'[s] = "refused", stage[s] # "refused"
               PROVE  holder \in Services \ {s}
    OBVIOUS
  <2> USE DEF LifeInv, LifeTyped, ServiceInv, Enters, Idle
  <2>1. PICK o \in Services :
          \/ Starts(o) \/ WorkBegins(o) \/ WorkEnds(o) \/ Dispose(o)
          \/ DisposeStep(o) \/ Die(o)
    BY DEF LifeNext
  <2>2. CASE Contend(o)
    BY <2>2, NoServiceAssumption DEF Contend
  <2>3. CASE CheckMarker(o)
    <3>1. o = s /\ marker \in Services /\ Living(marker)
      BY <2>3, NoServiceAssumption DEF CheckMarker
    <3> QED
      BY <2>3, <3>1 DEF CheckMarker, Living
  <2>4. CASE CreateMarker(o)
    BY <2>4 DEF CreateMarker
  <2>5. CASE OpenStore(o) \/ Listen(o) \/ Announce(o)
    BY <2>5 DEF OpenStore, Listen, Announce, Disposes
  <2>6. CASE WorkBegins(o) \/ WorkEnds(o) \/ Dispose(o) \/ Die(o)
    BY <2>6 DEF WorkBegins, WorkEnds, Dispose, Disposes, Die
  <2>7. CASE DisposeStep(o)
    BY <2>7 DEF DisposeStep, Disconnect, Withdraw, AbortWork, SettleWork,
                Unmark, Release, Does
  <2> QED
    BY <2>1, <2>2, <2>3, <2>4, <2>5, <2>6, <2>7 DEF Starts
<1>2. LifeInv /\ [LifeNext]_lifeVars => [Refusal]_lifeVars
  BY <1>1
<1> QED
  BY <1>2, LifeInvariant, PTL DEF LifeSpec, RefusedForAnOwner
=============================================================================
