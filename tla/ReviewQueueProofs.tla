-------------------------- MODULE ReviewQueueProofs --------------------------
(***************************************************************************)
(* Machine-checked proofs about the review coordinator, for any number of  *)
(* tickets, pools and entries, any capacity and any limits.                *)
(***************************************************************************)
EXTENDS ReviewQueueProperties, FiniteSetTheorems, SequenceTheorems,
        WellFoundedInduction, TLAPS

(***************************************************************************)
(* Part 1.  The inductive invariant.                                       *)
(***************************************************************************)
Owners == {By(kind) : kind \in OwnerKinds} \union {Reviewer(e) : e \in Nat}
TicketRecords ==
  [state : States, owner : Owners, live : BOOLEAN,
   interrupted : {"none", "execution", "verification"},
   revision : Nat, attempt : Nat, unchanged : BOOLEAN]
PoolRecords ==
  [state : {"absent", "enabled", "paused", "closed"}, limit : Nat,
   pending : Nat]
EntryRecords ==
  [kind : {"review", "run", "verify"}, ticket : Tickets, revision : Nat,
   attempt : Nat, pool : Pools \union {NoPool},
   state : {"queued", "running"} \union Settled, suspended : BOOLEAN,
   slotHeld : BOOLEAN, report : {"none", "conclusive", "inconclusive"}]
Stages == {"none", "starting", "runtime", "cleanup"}

QueueTypes ==
  /\ ticket \in [Tickets -> TicketRecords]
  /\ binding \in [Tickets -> Pools \union {NoPool}]
  /\ pools \in [Pools -> PoolRecords]
  /\ entries \in Seq(EntryRecords) /\ Len(entries) <= MaxEntries
  /\ reviewing \in [Runs -> [stage : Stages, abort : BOOLEAN]]
  /\ processes \subseteq Runs
  /\ recovering \in [Runs -> Nat]
  /\ pump \in {"idle", "queued", "pumping"}

\* What is true of one entry, whatever becomes of the others.
EntryInv(e) ==
  /\ entries[e].slotHeld <=> OwnedByReview(e)
  /\ entries[e].slotHeld => IsReview(e)
  /\ e \in processes => entries[e].slotHeld
  /\ InStage(e, "none") \/ entries[e].slotHeld
  /\ IsQueued(e) \/ InStage(e, "starting") \/ InStage(e, "runtime")
       => entries[e].report = "none"
  /\ IsQueued(e) => ~entries[e].slotHeld
  /\ recovering[e] = 0 \/ (InStage(e, "none") /\ ~IsQueued(e))
  /\ entries[e].revision <= ticket[entries[e].ticket].revision

\* A reviewer's ticket is the ticket of its run.
OwnerInv(t) ==
  LET run == ticket[t].owner.run
  IN ticket[t].owner.kind = "review" =>
       /\ run \in DOMAIN entries
       /\ entries[run].slotHeld /\ entries[run].ticket = t

\* A run number no entry has yet.
Unused(e) == InStage(e, "none") /\ e \notin processes /\ recovering[e] = 0

QueueInv ==
  /\ QueueTypes
  /\ \A e \in DOMAIN entries : EntryInv(e)
  /\ \A t \in Tickets : OwnerInv(t)
  /\ \A e \in Runs \ DOMAIN entries : Unused(e)
  /\ ReviewedStaysPut /\ CapacityShared /\ ReviewLimitHolds
  /\ ClosedPoolQuiet /\ NoLostWakeup /\ AcceptedOnReport

\* Nobody is no reviewer, and reviewers of different runs differ.
LEMMA OwnersDiffer ==
  /\ Nobody.kind = "none"
  /\ \A e : Reviewer(e).kind = "review" /\ Reviewer(e).run = e
  /\ \A kind : By(kind).kind = kind
  /\ \A e, f : Reviewer(e) = Reviewer(f) => e = f
  /\ \A kind \in OwnerKinds : kind # "review"
BY DEF Nobody, By, Reviewer, OwnerKinds

LEMMA RunsFinite ==
  ASSUME QueueTypes
  PROVE  /\ DOMAIN entries = 1 .. Len(entries) /\ Len(entries) \in Nat
         /\ DOMAIN entries \subseteq Runs /\ Runs \subseteq Nat
         /\ IsFiniteSet(Runs)
         /\ \A e \in DOMAIN entries : entries[e] \in EntryRecords
<1>1. entries \in Seq(EntryRecords) /\ Len(entries) <= MaxEntries
  BY DEF QueueTypes
<1>2. DOMAIN entries = 1 .. Len(entries) /\ Len(entries) \in Nat
  BY <1>1
<1>3. \A e \in DOMAIN entries : entries[e] \in EntryRecords
  BY <1>1
<1>4. IsFiniteSet(1 .. MaxEntries)
  BY QueueAssumption, FS_Interval
<1> QED
  BY <1>1, <1>2, <1>3, <1>4, QueueAssumption DEF Runs

(***************************************************************************)
(* Part 2.  Counting slots.                                                *)
(***************************************************************************)
LEMMA BusyCount ==
  /\ IsFiniteSet(Busy) /\ Cardinality(Busy) \in Nat
  /\ IsFiniteSet(Busy') /\ Cardinality(Busy') \in Nat
<1>1. Busy \in SUBSET Tickets /\ Busy' \in SUBSET Tickets
  BY DEF Busy
<1>2. IsFiniteSet(Busy) /\ IsFiniteSet(Busy')
  BY <1>1, QueueAssumption, FS_Subset
<1> QED
  BY <1>2, FS_CardinalityType

\* A step may take one slot if there is one.
LEMMA CapacityKept ==
  ASSUME CapacityShared, NEW t, Busy' \subseteq Busy \union {t},
         Busy' \subseteq Busy \/ HasCapacity
  PROVE  CapacityShared'
<1>1. CASE Busy' \subseteq Busy
  <2>1. Cardinality(Busy') <= Cardinality(Busy)
    BY <1>1, BusyCount, FS_Subset
  <2> QED
    BY <2>1, BusyCount, QueueAssumption DEF CapacityShared
<1>2. CASE HasCapacity
  <2>1. /\ IsFiniteSet(Busy \union {t})
        /\ Cardinality(Busy \union {t}) <= Cardinality(Busy) + 1
        /\ Cardinality(Busy \union {t}) \in Nat
    <3>1. IsFiniteSet(Busy) /\ Cardinality(Busy) \in Nat
      BY BusyCount
    <3>2. IsFiniteSet(Busy \union {t})
      BY <3>1, FS_AddElement
    <3>3. Cardinality(Busy \union {t}) \in
            {Cardinality(Busy), Cardinality(Busy) + 1}
      BY <3>1, FS_AddElement
    <3> QED
      BY <3>1, <3>2, <3>3
  <2>2. Cardinality(Busy') <= Cardinality(Busy \union {t})
    BY <2>1, FS_Subset
  <2> QED
    BY <1>2, <2>1, <2>2, BusyCount, QueueAssumption
       DEF CapacityShared, HasCapacity
<1> QED
  BY <1>1, <1>2

LEMMA OwnedCount ==
  ASSUME QueueTypes, NEW p
  PROVE  /\ IsFiniteSet(ReviewOwned(p)) /\ IsFiniteSet(ImplementationOwned(p))
         /\ \A kind : OwnedBy(p, kind) \in Nat
<1>1. ReviewOwned(p) \in SUBSET Runs
  BY RunsFinite DEF ReviewOwned
<1>2. ImplementationOwned(p) \in SUBSET Tickets
  BY DEF ImplementationOwned
<1>3. IsFiniteSet(ReviewOwned(p)) /\ IsFiniteSet(ImplementationOwned(p))
  BY <1>1, <1>2, RunsFinite, QueueAssumption, FS_Subset
<1> QED
  BY <1>3, FS_CardinalityType DEF OwnedBy

LEMMA OwnedCountNext ==
  ASSUME QueueTypes', NEW p
  PROVE  /\ IsFiniteSet(ReviewOwned(p)')
         /\ IsFiniteSet(ImplementationOwned(p)')
         /\ \A kind : OwnedBy(p, kind)' \in Nat
<1>0. DOMAIN entries' \subseteq 1 .. MaxEntries /\ IsFiniteSet(1 .. MaxEntries)
  <2>1. entries' \in Seq(EntryRecords) /\ Len(entries') <= MaxEntries
    BY DEF QueueTypes
  <2>2. DOMAIN entries' = 1 .. Len(entries') /\ Len(entries') \in Nat
    BY <2>1
  <2>3. IsFiniteSet(1 .. MaxEntries)
    BY QueueAssumption, FS_Interval
  <2> QED
    BY <2>1, <2>2, <2>3, QueueAssumption
<1>1. ReviewOwned(p)' \in SUBSET (1 .. MaxEntries)
  BY <1>0 DEF ReviewOwned
<1>2. ImplementationOwned(p)' \in SUBSET Tickets
  BY DEF ImplementationOwned
<1>3. IsFiniteSet(ReviewOwned(p)') /\ IsFiniteSet(ImplementationOwned(p)')
  BY <1>0, <1>1, <1>2, QueueAssumption, FS_Subset
<1> QED
  BY <1>3, FS_CardinalityType DEF OwnedBy

\* Limits hold as long as no review takes a slot.
LEMMA LimitKept ==
  ASSUME QueueTypes, ReviewLimitHolds, QueueTypes', UNCHANGED pools,
         \A p \in Pools : ReviewOwned(p)' \subseteq ReviewOwned(p)
  PROVE  ReviewLimitHolds'
<1> SUFFICES ASSUME NEW p \in Pools
             PROVE  Cardinality(ReviewOwned(p)') <= pools'[p].limit
  BY DEF ReviewLimitHolds
<1>1. IsFiniteSet(ReviewOwned(p)) /\ Cardinality(ReviewOwned(p)) \in Nat
  BY OwnedCount, FS_CardinalityType
<1>2. /\ Cardinality(ReviewOwned(p)') <= Cardinality(ReviewOwned(p))
      /\ IsFiniteSet(ReviewOwned(p)')
  BY <1>1, FS_Subset
<1>3. Cardinality(ReviewOwned(p)') \in Nat
  BY <1>2, FS_CardinalityType
<1> QED
  BY <1>1, <1>2, <1>3 DEF ReviewLimitHolds, QueueTypes, PoolRecords

\* Work that may start only gets less.
NoNewWork ==
  \A e \in DOMAIN entries' :
    e \in Executable' /\ IsCurrent(e)' => e \in Executable /\ IsCurrent(e)
LEMMA WakeKept ==
  ASSUME NoLostWakeup, \/ pump' # "idle"
                       \/ pump' = pump /\ NoNewWork /\ Busy \subseteq Busy'
  PROVE  NoLostWakeup'
<1>1. CASE pump' # "idle"
  BY <1>1 DEF NoLostWakeup
<1>2. CASE pump' = pump /\ NoNewWork /\ Busy \subseteq Busy'
  <2>1. Cardinality(Busy) <= Cardinality(Busy')
    BY <1>2, BusyCount, FS_Subset
  <2>2. HasCapacity' => HasCapacity
    BY <2>1, BusyCount, QueueAssumption DEF HasCapacity
  <2>3. \A e : e \in Startable' => e \in Executable' /\ e \in DOMAIN entries'
                                /\ HasCapacity'
    BY DEF Startable, Executable
  <2>4. \A e : e \in Executable /\ HasCapacity => e \in Startable
    BY DEF Startable
  <2> QED
    BY <1>2, <2>2, <2>3, <2>4 DEF NoLostWakeup, NoNewWork
<1> QED
  BY <1>1, <1>2

\* The queue of what may start depends on entries, pools and owned tickets.
LEMMA NoNewWorkIf ==
  ASSUME QueueTypes, QueueTypes', UNCHANGED pools,
         \A p \in Pools :
           /\ ReviewOwned(p) \subseteq ReviewOwned(p)'
           /\ ImplementationOwned(p) \subseteq ImplementationOwned(p)',
         \A e \in DOMAIN entries' :
           IsQueued(e)' /\ ~entries'[e].suspended /\ IsCurrent(e)' =>
             /\ e \in DOMAIN entries /\ IsQueued(e) /\ ~entries[e].suspended
             /\ IsCurrent(e)
             /\ PoolOf(e)' = PoolOf(e) /\ entries'[e].kind = entries[e].kind
             /\ Owned(entries[e].ticket) => Owned(entries[e].ticket)'
             /\ entries'[e].ticket = entries[e].ticket
  PROVE  NoNewWork
<1> SUFFICES ASSUME NEW e \in DOMAIN entries', e \in Executable', IsCurrent(e)'
             PROVE  e \in Executable /\ IsCurrent(e)
  BY DEF NoNewWork
<1>1. /\ IsQueued(e)' /\ ~entries'[e].suspended /\ ~Owned(entries[e].ticket)'
      /\ Eligible(PoolOf(e), entries[e].kind)'
  BY DEF Executable
<1>2. /\ e \in DOMAIN entries /\ IsQueued(e) /\ ~entries[e].suspended
      /\ IsCurrent(e)
      /\ PoolOf(e)' = PoolOf(e) /\ entries'[e].kind = entries[e].kind
      /\ ~Owned(entries[e].ticket)
  BY <1>1 DEF Owned
<1>3. Eligible(PoolOf(e), entries[e].kind)
  <2>1. PICK p : p = PoolOf(e)
    OBVIOUS
  <2>2. PICK kind : kind = entries[e].kind
    OBVIOUS
  <2>3. Eligible(p, kind)'
    BY <1>1, <1>2, <2>1, <2>2
       DEF Eligible, OwnedBy, ReviewOwned, ImplementationOwned
  <2>4. CASE p \in Pools
    <3>1. OwnedBy(p, kind) <= OwnedBy(p, kind)'
      BY <2>4, OwnedCountNext, FS_Subset DEF OwnedBy
    <3>2. /\ pools[p].state = "enabled" /\ pools[p].pending = 0
          /\ kind = "verify" \/ OwnedBy(p, kind)' < pools[p].limit
      BY <2>3, <2>4, PoolAssumption DEF Eligible
    <3>3. pools[p].limit \in Nat
      BY <2>4 DEF QueueTypes, PoolRecords
    <3>4. OwnedBy(p, kind) \in Nat /\ OwnedBy(p, kind)' \in Nat
      BY OwnedCount, OwnedCountNext
    <3>5. kind = "verify" \/ OwnedBy(p, kind) < pools[p].limit
      BY <3>1, <3>2, <3>3, <3>4
    <3> QED
      BY <2>1, <2>2, <3>2, <3>5 DEF Eligible
  <2>5. p \in Pools \union {NoPool}
    BY <1>2, <2>1, RunsFinite DEF PoolOf, QueueTypes, EntryRecords
  <2> QED
    BY <2>1, <2>2, <2>3, <2>4, <2>5 DEF Eligible
<1> QED
  BY <1>2, <1>3 DEF Executable

(***************************************************************************)
(* Part 3.  Frames: what an action that touches one part keeps.            *)
(***************************************************************************)
\* The parts that speak of entries and tickets together.
Links ==
  /\ QueueTypes
  /\ \A e \in DOMAIN entries : EntryInv(e)
  /\ \A t \in Tickets : OwnerInv(t)
  /\ \A e \in Runs \ DOMAIN entries : Unused(e)
  /\ ReviewedStaysPut /\ ClosedPoolQuiet /\ AcceptedOnReport

\* The report an acceptance of t rests on.
Grounds(e, t) ==
  /\ BoundReport(e, t) /\ entries[e].state = "completed"
  /\ ~entries[e].slotHeld /\ entries[e].report = "conclusive"

LEMMA AcceptedOnGrounds ==
  AcceptedOnReport <=>
    \A t \in Tickets :
      ticket[t].state = "accepted" /\ binding[t] # NoPool =>
        \E e \in DOMAIN entries : Grounds(e, t)
BY DEF AcceptedOnReport, Grounds, BoundReport, IsReview

\* An action on ticket t alone, with its new record r and binding p: a
\* reviewed ticket keeps its owner and its place, no other becomes a
\* reviewer's, nothing starts in a closed pool or before executable work, and
\* an acceptance has grounds.
TicketMove(t, r, p) ==
  /\ r \in TicketRecords /\ p \in Pools \union {NoPool}
  /\ ticket' = [ticket EXCEPT ![t] = r]
  /\ binding' = [binding EXCEPT ![t] = p]
  /\ UNCHANGED <<pools, entries, reviewing, processes, recovering>>
  /\ ticket[t].owner.kind = "review" =>
       /\ r.owner = ticket[t].owner
       /\ r.state = ticket[t].state /\ r.revision = ticket[t].revision
       /\ r.attempt = ticket[t].attempt
  /\ ticket[t].owner.kind # "review" => r.owner.kind # "review"
  /\ r.revision >= ticket[t].revision
  /\ r.owner.kind \in {"attempt", "verification"} =>
       \/ p = NoPool \/ pools[p].state # "closed"
       \/ p = binding[t] /\ r.owner.kind = ticket[t].owner.kind
  /\ r.state = "accepted" /\ p # NoPool =>
       \/ /\ ticket[t].state = "accepted" /\ p = binding[t]
          /\ r.revision = ticket[t].revision
          /\ r.attempt = ticket[t].attempt
       \/ \E e \in DOMAIN entries :
            /\ Grounds(e, t) /\ r.revision = ticket[t].revision
            /\ r.attempt = ticket[t].attempt
  /\ r.live \/ r.owner # Nobody => t \in Busy \/ HasCapacity
  /\ ~Owned(t) /\ r.owner.kind \in {"attempt", "verification", "review"} =>
       Executable = {}

\* ... that frees nothing queued work could wait for.
FreesNothing(t, r, p) ==
  /\ pump' = pump
  /\ Owned(t) =>
       /\ r.owner # Nobody /\ p = binding[t]
       /\ ticket[t].state = "running" => r.state = "running"
       /\ ticket[t].interrupted = "execution" => r.interrupted = "execution"
  /\ ticket[t].live => r.live \/ r.owner # Nobody
  /\ p = binding[t] \/ r.revision > ticket[t].revision

LEMMA TicketChange ==
  ASSUME QueueInv, NEW t \in Tickets, NEW r, NEW p, TicketMove(t, r, p),
         pump' \in {"idle", "queued", "pumping"}
  PROVE  Links' /\ ReviewLimitHolds'
<1> USE DEF TicketMove
<1>1. QueueTypes'
  BY DEF QueueInv, QueueTypes
<1>2. ASSUME NEW e \in DOMAIN entries
      PROVE  EntryInv(e)'
  <2>1. EntryInv(e) /\ entries[e].ticket \in Tickets
        /\ entries[e].revision \in Nat
    BY RunsFinite DEF QueueInv, EntryRecords
  <2>2. OwnedByReview(e)' <=> OwnedByReview(e)
    BY <2>1, OwnersDiffer DEF QueueInv, QueueTypes, OwnedByReview
  <2>3. ticket'[entries[e].ticket].revision >= ticket[entries[e].ticket].revision
    BY <2>1 DEF QueueInv, QueueTypes, TicketRecords
  <2>4. /\ ticket'[entries[e].ticket].revision \in Nat
        /\ ticket[entries[e].ticket].revision \in Nat
    BY <1>1, <2>1 DEF QueueInv, QueueTypes, TicketRecords
  <2>5. entries[e].revision <= ticket'[entries[e].ticket].revision
    BY <2>1, <2>3, <2>4 DEF EntryInv
  <2> QED
    BY <2>1, <2>2, <2>5 DEF EntryInv, IsReview, IsQueued, InStage
<1>3. ASSUME NEW u \in Tickets
      PROVE  OwnerInv(u)'
  BY DEF QueueInv, QueueTypes, OwnerInv
<1>4. \A e \in Runs \ DOMAIN entries : Unused(e)'
  BY DEF QueueInv, Unused, InStage
<1>5. ReviewedStaysPut'
  BY RunsFinite, OwnersDiffer
     DEF QueueInv, QueueTypes, EntryRecords, EntryInv, OwnedByReview, ReviewedStaysPut
<1>6. ClosedPoolQuiet'
  BY PoolAssumption
     DEF QueueInv, QueueTypes, ClosedPoolQuiet, IsReview, IsQueued
<1>7. AcceptedOnReport'
  <2> SUFFICES ASSUME NEW u \in Tickets, ticket'[u].state = "accepted",
                      binding'[u] # NoPool
               PROVE  \E e \in DOMAIN entries' : Grounds(e, u)'
    BY DEF AcceptedOnReport, Grounds, BoundReport, IsReview
  <2>1. PICK e \in DOMAIN entries : Grounds(e, u)
    BY AcceptedOnGrounds DEF QueueInv, QueueTypes
  <2>2. ticket'[u].revision = ticket[u].revision
        /\ ticket'[u].attempt = ticket[u].attempt
    BY DEF QueueInv, QueueTypes
  <2> QED
    BY <2>1, <2>2 DEF Grounds, BoundReport, IsReview
<1>8. ReviewLimitHolds'
  BY <1>1, LimitKept DEF QueueInv, ReviewOwned, IsReview, PoolOf
<1> QED
  BY <1>1, <1>2, <1>3, <1>4, <1>5, <1>6, <1>7, <1>8 DEF Links, Runs

\* An action on entry e alone, with its new value x and its body's value v,
\* that owns, starts and releases nothing.
EntryMove(e, x, v) ==
  /\ x \in EntryRecords /\ v \in [stage : Stages, abort : BOOLEAN]
  /\ entries' = [entries EXCEPT ![e] = x]
  /\ reviewing' = [reviewing EXCEPT ![e] = v]
  /\ UNCHANGED <<ticket, binding, pools, processes, recovering>>
  /\ x.kind = entries[e].kind /\ x.ticket = entries[e].ticket
  /\ x.revision = entries[e].revision /\ x.attempt = entries[e].attempt
  /\ x.pool = entries[e].pool /\ x.slotHeld = entries[e].slotHeld
  /\ x.state # "queued" /\ (v.stage = "none" \/ x.slotHeld)
  /\ v.stage = "none" \/ ~InStage(e, "none")
  /\ v.stage \in {"starting", "runtime"} => x.report = "none"
  /\ entries[e].slotHeld \/ IsQueued(e)

LEMMA EntryChange ==
  ASSUME QueueInv, NEW e \in DOMAIN entries, NEW x, NEW v, EntryMove(e, x, v),
         pump' \in {"idle", "queued", "pumping"}
  PROVE  Links' /\ ReviewLimitHolds'
<1> USE DEF EntryMove
<1>0. DOMAIN entries' = DOMAIN entries
  BY DEF QueueInv, QueueTypes
<1>1. QueueTypes'
  <2>1. entries \in Seq(EntryRecords) /\ e \in 1 .. Len(entries)
    BY DEF QueueInv, QueueTypes
  <2>2. entries' \in Seq(EntryRecords) /\ Len(entries') = Len(entries)
    BY <2>1, ExceptSeq
  <2> QED
    BY <2>2 DEF QueueInv, QueueTypes
<1>2. ASSUME NEW f \in DOMAIN entries
      PROVE  EntryInv(f)'
  BY RunsFinite
     DEF QueueInv, QueueTypes, EntryInv, OwnedByReview, IsReview, IsQueued, InStage
<1>3. ASSUME NEW u \in Tickets
      PROVE  OwnerInv(u)'
  BY <1>0 DEF QueueInv, QueueTypes, OwnerInv
<1>4. \A f \in Runs \ DOMAIN entries : Unused(f)'
  BY DEF QueueInv, QueueTypes, Unused, InStage
<1>5. ReviewedStaysPut'
  BY <1>0 DEF QueueInv, QueueTypes, ReviewedStaysPut
<1>6. ClosedPoolQuiet'
  BY <1>0 DEF QueueInv, QueueTypes, ClosedPoolQuiet, IsReview, IsQueued
<1>7. AcceptedOnReport'
  <2> SUFFICES ASSUME NEW u \in Tickets, ticket[u].state = "accepted",
                      binding[u] # NoPool
               PROVE  \E f \in DOMAIN entries' : Grounds(f, u)'
    BY DEF AcceptedOnReport, Grounds, BoundReport, IsReview
  <2>1. PICK f \in DOMAIN entries : Grounds(f, u)
    BY AcceptedOnGrounds DEF QueueInv, QueueTypes
  <2>2. f # e
    BY <2>1 DEF Grounds, IsQueued
  <2>3. entries'[f] = entries[f]
    BY <2>2 DEF QueueInv, QueueTypes
  <2> QED
    BY <1>0, <2>1, <2>3 DEF Grounds, BoundReport, IsReview
<1>8. ReviewLimitHolds'
  BY <1>0, <1>1, LimitKept
     DEF QueueInv, QueueTypes, ReviewOwned, IsReview, PoolOf
<1> QED
  BY <1>0, <1>1, <1>2, <1>3, <1>4, <1>5, <1>6, <1>7, <1>8 DEF Links, Runs

\* A new request x at the end of the queue.
EntryAppended(x) ==
  /\ x \in EntryRecords /\ entries' = Append(entries, x)
  /\ Len(entries) < MaxEntries
  /\ UNCHANGED <<ticket, binding, pools, reviewing, processes, recovering>>
  /\ pump' = "queued" /\ x.state = "queued" /\ ~x.slotHeld
  /\ x.report = "none" /\ x.revision = ticket[x.ticket].revision
  /\ x.kind = "review" =>
       \A p \in Pools : x.pool = p => pools[p].state # "closed"

LEMMA EntryAdded ==
  ASSUME QueueInv, NEW x, EntryAppended(x)
  PROVE  Links' /\ ReviewLimitHolds'
<1> USE DEF EntryAppended
<1>n. PICK n : n = Len(entries) + 1
  OBVIOUS
<1>0. /\ entries \in Seq(EntryRecords) /\ Len(entries) \in Nat
      /\ DOMAIN entries = 1 .. Len(entries)
      /\ entries' \in Seq(EntryRecords) /\ Len(entries') = n
      /\ DOMAIN entries' = 1 .. n
      /\ entries'[n] = x /\ \A f \in DOMAIN entries : entries'[f] = entries[f]
      /\ n \in Runs /\ n \notin DOMAIN entries
      /\ DOMAIN entries' = DOMAIN entries \union {n}
  BY <1>n, QueueAssumption DEF QueueInv, QueueTypes, Runs
<1>1. QueueTypes'
  BY <1>n, <1>0, QueueAssumption DEF QueueInv, QueueTypes
<1>2. ASSUME NEW f \in DOMAIN entries
      PROVE  EntryInv(f)'
  BY <1>0 DEF QueueInv, EntryInv, OwnedByReview, IsReview, IsQueued, InStage
<1>3. EntryInv(n)'
  <2>1. InStage(n, "none") /\ n \notin processes /\ recovering[n] = 0
    BY <1>0 DEF QueueInv, Unused
  <2>2. x.ticket \in Tickets /\ x.revision \in Nat
    BY DEF EntryRecords
  <2>3. ticket[x.ticket].owner # Reviewer(n)
    BY <1>0, <2>2, OwnersDiffer DEF QueueInv, OwnerInv
  <2> QED
    BY <1>0, <2>1, <2>2, <2>3
       DEF EntryInv, OwnedByReview, IsReview, IsQueued, InStage
<1>4. ASSUME NEW u \in Tickets
      PROVE  OwnerInv(u)'
  BY <1>0 DEF QueueInv, OwnerInv
<1>5. \A f \in Runs \ DOMAIN entries' : Unused(f)'
  BY <1>0 DEF QueueInv, Unused, InStage
<1>6. ReviewedStaysPut'
  BY <1>0 DEF QueueInv, ReviewedStaysPut
<1>7. ClosedPoolQuiet'
  BY <1>0 DEF QueueInv, ClosedPoolQuiet, IsReview, IsQueued
<1>8. AcceptedOnReport'
  <2> SUFFICES ASSUME NEW u \in Tickets, ticket[u].state = "accepted",
                      binding[u] # NoPool
               PROVE  \E f \in DOMAIN entries' : Grounds(f, u)'
    BY DEF AcceptedOnReport, Grounds, BoundReport, IsReview
  <2>1. PICK f \in DOMAIN entries : Grounds(f, u)
    BY AcceptedOnGrounds DEF QueueInv, QueueTypes
  <2> QED
    BY <1>0, <2>1 DEF Grounds, BoundReport, IsReview
<1>9. ReviewLimitHolds'
  <2>1. \A p \in Pools : ReviewOwned(p)' \subseteq ReviewOwned(p)
    BY <1>0 DEF ReviewOwned, IsReview, PoolOf
  <2> QED
    BY <1>1, <2>1, LimitKept DEF QueueInv
<1> QED
  BY <1>0, <1>1, <1>2, <1>3, <1>4, <1>5, <1>6, <1>7, <1>8, <1>9
     DEF Links, Runs

\* What the two action properties say of one step.
SettledStep ==
  \A e \in DOMAIN entries :
    LET old == entries[e]
        new == entries'[e]
    IN /\ old.state # "queued" => new.state # "queued"
       /\ old.state # "queued" /\ ~old.slotHeld =>
            new.state = old.state /\ ~new.slotHeld
       /\ old.report # "none" => new.report = old.report
OrderStep ==
  \A t \in Tickets :
    /\ ~Owned(t)
    /\ ticket'[t].owner.kind \in {"attempt", "verification", "review"}
    => \/ Executable = {}
       \/ \E e \in Executable :
            /\ entries[e].ticket = t
            /\ entries'[e].state \in {"running", "started"}
            /\ \A f \in Executable : e <= f
GoodStep == QueueInv' /\ SettledStep /\ OrderStep

LEMMA GoodStepIf ==
  ASSUME Links', ReviewLimitHolds', CapacityShared', NoLostWakeup',
         SettledStep, OrderStep
  PROVE  GoodStep
BY DEF GoodStep, QueueInv, Links

LEMMA EntriesStay ==
  ASSUME UNCHANGED entries
  PROVE  SettledStep
BY DEF SettledStep

\* A ticket that was unowned is no reviewer's and in nobody's count.
LEMMA UnownedFacts ==
  ASSUME QueueInv, NEW t \in Tickets
  PROVE  /\ ticket[t] \in TicketRecords /\ binding[t] \in Pools \union {NoPool}
         /\ ~Owned(t) => ticket[t].owner.kind = "none"
         /\ ticket[t].owner.kind = "none" => ~Owned(t)
BY OwnersDiffer
   DEF QueueInv, QueueTypes, Owned, TicketRecords, Owners, Nobody, By, Reviewer

LEMMA TicketWake ==
  ASSUME QueueInv, QueueTypes', NEW t \in Tickets, NEW r, NEW p,
         TicketMove(t, r, p), FreesNothing(t, r, p)
  PROVE  NoLostWakeup'
<1> USE DEF TicketMove, FreesNothing
<1>1. Busy \subseteq Busy'
  BY DEF Busy, Owned, QueueInv, QueueTypes
<1>2. \A u \in Tickets : Owned(u) => Owned(u)'
  BY DEF Owned, QueueInv, QueueTypes
<1>3. \A q \in Pools : /\ ReviewOwned(q) \subseteq ReviewOwned(q)'
                       /\ ImplementationOwned(q) \subseteq ImplementationOwned(q)'
  BY <1>2
     DEF ReviewOwned, ImplementationOwned, IsReview, PoolOf, QueueInv,
         QueueTypes, Owned
<1>4. ASSUME NEW e \in DOMAIN entries, IsCurrent(e)'
      PROVE  IsCurrent(e) /\ PoolOf(e)' = PoolOf(e)
  <2>1. entries[e] \in EntryRecords
    BY RunsFinite DEF QueueInv
  <2>2. CASE entries[e].ticket # t
    BY <1>4, <2>1, <2>2
       DEF IsCurrent, PoolOf, IsReview, QueueInv, QueueTypes, EntryRecords
  <2>3. CASE entries[e].ticket = t
    <3>1. entries[e].revision <= ticket[t].revision
      BY <2>3 DEF QueueInv, EntryInv
    <3>2. entries[e].revision = r.revision
      BY <1>4, <2>3 DEF IsCurrent, QueueInv, QueueTypes
    <3>3. /\ entries[e].revision \in Nat /\ ticket[t].revision \in Nat
          /\ r.revision \in Nat
      BY <2>1, UnownedFacts DEF EntryRecords, TicketRecords
    <3>4. r.revision = ticket[t].revision /\ p = binding[t]
      BY <3>1, <3>2, <3>3
    <3> QED
      BY <2>3, <3>2, <3>4
         DEF IsCurrent, PoolOf, IsReview, QueueInv, QueueTypes
  <2> QED
    BY <2>2, <2>3
<1>5. NoNewWork
  BY <1>2, <1>3, <1>4, RunsFinite, NoNewWorkIf
     DEF QueueInv, IsQueued, EntryRecords
<1> QED
  BY <1>1, <1>5, WakeKept DEF QueueInv

LEMMA TicketStepGood ==
  ASSUME QueueInv, NEW t \in Tickets, NEW r, NEW p, TicketMove(t, r, p),
         pump' = "queued" \/ FreesNothing(t, r, p)
  PROVE  GoodStep
<1>1. pump' \in {"idle", "queued", "pumping"}
  BY DEF FreesNothing, QueueInv, QueueTypes
<1>2. Links' /\ ReviewLimitHolds'
  BY <1>1, TicketChange
<1>3. CapacityShared'
  <2>1. Busy' \subseteq Busy \union {t}
    BY DEF TicketMove, Busy, Owned, QueueInv, QueueTypes
  <2>2. Busy' \subseteq Busy \/ HasCapacity
    BY DEF TicketMove, Busy, Owned, QueueInv, QueueTypes
  <2> QED
    BY <2>1, <2>2, CapacityKept DEF QueueInv
<1>4. NoLostWakeup'
  <2>1. CASE pump' = "queued"
    BY <2>1, WakeKept DEF QueueInv
  <2>2. CASE FreesNothing(t, r, p)
    BY <1>2, <2>2, TicketWake DEF Links
  <2> QED
    BY <2>1, <2>2
<1>5. OrderStep
  BY UnownedFacts DEF OrderStep, TicketMove, QueueInv, QueueTypes
<1>6. SettledStep
  BY EntriesStay DEF TicketMove
<1> QED
  BY <1>2, <1>3, <1>4, <1>5, <1>6, GoodStepIf

(***************************************************************************)
(* Part 4.  One lemma per action of a ticket.                              *)
(***************************************************************************)
\* What the operators of TicketView make of a record.
LEMMA OwnersOf ==
  /\ Nobody \in Owners /\ \A kind \in OwnerKinds : By(kind) \in Owners
  /\ \A e \in Nat : Reviewer(e) \in Owners
  /\ \A kind \in OwnerKinds : By(kind) = Nobody <=> kind = "none"
BY DEF Owners, Nobody, By, OwnerKinds, Reviewer

LEMMA ReservedRecord ==
  ASSUME NEW r \in TicketRecords, NEW state \in States
  PROVE  /\ Reserved(r, state) \in TicketRecords
         /\ Reserved(r, state).owner = r.owner
         /\ Reserved(r, state).live = r.live
         /\ Reserved(r, state).state = state
         /\ Reserved(r, state).revision = r.revision + 1
         /\ r.revision \in Nat
<1>1. r.revision \in Nat /\ r.revision + 1 \in Nat
  BY DEF TicketRecords
<1> QED
  BY <1>1 DEF Reserved, TicketRecords

LEMMA StartedRecords ==
  ASSUME NEW r \in TicketRecords
  PROVE  /\ RunStarted(r) \in TicketRecords
         /\ RunStarted(r).owner = By("attempt")
         /\ RunStarted(r).state = "running"
         /\ RunStarted(r).revision = r.revision
         /\ VerifyStarted(r) \in TicketRecords
         /\ VerifyStarted(r).owner = By("verification")
         /\ VerifyStarted(r).state = r.state
         /\ VerifyStarted(r).revision = r.revision
<1>1. /\ By("attempt") \in Owners /\ By("verification") \in Owners
      /\ r.attempt + 1 \in Nat
  BY OwnersOf DEF OwnerKinds, TicketRecords
<1> QED
  BY <1>1 DEF RunStarted, VerifyStarted, TicketRecords, States

LEMMA PrepareStep ==
  ASSUME QueueInv, NEW t \in Tickets, NEW p \in Pools \union {NoPool},
         Prepare(t, p)
  PROVE  GoodStep
<1>1. PICK state \in {"ready", "stopped"} :
        ticket' = [ticket EXCEPT ![t] = Reserved(ticket[t], state)]
  BY DEF Prepare, PrepareTicket, Set
<1>2. PICK r : r = Reserved(ticket[t], state)
  OBVIOUS
<1>3. ticket[t] \in TicketRecords /\ ~Owned(t) /\ ticket[t].owner.kind = "none"
  BY UnownedFacts DEF Prepare, PrepareTicket
<1>4. /\ r \in TicketRecords /\ r.owner = ticket[t].owner
      /\ r.live = ticket[t].live /\ r.state = state
      /\ r.revision > ticket[t].revision /\ r.revision >= ticket[t].revision
  BY <1>2, <1>3, ReservedRecord DEF States
<1>5. TicketMove(t, r, p)
  BY <1>1, <1>2, <1>3, <1>4
     DEF TicketMove, Prepare, Others, memory, Owned, Busy
<1>6. FreesNothing(t, r, p)
  BY <1>3, <1>4 DEF FreesNothing, Prepare
<1> QED
  BY <1>5, <1>6, TicketStepGood

\* The binding stays: the actions below are moves with p = binding[t].
LEMMA BindingStays ==
  ASSUME QueueInv, NEW t \in Tickets, UNCHANGED binding
  PROVE  /\ binding' = [binding EXCEPT ![t] = binding[t]]
         /\ binding[t] \in Pools \union {NoPool}
BY DEF QueueInv, QueueTypes

LEMMA PrepareAgainStep ==
  ASSUME QueueInv, NEW t \in Tickets, PrepareAgain(t)
  PROVE  GoodStep
<1>1. PICK state \in {"ready", "stopped"} :
        ticket' = [ticket EXCEPT ![t] = [ticket[t] EXCEPT !.state = state]]
  BY DEF PrepareAgain, PrepareTicketAgain, Set
<1>2. PICK r : r = [ticket[t] EXCEPT !.state = state]
  OBVIOUS
<1>3. ticket[t] \in TicketRecords /\ ~Owned(t) /\ ticket[t].owner.kind = "none"
  BY UnownedFacts DEF PrepareAgain, PrepareTicketAgain
<1>4. /\ r \in TicketRecords /\ r.owner = ticket[t].owner
      /\ r.live = ticket[t].live /\ r.state = state
      /\ r.revision = ticket[t].revision /\ r.revision >= ticket[t].revision
  BY <1>2, <1>3 DEF TicketRecords, States
<1>5. TicketMove(t, r, binding[t])
  BY <1>1, <1>2, <1>3, <1>4, BindingStays
     DEF TicketMove, PrepareAgain, Others, memory, Owned, Busy
<1>6. FreesNothing(t, r, binding[t])
  BY <1>3, <1>4 DEF FreesNothing, PrepareAgain
<1> QED
  BY <1>5, <1>6, TicketStepGood

\* A pool that admits is not closed.
LEMMA EligibleIsOpen ==
  ASSUME NEW p, NEW kind, Eligible(p, kind)
  PROVE  p = NoPool \/ pools[p].state # "closed"
BY DEF Eligible

LEMMA DirectStep ==
  ASSUME QueueInv, NEW t \in Tickets, DirectRun(t) \/ DirectVerify(t)
  PROVE  GoodStep
<1>0. /\ ticket[t] \in TicketRecords /\ ~Owned(t)
      /\ ticket[t].owner.kind = "none" /\ HasCapacity /\ Executable = {}
      /\ binding[t] = NoPool \/ pools[binding[t]].state # "closed"
  BY UnownedFacts, EligibleIsOpen
     DEF DirectRun, DirectVerify, RunTicket, VerifyTicket, CanRun, CanVerify,
         MayGoDirectly
<1>1. PICK r : /\ ticket' = [ticket EXCEPT ![t] = r]
               /\ \/ r = RunStarted(ticket[t])
                  \/ r = VerifyStarted(ticket[t]) /\ CanVerify(t)
  BY DEF DirectRun, DirectVerify, RunTicket, VerifyTicket, Set
<1>2. /\ r \in TicketRecords
      /\ r.owner = By("attempt") \/ r.owner = By("verification")
      /\ r.revision = ticket[t].revision /\ r.revision \in Nat
      /\ r.state # "accepted"
  BY <1>0, <1>1, StartedRecords DEF TicketRecords, CanVerify
<1>3. /\ r.owner.kind \notin {"review", "none"} /\ r.owner # Nobody
      /\ r.revision >= ticket[t].revision
  BY <1>2, OwnersDiffer
<1>4. TicketMove(t, r, binding[t])
  BY <1>0, <1>1, <1>2, <1>3, BindingStays
     DEF TicketMove, DirectRun, DirectVerify, Others, memory
<1>5. FreesNothing(t, r, binding[t])
  BY <1>0, <1>3 DEF FreesNothing, DirectRun, DirectVerify
<1> QED
  BY <1>4, <1>5, TicketStepGood


LEMMA ReleasedRecord ==
  ASSUME NEW r \in TicketRecords, NEW clean \in BOOLEAN
  PROVE  /\ Released(r, clean) \in TicketRecords /\ ~Released(r, clean).live
         /\ \/ Released(r, clean).owner = Nobody
            \/ Released(r, clean).owner = r.owner
         /\ Released(r, clean).state = r.state
         /\ Released(r, clean).revision = r.revision
         /\ Released(r, clean).attempt = r.attempt
<1>1. Nobody \in Owners
  BY OwnersOf
<1> QED
  BY <1>1 DEF Released, TicketRecords

\* The record of a ticket whose operation has just ended.
EndedAs(t, r) ==
  /\ r \in TicketRecords /\ ticket' = [ticket EXCEPT ![t] = r]
  /\ \/ r.owner = Nobody \/ r.owner = ticket[t].owner
     \/ r.owner = By("uncertain")
  /\ ~r.live /\ r.revision = ticket[t].revision
  /\ r.attempt = ticket[t].attempt
  /\ r.state = "accepted" => ticket[t].state = "accepted"

LEMMA OperationEndsRecord ==
  ASSUME QueueInv, NEW t \in Tickets, OperationEnds(t)
  PROVE  \E r : EndedAs(t, r)
<1>1. ticket[t] \in TicketRecords
  BY UnownedFacts
<1>2. ASSUME NEW clean \in BOOLEAN, NEW x,
             x = Released(ticket[t], clean),
             NEW state \in States \ {"accepted"},
             NEW unchanged \in BOOLEAN,
             NEW interrupted \in {"none", "execution", "verification"},
             NEW r, r \in {[x EXCEPT !.state = state, !.unchanged = unchanged],
                           [x EXCEPT !.state = state],
                           [x EXCEPT !.state = state,
                                     !.interrupted = interrupted]},
             ticket' = [ticket EXCEPT ![t] = r]
      PROVE  EndedAs(t, r)
  <2>1. /\ x \in TicketRecords /\ ~x.live
        /\ x.owner = Nobody \/ x.owner = ticket[t].owner
        /\ x.revision = ticket[t].revision /\ x.attempt = ticket[t].attempt
    BY <1>1, <1>2, ReleasedRecord
  <2>2. /\ r \in TicketRecords /\ r.owner = x.owner /\ r.live = x.live
        /\ r.revision = x.revision /\ r.attempt = x.attempt
        /\ r.state = state
    BY <1>2, <2>1 DEF TicketRecords
  <2> QED
    BY <1>2, <2>1, <2>2 DEF EndedAs
<1>3. CASE RunTicketEnds(t)
  <2>1. CASE Set(t, [Released(ticket[t], TRUE) EXCEPT
                       !.state = "awaiting_review", !.unchanged = TRUE])
    BY <1>2, <2>1 DEF Set, States
  <2>2. CASE \E clean, unchanged \in BOOLEAN :
               Set(t, [Released(ticket[t], clean) EXCEPT
                         !.state = "stopped", !.unchanged = unchanged])
    <3>1. PICK clean \in BOOLEAN, unchanged \in BOOLEAN :
            Set(t, [Released(ticket[t], clean) EXCEPT
                      !.state = "stopped", !.unchanged = unchanged])
      BY <2>2
    <3>2. PICK x : x = Released(ticket[t], clean)
      OBVIOUS
    <3>3. PICK r : r = [x EXCEPT !.state = "stopped", !.unchanged = unchanged]
      OBVIOUS
    <3>4. ticket' = [ticket EXCEPT ![t] = r]
      BY <3>1, <3>2, <3>3 DEF Set
    <3> QED
      BY <1>2, <3>2, <3>3, <3>4 DEF States
  <2> QED
    BY <1>3, <2>1, <2>2 DEF RunTicketEnds
<1>4. CASE VerifyTicketEnds(t)
  <2>1. CASE Set(t, [Released(ticket[t], TRUE) EXCEPT
                       !.state = IF ticket[t].unchanged THEN @ ELSE "stopped"])
    <3>1. PICK x : x = Released(ticket[t], TRUE)
      OBVIOUS
    <3>2. PICK r : r = [x EXCEPT !.state = IF ticket[t].unchanged THEN x.state
                                                              ELSE "stopped"]
      OBVIOUS
    <3>3. /\ x \in TicketRecords /\ ~x.live /\ x.state = ticket[t].state
          /\ x.owner = Nobody \/ x.owner = ticket[t].owner
          /\ x.revision = ticket[t].revision /\ x.attempt = ticket[t].attempt
      BY <1>1, <3>1, ReleasedRecord
    <3>4. /\ r \in TicketRecords /\ r.owner = x.owner /\ r.live = x.live
          /\ r.revision = x.revision /\ r.attempt = x.attempt
          /\ r.state = x.state \/ r.state = "stopped"
      BY <3>2, <3>3 DEF TicketRecords, States
    <3>5. ticket' = [ticket EXCEPT ![t] = r]
      BY <2>1, <3>1, <3>2 DEF Set
    <3> QED
      BY <3>3, <3>4, <3>5 DEF EndedAs
  <2>2. CASE Set(t, [Released(ticket[t], FALSE) EXCEPT
                       !.state = "stopped", !.interrupted = "verification"])
    BY <1>2, <2>2 DEF Set, States
  <2> QED
    BY <1>4, <2>1, <2>2 DEF VerifyTicketEnds
<1>5. CASE RecoverTicketEnds(t)
  <2>1. CASE Set(t, [ticket[t] EXCEPT !.owner = By("uncertain"),
                                      !.live = FALSE])
    <3>1. PICK r : r = [ticket[t] EXCEPT !.owner = By("uncertain"),
                                         !.live = FALSE]
      OBVIOUS
    <3>2. By("uncertain") \in Owners
      BY OwnersOf DEF OwnerKinds
    <3>3. /\ r \in TicketRecords /\ r.owner = By("uncertain") /\ ~r.live
          /\ r.revision = ticket[t].revision /\ r.attempt = ticket[t].attempt
          /\ r.state = ticket[t].state
      BY <1>1, <3>1, <3>2 DEF TicketRecords
    <3> QED
      BY <2>1, <3>1, <3>3 DEF Set, EndedAs
  <2>2. CASE \E state \in {"ready", "stopped", "awaiting_review"} :
               Set(t, [Released(ticket[t], TRUE) EXCEPT
                         !.state = state, !.interrupted = "none"])
    BY <1>2, <2>2 DEF Set, States
  <2> QED
    BY <1>5, <2>1, <2>2 DEF RecoverTicketEnds
<1> QED
  BY <1>3, <1>4, <1>5 DEF OperationEnds

LEMMA OperationEndsStep ==
  ASSUME QueueInv, NEW t \in Tickets, OperationEnds(t)
  PROVE  GoodStep
<1>1. PICK r : EndedAs(t, r)
  BY OperationEndsRecord
<1>2. /\ ticket[t] \in TicketRecords /\ ticket[t].live
      /\ ticket[t].owner.kind \in {"attempt", "verification", "recovery"}
      /\ Owned(t)
  BY UnownedFacts, OwnersDiffer
     DEF OperationEnds, RunTicketEnds, VerifyTicketEnds, RecoverTicketEnds,
         LiveAs, Owned
<1>3. TicketMove(t, r, binding[t])
  <2>1. r.revision >= ticket[t].revision
    BY <1>1, <1>2 DEF EndedAs, TicketRecords
  <2>2. /\ r.owner.kind # "review" /\ ~r.live /\ t \in Busy
        /\ r.owner.kind \in {"attempt", "verification"} =>
             r.owner.kind = ticket[t].owner.kind
    BY <1>1, <1>2, OwnersDiffer DEF EndedAs, Busy
  <2>3. /\ UNCHANGED <<pools, entries, reviewing, processes, recovering>>
        /\ binding' = [binding EXCEPT ![t] = binding[t]]
        /\ binding[t] \in Pools \union {NoPool}
    BY BindingStays DEF OperationEnds, Others, memory
  <2> QED
    BY <1>1, <1>2, <2>1, <2>2, <2>3 DEF TicketMove, EndedAs
<1> QED
  BY <1>3, TicketStepGood DEF OperationEnds, Kick

\* A reviewer's ticket is one the coordinator says its reviews own.
LEMMA ReviewersOwn ==
  ASSUME QueueInv, NEW t \in Tickets
  PROVE  ticket[t].owner.kind = "review" <=> OwnsTicket(t)
<1>1. CASE ticket[t].owner.kind = "review"
  <2>1. PICK e : e = ticket[t].owner.run
    OBVIOUS
  <2>2. /\ e \in DOMAIN entries /\ entries[e].slotHeld
        /\ entries[e].ticket = t
    BY <1>1, <2>1 DEF QueueInv, OwnerInv
  <2>3. ticket[t].owner = Reviewer(e)
    BY <2>2 DEF QueueInv, EntryInv, OwnedByReview
  <2> QED
    BY <1>1, <2>2, <2>3 DEF OwnsTicket
<1> QED
  BY <1>1, OwnersDiffer DEF OwnsTicket

LEMMA RecoverStep ==
  ASSUME QueueInv, NEW t \in Tickets, Recover(t)
  PROVE  GoodStep
<1>1. PICK r : r = [ticket[t] EXCEPT !.owner = By("recovery"), !.live = TRUE]
  OBVIOUS
<1>2. /\ ticket[t] \in TicketRecords /\ ticket[t].owner.kind # "review"
      /\ ticket' = [ticket EXCEPT ![t] = r]
      /\ ticket[t].state # "accepted"
      /\ Owned(t) \/ HasCapacity
  BY <1>1, UnownedFacts, ReviewersOwn DEF Recover, RecoverTicket, Set
<1>3. By("recovery") \in Owners
  BY OwnersOf DEF OwnerKinds
<1>4. /\ r \in TicketRecords /\ r.owner = By("recovery") /\ r.live
      /\ r.revision = ticket[t].revision /\ r.attempt = ticket[t].attempt
      /\ r.state = ticket[t].state /\ r.interrupted = ticket[t].interrupted
      /\ r.revision \in Nat
  BY <1>1, <1>2, <1>3 DEF TicketRecords
<1>5. r.owner.kind = "recovery" /\ r.owner # Nobody
  BY <1>4, OwnersDiffer
<1>6. TicketMove(t, r, binding[t])
  <2>1. /\ UNCHANGED <<pools, entries, reviewing, processes, recovering>>
        /\ t \in Busy \/ HasCapacity
    BY <1>2 DEF Recover, Others, memory, Busy
  <2>2. binding' = [binding EXCEPT ![t] = binding[t]]
        /\ binding[t] \in Pools \union {NoPool}
    BY BindingStays DEF Recover
  <2>3. r.revision >= ticket[t].revision
    BY <1>4
  <2> QED
    BY <1>2, <1>4, <1>5, <2>1, <2>2, <2>3 DEF TicketMove
<1>7. FreesNothing(t, r, binding[t])
  BY <1>4, <1>5 DEF FreesNothing, Recover
<1> QED
  BY <1>6, <1>7, TicketStepGood

LEMMA EditStep ==
  ASSUME QueueInv, NEW t \in Tickets, Edit(t)
  PROVE  GoodStep
<1>1. PICK unchanged \in BOOLEAN :
        ticket' = [ticket EXCEPT ![t] =
                     [ticket[t] EXCEPT !.unchanged = unchanged]]
  BY DEF Edit, EditTicket, Set
<1>2. PICK r : r = [ticket[t] EXCEPT !.unchanged = unchanged]
  OBVIOUS
<1>3. ticket[t] \in TicketRecords
  BY UnownedFacts
<1>4. /\ r \in TicketRecords /\ r.owner = ticket[t].owner
      /\ r.live = ticket[t].live /\ r.interrupted = ticket[t].interrupted
      /\ r.revision = ticket[t].revision /\ r.attempt = ticket[t].attempt
      /\ r.state = ticket[t].state /\ r.revision \in Nat
  BY <1>2, <1>3 DEF TicketRecords
<1>5. ~Owned(t) => r.owner.kind = "none"
  BY <1>4, UnownedFacts
<1>6. TicketMove(t, r, binding[t])
  BY <1>1, <1>2, <1>4, <1>5, BindingStays
     DEF TicketMove, Edit, Others, memory, Busy, Owned
<1>7. FreesNothing(t, r, binding[t])
  BY <1>4 DEF FreesNothing, Edit, Owned
<1> QED
  BY <1>6, <1>7, TicketStepGood

LEMMA DecideStep ==
  ASSUME QueueInv, NEW t \in Tickets,
         NEW verdict \in {"accept", "request_changes", "blocked"},
         Decide(t, verdict)
  PROVE  GoodStep
<1>1. PICK r : r = [ticket[t] EXCEPT !.state = Decided(verdict)]
  OBVIOUS
<1>2. /\ ticket[t] \in TicketRecords /\ ~Owned(t)
      /\ ticket[t].owner.kind = "none" /\ ticket' = [ticket EXCEPT ![t] = r]
  BY <1>1, UnownedFacts DEF Decide, DecideTicket, Set
<1>3. /\ Decided(verdict) \in States
      /\ Decided(verdict) = "accepted" => verdict = "accept"
  BY DEF Decided, States
<1>4. /\ r \in TicketRecords /\ r.owner = ticket[t].owner
      /\ r.live = ticket[t].live
      /\ r.revision = ticket[t].revision /\ r.attempt = ticket[t].attempt
      /\ r.state = Decided(verdict) /\ r.revision \in Nat
  BY <1>1, <1>2, <1>3 DEF TicketRecords
<1>5. verdict = "accept" /\ binding[t] # NoPool =>
        \E e \in DOMAIN entries : Grounds(e, t)
  BY DEF Decide, Acceptable, Grounds
<1>6. TicketMove(t, r, binding[t])
  BY <1>2, <1>3, <1>4, <1>5, BindingStays
     DEF TicketMove, Decide, Others, memory, Busy, Owned
<1>7. FreesNothing(t, r, binding[t])
  BY <1>2, <1>4 DEF FreesNothing, Decide
<1> QED
  BY <1>6, <1>7, TicketStepGood

(***************************************************************************)
(* Part 5.  One lemma per action of an entry.                              *)
(***************************************************************************)
\* Nothing starts: tickets stay.
LEMMA TicketsStay ==
  ASSUME QueueInv, UNCHANGED ticket
  PROVE  OrderStep /\ CapacityShared' /\ Busy' = Busy
BY UnownedFacts, OwnersDiffer
   DEF OrderStep, QueueInv, CapacityShared, Busy, Owned

\* The entry that leaves the queue, or ends, gives no work to do.
LEMMA EntryWake ==
  ASSUME QueueInv, QueueTypes', NEW e \in DOMAIN entries, NEW x, NEW v,
         EntryMove(e, x, v), pump' = pump
  PROVE  NoLostWakeup'
<1>0. DOMAIN entries' = DOMAIN entries
      /\ \A f \in DOMAIN entries : entries'[f] = IF f = e THEN x ELSE entries[f]
  BY DEF EntryMove, QueueInv, QueueTypes
<1>1. \A p \in Pools : /\ ReviewOwned(p)' = ReviewOwned(p)
                       /\ ImplementationOwned(p)' = ImplementationOwned(p)
  BY <1>0
     DEF EntryMove, ReviewOwned, ImplementationOwned, IsReview, PoolOf, Owned
<1>2. \A f \in DOMAIN entries' :
        IsQueued(f)' => /\ f # e /\ entries'[f] = entries[f]
                        /\ PoolOf(f)' = PoolOf(f)
  BY <1>0 DEF EntryMove, IsQueued, PoolOf, IsReview
<1>3. NoNewWork
  BY <1>0, <1>1, <1>2, NoNewWorkIf
     DEF QueueInv, EntryMove, IsQueued, IsCurrent, Owned
<1>4. Busy' = Busy
  BY DEF EntryMove, Busy, Owned
<1> QED
  BY <1>3, <1>4, WakeKept DEF QueueInv

\* An entry's state settles no other way than from the queue or its slot.
LEMMA EntryStepGood ==
  ASSUME QueueInv, NEW e \in DOMAIN entries, NEW x, NEW v, EntryMove(e, x, v),
         pump' = "queued" \/ pump' = pump,
         entries[e].report # "none" => x.report = entries[e].report
  PROVE  GoodStep
<1>1. pump' \in {"idle", "queued", "pumping"}
  BY DEF QueueInv, QueueTypes
<1>2. Links' /\ ReviewLimitHolds'
  BY <1>1, EntryChange
<1>3. OrderStep /\ CapacityShared'
  BY TicketsStay DEF EntryMove
<1>4. NoLostWakeup'
  <2>1. CASE pump' = "queued"
    BY <2>1, WakeKept DEF QueueInv
  <2>2. CASE pump' = pump
    BY <1>2, <2>2, EntryWake DEF Links
  <2> QED
    BY <2>1, <2>2
<1>5. SettledStep
  BY DEF SettledStep, EntryMove, QueueInv, QueueTypes, IsQueued
<1> QED
  BY <1>2, <1>3, <1>4, <1>5, GoodStepIf

LEMMA CancelScheduledStep ==
  ASSUME QueueInv, NEW e \in DOMAIN entries, CancelScheduled(e)
  PROVE  GoodStep
<1>1. PICK x : x = [entries[e] EXCEPT !.state = "cancelled"]
  OBVIOUS
<1>2. /\ entries[e] \in EntryRecords /\ e \in Runs /\ IsQueued(e)
      /\ EntryInv(e) /\ reviewing[e] \in [stage : Stages, abort : BOOLEAN]
  BY RunsFinite DEF QueueInv, QueueTypes, CancelScheduled
<1>3. EntryMove(e, x, reviewing[e])
  <2>1. /\ x \in EntryRecords /\ x.state = "cancelled"
        /\ \A k \in {"kind", "ticket", "revision", "attempt", "pool",
                     "slotHeld", "report"} : x[k] = entries[e][k]
    BY <1>1, <1>2 DEF EntryRecords, Settled
  <2>2. reviewing' = [reviewing EXCEPT ![e] = reviewing[e]]
    BY <1>2 DEF CancelScheduled, memory, QueueInv, QueueTypes
  <2> QED
    BY <1>1, <1>2, <2>1, <2>2
       DEF EntryMove, EntryInv, InStage, CancelScheduled, SetEntry, memory
<1>4. x.report = entries[e].report
  BY <1>1, <1>2 DEF EntryRecords
<1> QED
  BY <1>3, <1>4, EntryStepGood DEF CancelScheduled, Kick

\* An entry's new value that keeps what it is about, and its slot.
KeepsSubject(r, x) ==
  /\ x \in EntryRecords
  /\ x.kind = r.kind /\ x.ticket = r.ticket /\ x.revision = r.revision
  /\ x.attempt = r.attempt /\ x.pool = r.pool /\ x.slotHeld = r.slotHeld

LEMMA StateSet ==
  ASSUME NEW r \in EntryRecords, NEW x,
         NEW state \in {"queued", "running"} \union Settled,
         x = [r EXCEPT !.state = state]
  PROVE  KeepsSubject(r, x) /\ x.state = state /\ x.report = r.report
BY DEF EntryRecords, KeepsSubject

LEMMA ReportSet ==
  ASSUME NEW r \in EntryRecords, NEW x,
         NEW report \in {"none", "conclusive", "inconclusive"},
         x = [r EXCEPT !.state = "completed", !.report = report]
  PROVE  KeepsSubject(r, x) /\ x.state = "completed" /\ x.report = report
BY DEF EntryRecords, KeepsSubject, Settled

LEMMA CancelReviewStep ==
  ASSUME QueueInv, NEW e \in DOMAIN entries, CancelReview(e)
  PROVE  GoodStep
<1>1. /\ entries[e] \in EntryRecords /\ e \in Runs /\ EntryInv(e)
      /\ reviewing[e] \in [stage : Stages, abort : BOOLEAN]
  BY RunsFinite DEF QueueInv, QueueTypes
<1>2. CASE ~InStage(e, "none")
  <2>1. PICK v : v = [reviewing[e] EXCEPT !.abort = TRUE]
    OBVIOUS
  <2>2. /\ v \in [stage : Stages, abort : BOOLEAN]
        /\ v.stage = reviewing[e].stage
    BY <1>1, <2>1
  <2>3. /\ reviewing' = [reviewing EXCEPT ![e] = v]
        /\ UNCHANGED <<entries, pump, ticket, binding, pools, processes,
                       recovering>>
    BY <1>2, <2>1 DEF CancelReview, InStage
  <2>4. entries' = [entries EXCEPT ![e] = entries[e]]
    BY <2>3 DEF QueueInv, QueueTypes
  <2>5. entries[e].slotHeld /\ entries[e].state # "queued"
    BY <1>1, <1>2 DEF EntryInv, IsQueued
  <2>6. EntryMove(e, entries[e], v)
    BY <1>1, <2>2, <2>3, <2>4, <2>5 DEF EntryMove, EntryInv, InStage
  <2> QED
    BY <2>3, <2>6, EntryStepGood
<1>3. CASE InStage(e, "none")
  <2>1. PICK x : x = [entries[e] EXCEPT !.state = "cancelled"]
    OBVIOUS
  <2>2. /\ IsQueued(e) /\ entries' = [entries EXCEPT ![e] = x] /\ Kick
        /\ UNCHANGED <<reviewing, ticket, binding, pools, processes,
                       recovering>>
    BY <1>3, <2>1 DEF CancelReview, InStage, SetEntry
  <2>3. reviewing' = [reviewing EXCEPT ![e] = reviewing[e]]
    BY <2>2 DEF QueueInv, QueueTypes
  <2>4. EntryMove(e, x, reviewing[e]) /\ x.report = entries[e].report
    <3>1. /\ KeepsSubject(entries[e], x) /\ x.state = "cancelled"
          /\ x.report = entries[e].report
      BY <1>1, <2>1, StateSet DEF Settled
    <3> QED
      BY <1>1, <1>3, <2>2, <2>3, <3>1 DEF EntryMove, InStage, KeepsSubject
  <2> QED
    BY <2>2, <2>4, EntryStepGood DEF Kick
<1> QED
  BY <1>2, <1>3

LEMMA BodyStep ==
  ASSUME QueueInv, NEW e \in DOMAIN entries,
         ReviewReports(e) \/ ReviewThrows(e) \/ ReviewEndsUncertain(e)
  PROVE  GoodStep
<1>1. /\ entries[e] \in EntryRecords /\ e \in Runs /\ EntryInv(e)
      /\ reviewing[e] \in [stage : Stages, abort : BOOLEAN]
  BY RunsFinite DEF QueueInv, QueueTypes
<1>2. /\ entries[e].slotHeld /\ ~InStage(e, "none")
      /\ UNCHANGED <<ticket, binding, pools, processes, recovering>>
      /\ pump' = "queued" \/ pump' = pump
  BY <1>1
     DEF EntryInv, InStage, ReviewReports, ReviewThrows, ReviewEndsUncertain,
         WakeAfterReview, Kick
<1>3. PICK x, v :
        /\ entries' = [entries EXCEPT ![e] = x]
        /\ reviewing' = [reviewing EXCEPT ![e] = v]
        /\ v.stage \in {"none", "cleanup"}
        /\ v \in [stage : Stages, abort : BOOLEAN]
        /\ KeepsSubject(entries[e], x) /\ x.state # "queued"
        /\ entries[e].report # "none" => x.report = entries[e].report
  <2>1. CASE ReviewReports(e)
    <3>1. PICK v : v = [reviewing[e] EXCEPT !.stage = "cleanup"]
      OBVIOUS
    <3>2. /\ v.stage = "cleanup" /\ v \in [stage : Stages, abort : BOOLEAN]
          /\ reviewing' = [reviewing EXCEPT ![e] = v]
      BY <1>1, <2>1, <3>1 DEF ReviewReports, Stages
    <3>a. PICK report \in {"conclusive", "inconclusive"} :
            SetEntry(e, [entries[e] EXCEPT !.state = "completed",
                                           !.report = report])
      BY <2>1 DEF ReviewReports
    <3>b. PICK x :
            x = [entries[e] EXCEPT !.state = "completed", !.report = report]
      OBVIOUS
    <3>3. entries' = [entries EXCEPT ![e] = x]
      BY <3>a, <3>b DEF SetEntry
    <3>5. KeepsSubject(entries[e], x) /\ x.state = "completed"
      BY <1>1, <3>b, ReportSet
    <3>4. entries[e].report = "none"
      BY <1>1, <2>1 DEF EntryInv, ReviewReports
    <3> QED
      BY <3>2, <3>3, <3>4, <3>5
  <2>2. CASE ReviewThrows(e)
    <3>1. PICK v : v = [reviewing[e] EXCEPT !.stage = "cleanup"]
      OBVIOUS
    <3>2. /\ v.stage = "cleanup" /\ v \in [stage : Stages, abort : BOOLEAN]
          /\ reviewing' = [reviewing EXCEPT ![e] = v]
      BY <1>1, <2>2, <3>1 DEF ReviewThrows, Stages
    <3>a. PICK state \in {"cancelled", "failed"} :
            state = IF reviewing[e].abort THEN "cancelled" ELSE "failed"
      OBVIOUS
    <3>b. PICK x : x = [entries[e] EXCEPT !.state = state]
      OBVIOUS
    <3>3. entries' = [entries EXCEPT ![e] = x]
      BY <2>2, <3>a, <3>b DEF ReviewThrows, SetEntry
    <3>4. /\ KeepsSubject(entries[e], x) /\ x.state = state
          /\ x.report = entries[e].report
      BY <1>1, <3>b, StateSet DEF Settled
    <3> QED
      BY <3>2, <3>3, <3>4
  <2>3. CASE ReviewEndsUncertain(e)
    <3>1. PICK x : x = [entries[e] EXCEPT !.state = "interrupted"]
      OBVIOUS
    <3>3. /\ entries' = [entries EXCEPT ![e] = x]
          /\ reviewing' = [reviewing EXCEPT ![e] = NotReviewing]
      BY <2>3, <3>1 DEF ReviewEndsUncertain, SetEntry
    <3>4. /\ KeepsSubject(entries[e], x) /\ x.state = "interrupted"
          /\ x.report = entries[e].report
      BY <1>1, <3>1, StateSet DEF Settled
    <3>2. /\ NotReviewing.stage = "none"
          /\ NotReviewing \in [stage : Stages, abort : BOOLEAN]
      BY DEF NotReviewing, Stages
    <3> QED
      BY <3>2, <3>3, <3>4
  <2> QED
    BY <2>1, <2>2, <2>3
<1>4. EntryMove(e, x, v)
  BY <1>2, <1>3 DEF EntryMove, KeepsSubject
<1> QED
  BY <1>2, <1>3, <1>4, EntryStepGood

\* A step aside of the queue: only the bodies and their processes move.
LEMMA AsideStep ==
  ASSUME QueueInv, UNCHANGED <<ticket, binding, pools, entries, pump>>,
         QueueTypes', \A e \in DOMAIN entries : EntryInv(e)',
         \A e \in Runs \ DOMAIN entries : Unused(e)'
  PROVE  GoodStep
<1>1. Links'
  BY DEF QueueInv, Links, OwnerInv, ReviewedStaysPut, ClosedPoolQuiet,
         AcceptedOnReport, IsReview, IsQueued
<1>2. \A p : /\ ReviewOwned(p)' = ReviewOwned(p)
             /\ ImplementationOwned(p)' = ImplementationOwned(p)
  BY DEF ReviewOwned, ImplementationOwned, IsReview, PoolOf, Owned
<1>3. ReviewLimitHolds'
  BY <1>2 DEF QueueInv, ReviewLimitHolds
<1>4. NoNewWork
  BY <1>2, RunsFinite, NoNewWorkIf
     DEF QueueInv, IsQueued, IsCurrent, PoolOf, IsReview, Owned
<1>5. NoLostWakeup'
  BY <1>4, TicketsStay, WakeKept DEF QueueInv
<1> QED
  BY <1>1, <1>3, <1>5, TicketsStay, EntriesStay, GoodStepIf

LEMMA ReviewEntersStep ==
  ASSUME QueueInv, NEW e \in DOMAIN entries, ReviewEnters(e)
  PROVE  GoodStep
<1>1. /\ e \in Runs /\ EntryInv(e) /\ entries[e].slotHeld
      /\ entries[e].report = "none" /\ recovering[e] = 0
      /\ reviewing[e] \in [stage : Stages, abort : BOOLEAN]
  BY RunsFinite DEF QueueInv, QueueTypes, EntryInv, ReviewEnters, InStage
<1>2. PICK v : v = [reviewing[e] EXCEPT !.stage = "runtime"]
  OBVIOUS
<1>3. /\ v \in [stage : Stages, abort : BOOLEAN] /\ v.stage = "runtime"
      /\ reviewing' = [reviewing EXCEPT ![e] = v]
  BY <1>1, <1>2 DEF ReviewEnters, Stages
<1>4. /\ UNCHANGED <<ticket, binding, pools, entries, recovering, pump>>
      /\ processes' = processes \union {e}
  BY DEF ReviewEnters
<1>5. QueueTypes'
  BY <1>1, <1>3, <1>4 DEF QueueInv, QueueTypes
<1>6. ASSUME NEW f \in DOMAIN entries
      PROVE  EntryInv(f)'
  BY <1>1, <1>3, <1>4, RunsFinite
     DEF QueueInv, QueueTypes, EntryInv, OwnedByReview, IsReview, IsQueued,
         InStage
<1>7. \A f \in Runs \ DOMAIN entries : Unused(f)'
  BY <1>3, <1>4 DEF QueueInv, QueueTypes, Unused, InStage
<1> QED
  BY <1>4, <1>5, <1>6, <1>7, AsideStep

\* Processes go, recoveries come and go.
LEMMA RecoveriesStep ==
  ASSUME QueueInv, NEW e \in DOMAIN entries,
         RecoverReview(e) \/ RecoverReviewFails(e) \/ ReviewProcessesExit(e)
  PROVE  GoodStep
<1>1. /\ UNCHANGED <<ticket, binding, pools, entries, reviewing, pump>>
      /\ processes' \subseteq processes
  BY DEF RecoverReview, RecoverReviewFails, ReviewProcessesExit, memory
<1>2. recovering' \in [Runs -> Nat]
  <2>1. e \in Runs /\ recovering \in [Runs -> Nat]
    BY RunsFinite DEF QueueInv, QueueTypes
  <2>2. CASE RecoverReview(e)
    BY <2>1, <2>2 DEF RecoverReview
  <2>3. CASE RecoverReviewFails(e)
    BY <2>1, <2>3 DEF RecoverReviewFails
  <2> QED
    BY <2>1, <2>2, <2>3 DEF ReviewProcessesExit, memory
<1>3. QueueTypes'
  BY <1>1, <1>2 DEF QueueInv, QueueTypes
<1>a. /\ \A f \in Runs \ {e} : recovering'[f] = recovering[f]
      /\ \/ recovering'[e] = recovering[e]
         \/ InStage(e, "none") /\ ~IsQueued(e)
  <2>1. e \in Runs /\ recovering \in [Runs -> Nat] /\ EntryInv(e)
    BY RunsFinite DEF QueueInv, QueueTypes
  <2>2. CASE RecoverReview(e)
    BY <2>1, <2>2 DEF RecoverReview, EntryInv
  <2>3. CASE RecoverReviewFails(e)
    BY <2>1, <2>3 DEF RecoverReviewFails, EntryInv
  <2> QED
    BY <2>1, <2>2, <2>3 DEF ReviewProcessesExit, memory
<1>4. ASSUME NEW f \in DOMAIN entries
      PROVE  EntryInv(f)'
  BY <1>1, <1>a, RunsFinite
     DEF QueueInv, EntryInv, OwnedByReview, IsReview, IsQueued, InStage
<1>5. \A f \in Runs \ DOMAIN entries : Unused(f)'
  BY <1>1, <1>a DEF QueueInv, Unused, InStage
<1> QED
  BY <1>1, <1>3, <1>4, <1>5, AsideStep

\* A request joins the end of the queue.
LEMMA AppendedStep ==
  ASSUME QueueInv, NEW x, EntryAppended(x)
  PROVE  GoodStep
<1>1. Links' /\ ReviewLimitHolds'
  BY EntryAdded
<1>2. OrderStep /\ CapacityShared' /\ NoLostWakeup'
  BY TicketsStay DEF EntryAppended, NoLostWakeup
<1>3. SettledStep
  <2>1. entries \in Seq(EntryRecords)
    BY DEF QueueInv, QueueTypes
  <2>2. \A e \in DOMAIN entries : entries'[e] = entries[e]
    BY <2>1 DEF EntryAppended
  <2> QED
    BY <2>2 DEF SettledStep
<1> QED
  BY <1>1, <1>2, <1>3, GoodStepIf

LEMMA EntryOf ==
  ASSUME QueueInv, NEW t \in Tickets, NEW kind \in {"review", "run", "verify"},
         NEW attempt \in Nat, NEW p \in Pools \union {NoPool}
  PROVE  LET x == Entry(kind, t, attempt, p)
         IN /\ x \in EntryRecords /\ x.kind = kind /\ x.ticket = t
            /\ x.pool = p /\ x.state = "queued" /\ ~x.slotHeld
            /\ x.report = "none" /\ x.revision = ticket[t].revision
<1>1. ticket[t].revision \in Nat
  BY UnownedFacts DEF TicketRecords
<1> QED
  BY <1>1 DEF Entry, EntryRecords

LEMMA RequestStepGood ==
  ASSUME QueueInv, NEW t \in Tickets,
         RequestReview(t) \/ Schedule(t, "run") \/ Schedule(t, "verify")
  PROVE  GoodStep
<1>1. ticket[t].attempt \in Nat /\ binding[t] \in Pools \union {NoPool}
  BY UnownedFacts DEF TicketRecords
<1>2. CASE RequestReview(t)
  <2>1. PICK x : x = Entry("review", t, ticket[t].attempt, binding[t])
    OBVIOUS
  <2>2. /\ x \in EntryRecords /\ x.kind = "review" /\ x.ticket = t
        /\ x.pool = binding[t] /\ x.state = "queued" /\ ~x.slotHeld
        /\ x.report = "none" /\ x.revision = ticket[t].revision
    BY <1>1, <2>1, EntryOf
  <2>3. EntryAppended(x)
    BY <1>2, <2>1, <2>2 DEF RequestReview, EntryAppended, Kick, memory
  <2> QED
    BY <2>3, AppendedStep
<1>3. ASSUME NEW kind \in {"run", "verify"}, Schedule(t, kind)
      PROVE  GoodStep
  <2>1. PICK x : x = Entry(kind, t, 0, NoPool)
    OBVIOUS
  <2>2. /\ x \in EntryRecords /\ x.kind = kind /\ x.ticket = t
        /\ x.pool = NoPool /\ x.state = "queued" /\ ~x.slotHeld
        /\ x.report = "none" /\ x.revision = ticket[t].revision
    BY <2>1, EntryOf
  <2>3. EntryAppended(x)
    BY <1>3, <2>1, <2>2 DEF Schedule, EntryAppended, Kick, memory
  <2> QED
    BY <2>3, AppendedStep
<1> QED
  BY <1>2, <1>3

(***************************************************************************)
(* Part 6.  The pump.                                                      *)
(***************************************************************************)
\* The pump takes the smallest entry, and there is one.
LEMMA OldestIsFirst ==
  ASSUME QueueInv, Executable # {}
  PROVE  Oldest \in Executable /\ \A f \in Executable : Oldest <= f
<1> DEFINE Order == StrictSubsetOrdering(Runs)
           Intervals == {1 .. f : f \in Executable}
<1>1. /\ Executable \subseteq Runs /\ IsFiniteSet(Runs) /\ Runs \subseteq Nat
      /\ \A f \in Executable : 1 <= f
  BY RunsFinite DEF QueueInv, Executable, Runs
<1>2. IsWellFoundedOn(Order, SUBSET Runs)
  BY <1>1, FS_StrictSubsetOrderingWellFounded, FS_FiniteSubsetsOfFinite
<1>0. \A f \in Executable : 1 .. f \subseteq Runs
  BY <1>1, QueueAssumption DEF Runs
<1>3. Intervals \subseteq SUBSET Runs /\ Intervals # {}
  BY <1>0
<1>4. \E I \in Intervals : \A J \in Intervals : ~(<<J, I>> \in Order)
  <2> HIDE DEF Order, Intervals
  <2> QED
    BY <1>2, <1>3, WFMin
<1>5. PICK e \in Executable :
        \A f \in Executable : ~(<<1 .. f, 1 .. e>> \in Order)
  BY <1>4
<1>6. ASSUME NEW f \in Executable, ~(e <= f)
      PROVE  FALSE
  <2>1. 1 .. f \subseteq 1 .. e /\ e \in 1 .. e /\ e \notin 1 .. f
    BY <1>1, <1>6
  <2>2. /\ 1 .. f \in SUBSET Runs /\ 1 .. e \in SUBSET Runs
        /\ 1 .. f # 1 .. e
    BY <1>0, <2>1
  <2>3. <<1 .. f, 1 .. e>> \in Order
    BY <2>1, <2>2 DEF StrictSubsetOrdering
  <2> QED
    BY <1>5, <2>3
<1> QED
  BY <1>6 DEF Oldest

\* What is executable is queued and its ticket unowned.
LEMMA ExecutableFacts ==
  ASSUME QueueInv, NEW e \in Executable
  PROVE  /\ e \in DOMAIN entries /\ e \in Runs /\ entries[e] \in EntryRecords
         /\ entries[e].ticket \in Tickets /\ IsQueued(e)
         /\ ~Owned(entries[e].ticket) /\ EntryInv(e) /\ ~entries[e].slotHeld
         /\ entries[e].report = "none" /\ InStage(e, "none")
         /\ reviewing[e] \in [stage : Stages, abort : BOOLEAN]
         /\ Eligible(PoolOf(e), entries[e].kind)
<1>1. e \in DOMAIN entries /\ IsQueued(e) /\ ~Owned(entries[e].ticket)
      /\ Eligible(PoolOf(e), entries[e].kind)
  BY DEF Executable
<1>2. e \in Runs /\ entries[e] \in EntryRecords /\ EntryInv(e)
      /\ reviewing[e] \in [stage : Stages, abort : BOOLEAN]
  BY <1>1, RunsFinite DEF QueueInv, QueueTypes
<1> QED
  BY <1>1, <1>2 DEF EntryInv, EntryRecords

LEMMA AdmissionFailsStep ==
  ASSUME QueueInv, NEW e \in DOMAIN entries, AdmissionFails(e)
  PROVE  GoodStep
<1>1. e \in Executable
  BY OldestIsFirst DEF AdmissionFails, MayAdmit
<1>2. PICK x : x = [entries[e] EXCEPT !.state = "failed"]
  OBVIOUS
<1>3. /\ KeepsSubject(entries[e], x) /\ x.state = "failed"
      /\ x.report = entries[e].report
  BY <1>1, <1>2, ExecutableFacts, StateSet DEF Settled
<1>4. /\ entries' = [entries EXCEPT ![e] = x] /\ pump' = pump
      /\ UNCHANGED <<ticket, binding, pools, reviewing, recovering, processes>>
  BY <1>2 DEF AdmissionFails, Refused, SetEntry, memory
<1>5. reviewing' = [reviewing EXCEPT ![e] = reviewing[e]]
  BY <1>4 DEF QueueInv, QueueTypes
<1>6. EntryMove(e, x, reviewing[e])
  BY <1>1, <1>3, <1>4, <1>5, ExecutableFacts
     DEF EntryMove, KeepsSubject, InStage
<1> QED
  BY <1>3, <1>4, <1>6, EntryStepGood

\* With tickets, bindings, entries and pools as they were, so is the queue.
LEMMA QueueStays ==
  ASSUME QueueInv, QueueTypes', UNCHANGED <<ticket, binding, pools, entries>>
  PROVE  NoNewWork
<1>1. \A p : /\ ReviewOwned(p)' = ReviewOwned(p)
             /\ ImplementationOwned(p)' = ImplementationOwned(p)
  BY DEF ReviewOwned, ImplementationOwned, IsReview, PoolOf, Owned
<1> QED
  BY <1>1, RunsFinite, NoNewWorkIf
     DEF QueueInv, IsQueued, IsCurrent, PoolOf, IsReview, Owned

LEMMA PumpEndStep ==
  ASSUME QueueInv, PumpEnd
  PROVE  GoodStep
<1>1. /\ UNCHANGED <<ticket, binding, pools, entries, reviewing, recovering,
                     processes>>
      /\ pump' = "idle" /\ ~MayAdmit
  BY DEF PumpEnd, memory
<1>2. QueueTypes'
  BY <1>1 DEF QueueInv, QueueTypes
<1>3. Links'
  BY <1>1, <1>2
     DEF QueueInv, Links, EntryInv, OwnedByReview, InStage, Unused, OwnerInv,
         ReviewedStaysPut, ClosedPoolQuiet, AcceptedOnReport, IsReview,
         IsQueued
<1>4. ReviewLimitHolds'
  BY <1>1 DEF QueueInv, ReviewLimitHolds, ReviewOwned, IsReview, PoolOf
<1>5. NoLostWakeup'
  <2>1. NoNewWork /\ Busy' = Busy
    BY <1>1, <1>2, QueueStays, TicketsStay
  <2>2. HasCapacity' => HasCapacity
    BY <2>1 DEF HasCapacity
  <2>3. \A e \in Startable' : e \in DOMAIN entries' /\ e \in Executable'
                              /\ HasCapacity'
    BY DEF Startable, Executable
  <2>4. ~\E e \in Startable' : IsCurrent(e)'
    BY <1>1, <2>1, <2>2, <2>3 DEF NoNewWork, MayAdmit
  <2> QED
    BY <2>4 DEF NoLostWakeup
<1> QED
  BY <1>1, <1>3, <1>4, <1>5, TicketsStay, EntriesStay, GoodStepIf

\* Limits and states of pools change, and the suspension of queued work.
LEMMA PoolChange ==
  ASSUME QueueInv, UNCHANGED <<ticket, binding, reviewing, recovering, processes>>,
         pools' \in [Pools -> PoolRecords],
         entries' \in Seq(EntryRecords), Len(entries') = Len(entries),
         \A e \in DOMAIN entries :
           /\ KeepsSubject(entries[e], entries'[e])
           /\ entries'[e].state = entries[e].state
           /\ entries'[e].report = entries[e].report,
         \A p \in Pools : Cardinality(ReviewOwned(p)) <= pools'[p].limit,
         \A p \in Pools : pools'[p].state = "closed" =>
                            pools[p].state = "closed" \/ MayClose(p),
         pump' \in {"queued", "pumping"}
  PROVE  GoodStep
<1>0. DOMAIN entries' = DOMAIN entries
  BY DEF QueueInv, QueueTypes
<1>1. QueueTypes'
  BY DEF QueueInv, QueueTypes
<1>2. ASSUME NEW e \in DOMAIN entries
      PROVE  EntryInv(e)'
  BY DEF QueueInv, KeepsSubject, EntryInv, OwnedByReview, IsReview, IsQueued,
         InStage
<1>3. ASSUME NEW t \in Tickets
      PROVE  OwnerInv(t)'
  BY <1>0 DEF QueueInv, KeepsSubject, OwnerInv
<1>4. \A e \in Runs \ DOMAIN entries : Unused(e)'
  BY DEF QueueInv, Unused, InStage
<1>5. ReviewedStaysPut'
  BY <1>0 DEF QueueInv, KeepsSubject, ReviewedStaysPut
<1>6. ClosedPoolQuiet'
  <2> SUFFICES ASSUME NEW p \in Pools, pools'[p].state = "closed"
               PROVE  /\ \A e \in DOMAIN entries :
                           entries[e].kind = "review" /\ entries[e].pool = p =>
                             entries[e].state # "queued" /\ ~entries[e].slotHeld
                      /\ \A t \in Tickets :
                           binding[t] = p => ticket[t].owner.kind \notin
                                               {"attempt", "verification"}
    BY <1>0 DEF ClosedPoolQuiet, IsReview, IsQueued, KeepsSubject
  <2>1. CASE pools[p].state = "closed"
    BY <2>1 DEF QueueInv, ClosedPoolQuiet, IsReview, IsQueued
  <2>2. CASE MayClose(p)
    <3>1. \A t \in Tickets : binding[t] = p => ticket[t].owner.kind = "none"
      BY <2>2, UnownedFacts DEF MayClose
    <3> QED
      BY <2>2, <3>1
         DEF MayClose, ReviewOwned, IsReview, IsQueued, PoolOf
  <2> QED
    BY <2>1, <2>2
<1>7. AcceptedOnReport'
  <2> SUFFICES ASSUME NEW u \in Tickets, ticket[u].state = "accepted",
                      binding[u] # NoPool
               PROVE  \E e \in DOMAIN entries' : Grounds(e, u)'
    BY DEF AcceptedOnReport, Grounds, BoundReport, IsReview
  <2>1. PICK e \in DOMAIN entries : Grounds(e, u)
    BY AcceptedOnGrounds DEF QueueInv, QueueTypes
  <2> QED
    BY <1>0, <2>1 DEF Grounds, BoundReport, IsReview, KeepsSubject
<1>8. ReviewLimitHolds'
  <2>1. \A p \in Pools : ReviewOwned(p)' = ReviewOwned(p)
    BY <1>0 DEF ReviewOwned, IsReview, PoolOf, KeepsSubject
  <2> QED
    BY <2>1 DEF ReviewLimitHolds
<1>9. Links'
  BY <1>0, <1>1, <1>2, <1>3, <1>4, <1>5, <1>6, <1>7 DEF Links, Runs
<1>10. OrderStep /\ CapacityShared' /\ NoLostWakeup'
  BY TicketsStay DEF NoLostWakeup
<1>11. SettledStep
  BY DEF SettledStep, KeepsSubject
<1> QED
  BY <1>8, <1>9, <1>10, <1>11, GoodStepIf

\* The larger count bounds the reviews.
LEMMA ReviewsInLargestRole ==
  ASSUME QueueInv, NEW p
  PROVE  /\ LargestRole(p) \in Nat /\ Cardinality(ReviewOwned(p)) \in Nat
         /\ Cardinality(ReviewOwned(p)) <= LargestRole(p)
<1>1. OwnedBy(p, "review") \in Nat /\ OwnedBy(p, "run") \in Nat
  BY OwnedCount DEF QueueInv
<1>2. OwnedBy(p, "review") = Cardinality(ReviewOwned(p))
  BY DEF OwnedBy
<1> QED
  BY <1>1, <1>2 DEF LargestRole

LEMMA EntriesKept ==
  ASSUME QueueInv, UNCHANGED entries
  PROVE  /\ entries' \in Seq(EntryRecords) /\ Len(entries') = Len(entries)
         /\ \A e \in DOMAIN entries :
              /\ KeepsSubject(entries[e], entries'[e])
              /\ entries'[e].state = entries[e].state
              /\ entries'[e].report = entries[e].report
BY RunsFinite DEF QueueInv, QueueTypes, KeepsSubject

LEMMA PumpStartStep ==
  ASSUME QueueInv, PumpStart
  PROVE  GoodStep
<1>1. /\ UNCHANGED <<ticket, binding, entries, reviewing, recovering, processes>>
      /\ pump' \in {"queued", "pumping"}
  BY DEF PumpStart, memory
<1>2. ASSUME NEW p \in Pools
      PROVE  /\ pools'[p] \in PoolRecords /\ pools'[p].state = pools[p].state
             /\ Cardinality(ReviewOwned(p)) <= pools'[p].limit
  <2>1. pools[p] \in PoolRecords
        /\ Cardinality(ReviewOwned(p)) <= pools[p].limit
    BY DEF QueueInv, QueueTypes, ReviewLimitHolds
  <2>2. CASE ~Drained(p)
    BY <2>1, <2>2 DEF PumpStart
  <2>3. CASE Drained(p)
    <3>1. pools'[p] = [pools[p] EXCEPT !.limit = pools[p].pending,
                                       !.pending = 0]
      BY <2>3 DEF PumpStart
    <3>2. /\ pools'[p] \in PoolRecords /\ pools'[p].state = pools[p].state
          /\ pools'[p].limit = pools[p].pending /\ pools[p].pending \in Nat
      <4>1. PICK c \in PoolRecords : c = pools[p]
        BY <2>1
      <4>2. PICK n \in Nat : n = c.pending
        BY <4>1 DEF PoolRecords
      <4>3. PICK d : d = [c EXCEPT !.limit = n, !.pending = 0]
        OBVIOUS
      <4>4. d \in PoolRecords /\ d.state = c.state /\ d.limit = n
        BY <4>1, <4>2, <4>3 DEF PoolRecords
      <4> QED
        BY <3>1, <4>1, <4>2, <4>3, <4>4
    <3> QED
      BY <2>3, <3>2, ReviewsInLargestRole DEF Drained
  <2> QED
    BY <2>2, <2>3
<1>3. pools' \in [Pools -> PoolRecords]
  BY <1>2 DEF PumpStart
<1> QED
  BY <1>1, <1>2, <1>3, EntriesKept, PoolChange

LEMMA RearmedEntries ==
  ASSUME QueueInv, NEW p, entries' = Rearmed(p)
  PROVE  /\ entries' \in Seq(EntryRecords) /\ Len(entries') = Len(entries)
         /\ \A e \in DOMAIN entries :
              /\ KeepsSubject(entries[e], entries'[e])
              /\ entries'[e].state = entries[e].state
              /\ entries'[e].report = entries[e].report
<1>1. PICK n \in Nat : n = Len(entries)
  BY RunsFinite DEF QueueInv
<1>2. DOMAIN entries = 1 .. n /\ \A e \in 1 .. n : entries[e] \in EntryRecords
  BY <1>1, RunsFinite DEF QueueInv
<1>3. ASSUME NEW e \in 1 .. n
      PROVE  /\ KeepsSubject(entries[e], entries'[e])
             /\ entries'[e].state = entries[e].state
             /\ entries'[e].report = entries[e].report
  <2>1. entries'[e] = entries[e]
        \/ entries'[e] = [entries[e] EXCEPT !.suspended = FALSE]
    BY <1>2 DEF Rearmed
  <2> QED
    BY <1>2, <2>1 DEF KeepsSubject, EntryRecords
<1>4. entries' \in [1 .. n -> EntryRecords]
  BY <1>2, <1>3 DEF Rearmed, KeepsSubject
<1>5. entries' \in Seq(EntryRecords) /\ Len(entries') = n
  BY <1>4, IsASeq, LenProperties
<1> QED
  BY <1>1, <1>2, <1>3, <1>5

LEMMA ConfigureStep ==
  ASSUME QueueInv, NEW p \in Pools, NEW limit \in Limits,
         NEW state \in {"enabled", "paused", "closed"},
         Configure(p, state, limit)
  PROVE  GoodStep
<1>1. /\ UNCHANGED <<ticket, binding, reviewing, recovering, processes>>
      /\ pump' = "queued"
      /\ state = "closed" => MayClose(p)
      /\ entries' = Rearmed(p) \/ entries' = entries
  BY DEF Configure, memory, Kick
<1>2. PICK c : /\ pools' = [pools EXCEPT ![p] = c]
               /\ c = [state |-> state,
                       limit |-> IF limit < LargestRole(p) THEN pools[p].limit
                                                           ELSE limit,
                       pending |-> IF limit < LargestRole(p) THEN limit ELSE 0]
  BY DEF Configure
<1>3. pools \in [Pools -> PoolRecords] /\ limit \in Nat
      /\ \A q \in Pools : Cardinality(ReviewOwned(q)) <= pools[q].limit
  BY QueueAssumption DEF QueueInv, QueueTypes, ReviewLimitHolds
<1>4. c \in PoolRecords /\ c.state = state
      /\ Cardinality(ReviewOwned(p)) <= c.limit
  <2>1. pools[p].limit \in Nat
    BY <1>3 DEF PoolRecords
  <2>2. c \in PoolRecords /\ c.state = state
    BY <1>2, <1>3, <2>1 DEF PoolRecords
  <2>3. Cardinality(ReviewOwned(p)) <= c.limit
    BY <1>2, <1>3, <2>1, ReviewsInLargestRole
  <2> QED
    BY <2>2, <2>3
<1>5. /\ pools' \in [Pools -> PoolRecords]
      /\ \A q \in Pools : Cardinality(ReviewOwned(q)) <= pools'[q].limit
      /\ \A q \in Pools : pools'[q].state = "closed" =>
                            pools[q].state = "closed" \/ MayClose(q)
  BY <1>1, <1>2, <1>3, <1>4
<1>6. /\ entries' \in Seq(EntryRecords) /\ Len(entries') = Len(entries)
      /\ \A e \in DOMAIN entries :
           /\ KeepsSubject(entries[e], entries'[e])
           /\ entries'[e].state = entries[e].state
           /\ entries'[e].report = entries[e].report
  BY <1>1, EntriesKept, RearmedEntries
<1> QED
  BY <1>1, <1>5, <1>6, PoolChange

\* A step of entry e and its ticket together: the review takes its ticket,
\* holds it or lets go of it, or a scheduled operation starts.
JointMove(e, x, r, v) ==
  LET t == entries[e].ticket
  IN /\ x \in EntryRecords /\ r \in TicketRecords
     /\ v \in [stage : Stages, abort : BOOLEAN]
     /\ entries' = [entries EXCEPT ![e] = x]
     /\ ticket' = [ticket EXCEPT ![t] = r]
     /\ reviewing' = [reviewing EXCEPT ![e] = v]
     /\ UNCHANGED <<binding, pools, processes>>
     /\ x.kind = entries[e].kind /\ x.ticket = t
     /\ x.revision = entries[e].revision /\ x.attempt = entries[e].attempt
     /\ x.pool = entries[e].pool
     /\ x.state # "queued" /\ x.report = entries[e].report
     /\ r.revision = ticket[t].revision
     /\ ticket[t].owner.kind = "none" \/ ticket[t].owner = Reviewer(e)
     /\ x.slotHeld =>
          /\ IsReview(e) /\ r.owner = Reviewer(e)
          /\ r.state = "awaiting_review" /\ r.revision = x.revision
          /\ r.attempt = x.attempt
          /\ \A p \in Pools : x.pool = p => pools[p].state # "closed"
     /\ ~x.slotHeld =>
          /\ r.owner.kind # "review" /\ v.stage = "none" /\ e \notin processes
     /\ v.stage \in {"starting", "runtime"} => x.report = "none"
     /\ r.owner.kind \in {"attempt", "verification"} =>
          binding[t] = NoPool \/ pools[binding[t]].state # "closed"
     /\ r.state # "accepted"

LEMMA JointChange ==
  ASSUME QueueInv, NEW e \in DOMAIN entries, NEW x, NEW r, NEW v,
         JointMove(e, x, r, v), recovering' \in [Runs -> Nat],
         \A f \in Runs \ {e} : recovering'[f] = recovering[f],
         recovering'[e] = 0 \/ v.stage = "none",
         pump' \in {"idle", "queued", "pumping"}
  PROVE  Links'
<1>t. PICK t : t = entries[e].ticket
  OBVIOUS
<1>0. /\ DOMAIN entries' = DOMAIN entries /\ e \in Runs
      /\ entries[e] \in EntryRecords /\ t \in Tickets /\ EntryInv(e)
      /\ DOMAIN entries \subseteq Runs
      /\ entries' = [entries EXCEPT ![e] = x]
      /\ ticket' = [ticket EXCEPT ![t] = r]
      /\ reviewing' = [reviewing EXCEPT ![e] = v]
  BY <1>t, RunsFinite DEF QueueInv, QueueTypes, EntryRecords, JointMove
<1>a. /\ entries'[e] = x /\ ticket'[t] = r /\ reviewing'[e] = v
      /\ \A f \in DOMAIN entries : f # e => entries'[f] = entries[f]
      /\ \A u \in Tickets : u # t => ticket'[u] = ticket[u]
      /\ \A f \in Runs : f # e => reviewing'[f] = reviewing[f]
      /\ \A f \in DOMAIN entries :
           entries'[f].ticket = entries[f].ticket /\ entries[f].ticket \in Tickets
  BY <1>t, <1>0, RunsFinite
     DEF QueueInv, QueueTypes, JointMove, EntryRecords
<1>b. /\ x.kind = entries[e].kind /\ x.ticket = t
      /\ x.revision = entries[e].revision /\ x.attempt = entries[e].attempt
      /\ x.pool = entries[e].pool
      /\ x.state # "queued" /\ x.report = entries[e].report
      /\ r.revision = ticket[t].revision
      /\ ticket[t].owner.kind = "none" \/ ticket[t].owner = Reviewer(e)
      /\ UNCHANGED <<binding, pools, processes>>
  BY <1>t DEF JointMove
<1>c. /\ x.slotHeld => /\ IsReview(e) /\ r.owner = Reviewer(e)
                       /\ r.state = "awaiting_review"
                       /\ r.revision = x.revision /\ r.attempt = x.attempt
      /\ ~x.slotHeld => /\ r.owner.kind # "review" /\ v.stage = "none"
                        /\ e \notin processes
      /\ v.stage \in {"starting", "runtime"} => x.report = "none"
      /\ r.state # "accepted"
  BY <1>t DEF JointMove
\* No other review holds this ticket.
<1>d. ASSUME NEW f \in DOMAIN entries, f # e, entries[f].slotHeld
      PROVE  entries[f].ticket # t
  <2>1. ticket[entries[f].ticket].owner = Reviewer(f)
    BY <1>d DEF QueueInv, EntryInv, OwnedByReview
  <2> QED
    BY <1>b, <1>d, <2>1, OwnersDiffer
<1>1. QueueTypes'
  <2>1. entries \in Seq(EntryRecords) /\ e \in 1 .. Len(entries)
        /\ x \in EntryRecords
    BY DEF QueueInv, QueueTypes, JointMove
  <2>2. entries' \in Seq(EntryRecords) /\ Len(entries') = Len(entries)
    BY <1>0, <2>1, ExceptSeq
  <2>3. r \in TicketRecords /\ v \in [stage : Stages, abort : BOOLEAN]
    BY DEF JointMove
  <2> QED
    BY <1>0, <1>b, <2>2, <2>3 DEF QueueInv, QueueTypes
<1>2. ASSUME NEW f \in DOMAIN entries
      PROVE  EntryInv(f)'
  <2>1. CASE f = e
    <3>1. OwnedByReview(e)' <=> r.owner = Reviewer(e)
      BY <1>a, <1>b DEF OwnedByReview
    <3>2. x.slotHeld <=> r.owner = Reviewer(e)
      BY <1>c, OwnersDiffer
    <3>3. recovering'[e] = 0 \/ InStage(e, "none")'
      BY <1>a DEF InStage
    <3>4. InStage(e, "none")' \/ x.slotHeld
      BY <1>a, <1>c DEF InStage
    <3>5. InStage(e, "starting")' \/ InStage(e, "runtime")'
            => entries'[e].report = "none"
      BY <1>a, <1>c DEF InStage
    <3>6. x.revision <= ticket'[entries'[e].ticket].revision
      BY <1>t, <1>0, <1>a, <1>b DEF EntryInv
    <3> QED
      BY <2>1, <1>a, <1>b, <1>c, <3>1, <3>2, <3>3, <3>4, <3>5, <3>6
         DEF EntryInv, IsReview, IsQueued
  <2>2. CASE f # e
    <3>1. EntryInv(f) /\ f \in Runs /\ entries'[f] = entries[f]
          /\ reviewing'[f] = reviewing[f] /\ recovering'[f] = recovering[f]
      BY <2>2, <1>0, <1>a DEF QueueInv
    <3>2. OwnedByReview(f)' <=> OwnedByReview(f)
      <4>1. CASE entries[f].ticket # t
        BY <4>1, <1>a, <3>1 DEF OwnedByReview
      <4>2. CASE entries[f].ticket = t
        <5>1. ticket[t].owner # Reviewer(f)
          BY <1>b, <2>2, OwnersDiffer
        <5>2. r.owner # Reviewer(f)
          BY <1>c, <2>2, OwnersDiffer
        <5> QED
          BY <4>2, <5>1, <5>2, <1>a, <3>1 DEF OwnedByReview
      <4> QED
        BY <4>1, <4>2
    <3>3. ticket'[entries[f].ticket].revision = ticket[entries[f].ticket].revision
      BY <1>a, <1>b
    <3> QED
      BY <3>1, <3>2, <3>3, <1>b DEF EntryInv, IsReview, IsQueued, InStage
  <2> QED
    BY <2>1, <2>2
<1>3. ASSUME NEW u \in Tickets
      PROVE  OwnerInv(u)'
  <2>1. CASE u = t
    BY <2>1, <1>0, <1>a, <1>b, <1>c, OwnersDiffer DEF OwnerInv
  <2>2. CASE u # t
    <3>1. OwnerInv(u) /\ ticket'[u] = ticket[u]
      BY <2>2, <1>a DEF QueueInv
    <3>2. ticket[u].owner.kind = "review" => ticket[u].owner.run # e
      BY <1>t, <2>2, <3>1 DEF OwnerInv
    <3> QED
      BY <1>0, <1>a, <3>1, <3>2 DEF OwnerInv
  <2> QED
    BY <2>1, <2>2
<1>4. \A f \in Runs \ DOMAIN entries : Unused(f)'
  BY <1>a, <1>b DEF QueueInv, Unused, InStage
<1>5. ReviewedStaysPut'
  <2> SUFFICES ASSUME NEW f \in DOMAIN entries, entries'[f].slotHeld
               PROVE  LET y == ticket'[entries'[f].ticket]
                      IN /\ y.state = "awaiting_review"
                         /\ y.revision = entries'[f].revision
                         /\ y.attempt = entries'[f].attempt
    BY <1>0 DEF ReviewedStaysPut
  <2>1. CASE f = e
    BY <2>1, <1>a, <1>b, <1>c
  <2>2. CASE f # e
    BY <2>2, <1>a, <1>d DEF QueueInv, ReviewedStaysPut
  <2> QED
    BY <2>1, <2>2
<1>6. ClosedPoolQuiet'
  <2> SUFFICES ASSUME NEW p \in Pools, pools[p].state = "closed"
               PROVE  /\ \A f \in DOMAIN entries :
                           entries'[f].kind = "review" /\ entries'[f].pool = p =>
                             entries'[f].state # "queued" /\ ~entries'[f].slotHeld
                      /\ \A u \in Tickets :
                           binding[u] = p => ticket'[u].owner.kind \notin
                                               {"attempt", "verification"}
    BY <1>0, <1>b DEF ClosedPoolQuiet, IsReview, IsQueued
  <2>1. x.pool = p => ~x.slotHeld
    BY DEF JointMove
  <2>2. binding[t] = p => r.owner.kind \notin {"attempt", "verification"}
    BY <1>t, PoolAssumption DEF JointMove
  <2> QED
    BY <1>a, <1>b, <2>1, <2>2 DEF QueueInv, ClosedPoolQuiet, IsReview, IsQueued
<1>7. AcceptedOnReport'
  <2> SUFFICES ASSUME NEW u \in Tickets, ticket'[u].state = "accepted",
                      binding[u] # NoPool
               PROVE  \E f \in DOMAIN entries' : Grounds(f, u)'
    BY <1>b DEF AcceptedOnReport, Grounds, BoundReport, IsReview
  <2>1. u # t /\ ticket'[u] = ticket[u]
    BY <1>a, <1>c
  <2>2. PICK f \in DOMAIN entries : Grounds(f, u)
    BY <2>1, AcceptedOnGrounds DEF QueueInv
  <2>3. entries'[f] = entries[f]
    BY <1>t, <1>a, <2>1, <2>2 DEF Grounds, BoundReport
  <2> QED
    BY <1>0, <2>1, <2>2, <2>3 DEF Grounds, BoundReport, IsReview
<1> QED
  BY <1>0, <1>1, <1>2, <1>3, <1>4, <1>5, <1>6, <1>7 DEF Links, Runs

\* What the joint steps have in common.
LEMMA JointRest ==
  ASSUME QueueInv, NEW e \in DOMAIN entries, NEW x, NEW r, NEW v,
         JointMove(e, x, r, v), IsQueued(e) \/ entries[e].slotHeld
  PROVE  /\ SettledStep
         /\ r.owner.kind \in {"none", "uncertain"} => OrderStep
         /\ ~x.slotHeld /\ QueueTypes' => ReviewLimitHolds'
<1>1. SettledStep
  BY DEF SettledStep, JointMove, IsQueued, QueueInv, QueueTypes
<1>2. ASSUME r.owner.kind \in {"none", "uncertain"}
      PROVE  OrderStep
  BY <1>2, UnownedFacts DEF OrderStep, JointMove, QueueInv, QueueTypes
<1>3. ASSUME ~x.slotHeld, QueueTypes'
      PROVE  ReviewLimitHolds'
  <2>1. \A p \in Pools : ReviewOwned(p)' \subseteq ReviewOwned(p)
    BY <1>3 DEF JointMove, QueueInv, QueueTypes, ReviewOwned, IsReview, PoolOf
  <2> QED
    BY <1>3, <2>1, LimitKept DEF QueueInv, JointMove
<1> QED
  BY <1>1, <1>2, <1>3

LEMMA StartReviewStep ==
  ASSUME QueueInv, NEW e \in DOMAIN entries, StartReview(e)
  PROVE  GoodStep
<1>1. PICK t : t = entries[e].ticket
  OBVIOUS
<1>2. PICK x : x = [entries[e] EXCEPT !.state = "running", !.slotHeld = TRUE]
  OBVIOUS
<1>3. PICK r : r = [ticket[t] EXCEPT !.owner = Reviewer(e)]
  OBVIOUS
<1>4. PICK v : v = [reviewing[e] EXCEPT !.stage = "starting"]
  OBVIOUS
<1>5. e \in Executable /\ e = Oldest /\ HasCapacity
      /\ \A f \in Executable : e <= f
  BY OldestIsFirst DEF StartReview, MayAdmit
<1>6. /\ e \in Runs /\ entries[e] \in EntryRecords /\ t \in Tickets
      /\ IsQueued(e) /\ IsReview(e)
      /\ ~Owned(t) /\ EntryInv(e) /\ ~entries[e].slotHeld
      /\ entries[e].report = "none" /\ recovering[e] = 0
      /\ reviewing[e] \in [stage : Stages, abort : BOOLEAN]
      /\ Eligible(entries[e].pool, "review")
  BY <1>1, <1>5, ExecutableFacts
     DEF StartReview, IsReview, PoolOf, EntryInv
<1>7. /\ ticket[t] \in TicketRecords /\ ticket[t].owner.kind = "none"
      /\ ticket[t].state = "awaiting_review"
      /\ ticket[t].revision = entries[e].revision
      /\ ticket[t].attempt = entries[e].attempt
  BY <1>1, <1>6, UnownedFacts DEF StartReview, IsSubject
<1>8. /\ x \in EntryRecords /\ x.state = "running" /\ x.slotHeld
      /\ x.kind = entries[e].kind /\ x.ticket = t
      /\ x.revision = entries[e].revision /\ x.attempt = entries[e].attempt
      /\ x.pool = entries[e].pool /\ x.report = entries[e].report
  BY <1>1, <1>2, <1>6 DEF EntryRecords
<1>9. /\ r \in TicketRecords /\ r.owner = Reviewer(e)
      /\ r.state = ticket[t].state /\ r.revision = ticket[t].revision
      /\ r.attempt = ticket[t].attempt
  <2>1. Reviewer(e) \in Owners
    BY <1>6, RunsFinite, OwnersOf DEF QueueInv
  <2> QED
    BY <1>3, <1>7, <2>1 DEF TicketRecords
<1>10. v \in [stage : Stages, abort : BOOLEAN] /\ v.stage = "starting"
  BY <1>4, <1>6 DEF Stages
<1>11. /\ entries' = [entries EXCEPT ![e] = x]
       /\ ticket' = [ticket EXCEPT ![t] = r]
       /\ reviewing' = [reviewing EXCEPT ![e] = v]
       /\ UNCHANGED <<binding, pools, recovering, processes, pump>>
       /\ pump' = "pumping"
  BY <1>1, <1>2, <1>3, <1>4 DEF StartReview, Set, SetEntry, Pumping
<1>12. \A p \in Pools : x.pool = p => pools[p].state # "closed"
  BY <1>6, <1>8, PoolAssumption DEF Eligible
<1>13. JointMove(e, x, r, v)
  BY <1>1, <1>6, <1>7, <1>8, <1>9, <1>10, <1>11, <1>12, OwnersDiffer
     DEF JointMove
<1>14. Links'
  BY <1>6, <1>11, <1>13, JointChange DEF QueueInv, QueueTypes
<1>15. ReviewLimitHolds'
  <2> SUFFICES ASSUME NEW p \in Pools
               PROVE  Cardinality(ReviewOwned(p)') <= pools[p].limit
    BY <1>11 DEF ReviewLimitHolds
  <2>1. /\ IsFiniteSet(ReviewOwned(p)) /\ IsFiniteSet(ReviewOwned(p)')
        /\ Cardinality(ReviewOwned(p)) <= pools[p].limit
        /\ pools[p].limit \in Nat
    BY <1>14, OwnedCount, OwnedCountNext
       DEF QueueInv, Links, ReviewLimitHolds, QueueTypes, PoolRecords
  <2>2. /\ Cardinality(ReviewOwned(p)) \in Nat
        /\ Cardinality(ReviewOwned(p)') \in Nat
    BY <2>1, FS_CardinalityType
  <2>3. CASE entries[e].pool # p
    <3>1. ReviewOwned(p)' \subseteq ReviewOwned(p)
      BY <2>3, <1>6, <1>8, <1>11
         DEF ReviewOwned, IsReview, PoolOf, QueueInv, QueueTypes
    <3>2. Cardinality(ReviewOwned(p)') <= Cardinality(ReviewOwned(p))
      BY <2>1, <3>1, FS_Subset
    <3> QED
      BY <2>1, <2>2, <3>2
  <2>4. CASE entries[e].pool = p
    <3>1. ReviewOwned(p)' \subseteq ReviewOwned(p) \union {e}
      BY <1>8, <1>11
         DEF ReviewOwned, IsReview, PoolOf, QueueInv, QueueTypes
    <3>2. Cardinality(ReviewOwned(p)) < pools[p].limit
      BY <2>4, <1>6, PoolAssumption DEF Eligible, OwnedBy
    <3>3. /\ IsFiniteSet(ReviewOwned(p) \union {e})
          /\ Cardinality(ReviewOwned(p) \union {e})
               <= Cardinality(ReviewOwned(p)) + 1
          /\ Cardinality(ReviewOwned(p) \union {e}) \in Nat
      <4>1. /\ IsFiniteSet(ReviewOwned(p) \union {e})
            /\ \/ Cardinality(ReviewOwned(p) \union {e})
                    = Cardinality(ReviewOwned(p))
               \/ Cardinality(ReviewOwned(p) \union {e})
                    = Cardinality(ReviewOwned(p)) + 1
        BY <2>1, FS_AddElement
      <4> QED
        BY <2>2, <4>1
    <3>4. Cardinality(ReviewOwned(p)')
            <= Cardinality(ReviewOwned(p) \union {e})
      BY <3>1, <3>3, FS_Subset
    <3> QED
      BY <2>1, <2>2, <3>2, <3>3, <3>4
  <2> QED
    BY <2>3, <2>4
<1>16. CapacityShared'
  <2>1. Busy' \subseteq Busy \union {t}
    BY <1>11 DEF Busy, Owned, QueueInv, QueueTypes
  <2> QED
    BY <1>5, <2>1, CapacityKept DEF QueueInv
<1>17. NoLostWakeup'
  BY <1>11 DEF NoLostWakeup
<1>18. SettledStep
  BY <1>6, <1>13, JointRest
<1>19. OrderStep
  <2>1. entries'[e].state = "running"
    BY <1>8, <1>11 DEF QueueInv, QueueTypes
  <2>2. \A u \in Tickets : u # t => ticket'[u] = ticket[u]
    BY <1>11 DEF QueueInv, QueueTypes
  <2>3. \A u \in Tickets : ~Owned(u) => ticket[u].owner.kind = "none"
    BY UnownedFacts
  <2> QED
    BY <1>1, <1>5, <2>1, <2>2, <2>3 DEF OrderStep
<1> QED
  BY <1>14, <1>15, <1>16, <1>17, <1>18, <1>19, GoodStepIf

LEMMA DispatchStep ==
  ASSUME QueueInv, NEW e \in DOMAIN entries, DispatchOperation(e)
  PROVE  GoodStep
<1>1. PICK t : t = entries[e].ticket
  OBVIOUS
<1>2. PICK x : x = [entries[e] EXCEPT !.state = "started"]
  OBVIOUS
<1>3. PICK r : r = Begun(e)
  OBVIOUS
<1>4. e \in Executable /\ HasCapacity /\ \A f \in Executable : e <= f
  BY OldestIsFirst DEF DispatchOperation, Dispatchable, MayAdmit
<1>5. /\ e \in Runs /\ entries[e] \in EntryRecords /\ t \in Tickets
      /\ IsQueued(e) /\ ~IsReview(e) /\ InStage(e, "none")
      /\ ~Owned(t) /\ EntryInv(e) /\ ~entries[e].slotHeld
      /\ recovering[e] = 0 /\ e \notin processes
      /\ reviewing[e] \in [stage : Stages, abort : BOOLEAN]
      /\ Eligible(binding[t], entries[e].kind)
  BY <1>1, <1>4, ExecutableFacts
     DEF DispatchOperation, Dispatchable, PoolOf, EntryInv
<1>6. /\ ticket[t] \in TicketRecords /\ ticket[t].owner.kind = "none"
      /\ binding[t] \in Pools \union {NoPool}
  BY <1>5, UnownedFacts
<1>7. /\ KeepsSubject(entries[e], x) /\ x.state = "started"
      /\ x.report = entries[e].report
  BY <1>2, <1>5, StateSet DEF Settled
<1>8. r = RunStarted(ticket[t]) \/ (r = VerifyStarted(ticket[t]) /\ CanVerify(t))
  <2>1. CASE entries[e].kind = "run"
    BY <1>1, <1>3, <2>1 DEF Begun
  <2>2. CASE entries[e].kind # "run"
    BY <1>1, <1>3, <2>2 DEF Begun, DispatchOperation, Dispatchable
  <2> QED
    BY <2>1, <2>2
<1>9. /\ r \in TicketRecords /\ r.revision = ticket[t].revision
      /\ r.owner = By("attempt") \/ r.owner = By("verification")
      /\ r.state # "accepted"
  BY <1>6, <1>8, StartedRecords DEF CanVerify
<1>10. r.owner.kind \in {"attempt", "verification"}
  BY <1>9, OwnersDiffer
<1>11. /\ entries' = [entries EXCEPT ![e] = x]
       /\ ticket' = [ticket EXCEPT ![t] = r]
       /\ UNCHANGED <<binding, pools, reviewing, recovering, processes, pump>>
       /\ pump' = "pumping"
  BY <1>1, <1>2, <1>3
     DEF DispatchOperation, Dispatchable, Set, SetEntry, Pumping, memory
<1>12. reviewing' = [reviewing EXCEPT ![e] = reviewing[e]]
  BY <1>11 DEF QueueInv, QueueTypes
<1>13. binding[t] = NoPool \/ pools[binding[t]].state # "closed"
  BY <1>5, EligibleIsOpen
<1>14. JointMove(e, x, r, reviewing[e])
  BY <1>1, <1>5, <1>6, <1>7, <1>9, <1>10, <1>11, <1>12, <1>13
     DEF JointMove, KeepsSubject, InStage
<1>15. Links'
  BY <1>5, <1>11, <1>14, JointChange DEF QueueInv, QueueTypes
<1>16. ReviewLimitHolds' /\ SettledStep
  BY <1>5, <1>7, <1>14, <1>15, JointRest DEF Links, KeepsSubject
<1>17. CapacityShared'
  <2>1. Busy' \subseteq Busy \union {t}
    BY <1>11 DEF Busy, Owned, QueueInv, QueueTypes
  <2> QED
    BY <1>4, <2>1, CapacityKept DEF QueueInv
<1>18. NoLostWakeup'
  BY <1>11 DEF NoLostWakeup
<1>19. OrderStep
  <2>1. entries'[e].state = "started"
    BY <1>7, <1>11 DEF QueueInv, QueueTypes
  <2>2. \A u \in Tickets : u # t => ticket'[u] = ticket[u]
    BY <1>11 DEF QueueInv, QueueTypes
  <2>3. \A u \in Tickets : ~Owned(u) => ticket[u].owner.kind = "none"
    BY UnownedFacts
  <2> QED
    BY <1>1, <1>4, <2>1, <2>2, <2>3 DEF OrderStep
<1> QED
  BY <1>15, <1>16, <1>17, <1>18, <1>19, GoodStepIf

\* A review lets go of its ticket and its slot in one transaction.
LEMMA LetGoStep ==
  ASSUME QueueInv, NEW e \in DOMAIN entries, NEW x, NEW v,
         entries[e].slotHeld, e \notin processes,
         x \in EntryRecords, ~x.slotHeld, x.state # "queued",
         x.kind = entries[e].kind, x.ticket = entries[e].ticket,
         x.revision = entries[e].revision, x.attempt = entries[e].attempt,
         x.pool = entries[e].pool, x.report = entries[e].report,
         v \in [stage : Stages, abort : BOOLEAN], v.stage = "none",
         entries' = [entries EXCEPT ![e] = x],
         reviewing' = [reviewing EXCEPT ![e] = v],
         Set(entries[e].ticket,
             [ticket[entries[e].ticket] EXCEPT !.owner = Nobody]),
         UNCHANGED <<binding, pools, processes>>, pump' = "queued",
         recovering' \in [Runs -> Nat],
         \A f \in Runs \ {e} : recovering'[f] = recovering[f]
  PROVE  GoodStep
<1>1. PICK t : t = entries[e].ticket
  OBVIOUS
<1>2. PICK r : r = [ticket[t] EXCEPT !.owner = Nobody]
  OBVIOUS
<1>3. /\ t \in Tickets /\ ticket[t] \in TicketRecords
      /\ ticket[t].owner = Reviewer(e) /\ ticket[t].state = "awaiting_review"
      /\ ~IsQueued(e)
  BY <1>1, RunsFinite, UnownedFacts
     DEF QueueInv, EntryInv, OwnedByReview, ReviewedStaysPut, EntryRecords
<1>4. /\ r \in TicketRecords /\ r.owner = Nobody /\ r.owner.kind = "none"
      /\ r.state = "awaiting_review" /\ r.revision = ticket[t].revision
      /\ r.live = ticket[t].live
  BY <1>2, <1>3, OwnersOf, OwnersDiffer DEF TicketRecords
<1>5. ticket' = [ticket EXCEPT ![t] = r]
  BY <1>1, <1>2 DEF Set
<1>6. JointMove(e, x, r, v)
  BY <1>1, <1>3, <1>4, <1>5 DEF JointMove
<1>7. Links'
  BY <1>6, JointChange
<1>8. ReviewLimitHolds' /\ SettledStep /\ OrderStep
  BY <1>4, <1>6, <1>7, JointRest DEF Links
<1>9. CapacityShared'
  <2>1. Busy' \subseteq Busy
    BY <1>3, <1>4, <1>5 DEF Busy, Owned, QueueInv, QueueTypes
  <2> QED
    BY <2>1, CapacityKept DEF QueueInv
<1>10. NoLostWakeup'
  BY DEF NoLostWakeup
<1> QED
  BY <1>7, <1>8, <1>9, <1>10, GoodStepIf

LEMMA ReviewEndsStep ==
  ASSUME QueueInv, NEW e \in DOMAIN entries, ReviewEnds(e)
  PROVE  GoodStep
<1>1. /\ entries[e] \in EntryRecords /\ e \in Runs /\ EntryInv(e)
  BY RunsFinite DEF QueueInv
<1>2. /\ entries[e].slotHeld /\ OwnedByReview(e) /\ ~IsQueued(e)
  BY <1>1 DEF EntryInv, InStage, ReviewEnds
<1>3. PICK x : x = [entries[e] EXCEPT !.slotHeld = FALSE]
  OBVIOUS
<1>4. /\ x \in EntryRecords /\ ~x.slotHeld /\ x.state = entries[e].state
      /\ x.kind = entries[e].kind /\ x.ticket = entries[e].ticket
      /\ x.revision = entries[e].revision /\ x.attempt = entries[e].attempt
      /\ x.pool = entries[e].pool /\ x.report = entries[e].report
  BY <1>1, <1>3 DEF EntryRecords
<1>5. /\ NotReviewing \in [stage : Stages, abort : BOOLEAN]
      /\ NotReviewing.stage = "none"
  BY DEF NotReviewing, Stages
<1>6. /\ e \notin processes /\ entries' = [entries EXCEPT ![e] = x]
      /\ reviewing' = [reviewing EXCEPT ![e] = NotReviewing]
      /\ Set(entries[e].ticket,
             [ticket[entries[e].ticket] EXCEPT !.owner = Nobody])
      /\ UNCHANGED <<binding, pools, processes, recovering>>
      /\ pump' = "queued"
  BY <1>2, <1>3
     DEF ReviewEnds, SetEntry, ReleaseTicket, WakeAfterReview, Kick
<1>7. recovering' \in [Runs -> Nat]
      /\ \A f \in Runs \ {e} : recovering'[f] = recovering[f]
  BY <1>6 DEF QueueInv, QueueTypes
<1> QED
  BY <1>2, <1>4, <1>5, <1>6, <1>7, LetGoStep DEF IsQueued

LEMMA RecoverReviewEndsStep ==
  ASSUME QueueInv, NEW e \in DOMAIN entries, RecoverReviewEnds(e)
  PROVE  GoodStep
<1>1. /\ entries[e] \in EntryRecords /\ e \in Runs /\ EntryInv(e)
      /\ reviewing[e] \in [stage : Stages, abort : BOOLEAN]
      /\ recovering \in [Runs -> Nat] /\ reviewing' = reviewing
  BY RunsFinite DEF QueueInv, QueueTypes, RecoverReviewEnds
<1>2. /\ entries[e].slotHeld /\ InStage(e, "none")
      /\ e \notin processes
  BY <1>1 DEF EntryInv, RecoverReviewEnds, StillOwner
<1>3. PICK x :
        x = [entries[e] EXCEPT !.slotHeld = FALSE, !.state = "interrupted"]
  OBVIOUS
<1>4. /\ x \in EntryRecords /\ ~x.slotHeld /\ x.state = "interrupted"
      /\ x.kind = entries[e].kind /\ x.ticket = entries[e].ticket
      /\ x.revision = entries[e].revision /\ x.attempt = entries[e].attempt
      /\ x.pool = entries[e].pool /\ x.report = entries[e].report
  BY <1>1, <1>3 DEF EntryRecords, Settled
<1>5. /\ entries' = [entries EXCEPT ![e] = x]
      /\ Set(entries[e].ticket,
             [ticket[entries[e].ticket] EXCEPT !.owner = Nobody])
      /\ UNCHANGED <<binding, pools, processes>>
      /\ pump' = "queued"
      /\ recovering' = [recovering EXCEPT ![e] = @ - 1]
  BY <1>3 DEF RecoverReviewEnds, SetEntry, Kick
<1>6. recovering' \in [Runs -> Nat]
      /\ \A f \in Runs \ {e} : recovering'[f] = recovering[f]
  BY <1>1, <1>5 DEF RecoverReviewEnds
<1>7. reviewing' = [reviewing EXCEPT ![e] = reviewing[e]]
  BY <1>1 DEF QueueInv, QueueTypes
<1> QED
  BY <1>1, <1>2, <1>4, <1>5, <1>6, <1>7, LetGoStep DEF InStage

(***************************************************************************)
(* Part 7.  The controller dies and another one takes over.                *)
(***************************************************************************)
LEMMA FencedTicketRecord ==
  ASSUME NEW r \in TicketRecords, NEW y,
         y = FencedTicket(r, TRUE) \/ y = FencedTicket(r, FALSE)
  PROVE  /\ y \in TicketRecords /\ ~y.live
         /\ y.revision = r.revision /\ y.attempt = r.attempt
         /\ r.owner = Nobody \/ y = FencedTicket(r, TRUE) =>
              y.owner = r.owner /\ y.state = r.state
         /\ r.owner # Nobody /\ y = FencedTicket(r, FALSE) =>
              y.owner = By("uncertain") /\ y.state = "stopped"
<1>1. FencedTicket(r, TRUE) = [r EXCEPT !.live = FALSE]
  BY DEF FencedTicket
<1>2. CASE r.owner = Nobody \/ y = FencedTicket(r, TRUE)
  <2>1. y = [r EXCEPT !.live = FALSE]
    BY <1>1, <1>2 DEF FencedTicket
  <2>2. /\ y \in TicketRecords /\ y.owner = r.owner /\ y.state = r.state
        /\ y.revision = r.revision /\ y.attempt = r.attempt /\ ~y.live
    BY <2>1 DEF TicketRecords
  <2>3. r.owner = Nobody \/ y # FencedTicket(r, FALSE)
          \/ (y.owner = By("uncertain") /\ y.state = "stopped")
    BY <2>2 DEF FencedTicket, TicketRecords
  <2> QED
    BY <2>2, <2>3
<1>3. CASE r.owner # Nobody /\ y = FencedTicket(r, FALSE)
           /\ y # FencedTicket(r, TRUE)
  <2>1. PICK interrupted \in {"none", "execution", "verification"} :
          interrupted = IF r.interrupted # "none" THEN r.interrupted
                        ELSE IF r.owner.kind = "verification"
                             THEN "verification" ELSE "execution"
    BY DEF TicketRecords
  <2>2. y = [r EXCEPT !.interrupted = interrupted, !.owner = By("uncertain"),
                      !.live = FALSE, !.state = "stopped"]
    BY <1>3, <2>1 DEF FencedTicket
  <2>3. By("uncertain") \in Owners
    BY OwnersOf DEF OwnerKinds
  <2>4. /\ y \in TicketRecords /\ y.owner = By("uncertain")
        /\ y.state = "stopped" /\ y.revision = r.revision
        /\ y.attempt = r.attempt /\ ~y.live
    BY <2>2, <2>3 DEF TicketRecords, States
  <2> QED
    BY <1>3, <2>4
<1> QED
  BY <1>2, <1>3

LEMMA FencedEntryRecord ==
  ASSUME NEW r \in EntryRecords
  PROVE  /\ KeepsSubject(r, FencedEntry(r)) /\ FencedEntry(r).report = r.report
         /\ FencedEntry(r).state =
              IF r.slotHeld THEN "interrupted" ELSE r.state
         /\ r.state = "queued" => FencedEntry(r).suspended
<1>1. PICK state \in {"queued", "running"} \union Settled :
        state = IF r.slotHeld THEN "interrupted" ELSE r.state
  BY DEF EntryRecords, Settled
<1>2. PICK suspended \in BOOLEAN :
        suspended = IF r.state = "queued" THEN TRUE ELSE r.suspended
  BY DEF EntryRecords
<1>3. PICK x : x = [r EXCEPT !.state = state, !.suspended = suspended]
  OBVIOUS
<1>4. /\ KeepsSubject(r, x) /\ x.report = r.report /\ x.state = state
      /\ x.suspended = suspended
  BY <1>1, <1>2, <1>3 DEF KeepsSubject, EntryRecords
<1>5. FencedEntry(r) = x
  BY <1>1, <1>2, <1>3 DEF FencedEntry
<1> QED
  BY <1>1, <1>2, <1>4, <1>5

\* The tickets as the controller left them when it died: those of reviews as
\* they were, some others with an operation or a preparation just begun.
LeftAs(tickets) ==
  /\ tickets \in [Tickets -> TicketRecords]
  /\ \A u \in Tickets :
       IF OwnsTicket(u) THEN tickets[u] = ticket[u]
       ELSE /\ tickets[u].owner.kind # "review"
            /\ tickets[u].revision >= ticket[u].revision
            /\ tickets[u].state = "accepted" =>
                 /\ ticket[u].state = "accepted" /\ binding'[u] = binding[u]
                 /\ tickets[u].revision = ticket[u].revision
                 /\ tickets[u].attempt = ticket[u].attempt
  /\ \E t : \A u \in Tickets :
       tickets[u].owner = ticket[u].owner \/ (u = t /\ HasCapacity)

LEMMA RestartGood ==
  ASSUME QueueInv, NEW tickets, LeftAs(tickets),
         RestartTickets(tickets, LeftToReview), FenceQueue,
         binding' \in [Tickets -> Pools \union {NoPool}]
  PROVE  GoodStep
<1>0. /\ UNCHANGED <<pools, processes>> /\ pump' = "idle"
      /\ reviewing' = [f \in Runs |-> NotReviewing]
      /\ recovering' = [f \in Runs |-> 0]
      /\ NotReviewing.stage = "none"
      /\ NotReviewing \in [stage : Stages, abort : BOOLEAN]
  BY DEF FenceQueue, NotReviewing, Stages
<1>1. ASSUME NEW u \in Tickets
      PROVE  /\ ticket'[u] \in TicketRecords /\ ~ticket'[u].live
             /\ ticket'[u].revision >= ticket[u].revision
             /\ OwnsTicket(u) =>
                  /\ ticket'[u].owner = ticket[u].owner
                  /\ ticket'[u].state = ticket[u].state
                  /\ ticket'[u].revision = ticket[u].revision
                  /\ ticket'[u].attempt = ticket[u].attempt
             /\ ~OwnsTicket(u) => ticket'[u].owner.kind \in {"none", "uncertain"}
             /\ ticket'[u].owner = Nobody <=> tickets[u].owner = Nobody
             /\ ticket'[u].state = "accepted" =>
                  /\ ticket[u].state = "accepted"
                  /\ ~OwnsTicket(u) => binding'[u] = binding[u]
                  /\ ticket'[u].revision = ticket[u].revision
                  /\ ticket'[u].attempt = ticket[u].attempt
  <2>1. /\ tickets[u] \in TicketRecords /\ ticket[u] \in TicketRecords
        /\ u \in LeftToReview <=> OwnsTicket(u)
        /\ ticket'[u] = FencedTicket(tickets[u], u \in LeftToReview)
    BY DEF LeftAs, LeftToReview, RestartTickets, QueueInv, QueueTypes
  <2>2. CASE OwnsTicket(u)
    <3>1. /\ ticket'[u] = FencedTicket(tickets[u], TRUE)
          /\ tickets[u] = ticket[u]
      BY <2>1, <2>2 DEF LeftAs, FencedTicket
    <3>2. /\ ticket'[u] \in TicketRecords /\ ~ticket'[u].live
          /\ ticket'[u].revision = tickets[u].revision
          /\ ticket'[u].attempt = tickets[u].attempt
          /\ ticket'[u].owner = tickets[u].owner
          /\ ticket'[u].state = tickets[u].state
      BY <2>1, <3>1, FencedTicketRecord
    <3>3. ticket[u].revision \in Nat
      BY <2>1 DEF TicketRecords
    <3>4. PICK n \in Nat : n = ticket[u].revision /\ n >= n
      BY <3>3
    <3>5. /\ ticket'[u].owner = ticket[u].owner
          /\ ticket'[u].state = ticket[u].state
          /\ ticket'[u].revision = ticket[u].revision
          /\ ticket'[u].attempt = ticket[u].attempt
      BY <3>1, <3>2
    <3> QED
      BY <2>2, <3>1, <3>2, <3>4, <3>5
  <2>3. CASE ~OwnsTicket(u)
    <3>1. /\ ticket'[u] = FencedTicket(tickets[u], FALSE)
          /\ tickets[u].owner.kind # "review"
          /\ tickets[u].revision >= ticket[u].revision
          /\ tickets[u].state = "accepted" =>
               /\ ticket[u].state = "accepted" /\ binding'[u] = binding[u]
               /\ tickets[u].revision = ticket[u].revision
               /\ tickets[u].attempt = ticket[u].attempt
      BY <2>1, <2>3 DEF LeftAs, FencedTicket
    <3>2. PICK y : y = ticket'[u]
      OBVIOUS
    <3>3. /\ y \in TicketRecords /\ ~y.live
          /\ y.revision = tickets[u].revision
          /\ y.attempt = tickets[u].attempt
          /\ tickets[u].owner = Nobody =>
               y.owner = tickets[u].owner /\ y.state = tickets[u].state
          /\ tickets[u].owner # Nobody =>
               y.owner = By("uncertain") /\ y.state = "stopped"
      <4>1. PICK r \in TicketRecords : r = tickets[u]
        BY <2>1
      <4>2. y = FencedTicket(r, FALSE)
        BY <3>1, <3>2, <4>1
      <4>3. /\ y \in TicketRecords /\ ~y.live
            /\ y.revision = r.revision /\ y.attempt = r.attempt
            /\ r.owner = Nobody => y.owner = r.owner /\ y.state = r.state
        BY <4>2, FencedTicketRecord
      <4>4. r.owner # Nobody => y.owner = By("uncertain") /\ y.state = "stopped"
        BY <4>2, FencedTicketRecord
      <4> QED
        BY <4>1, <4>3, <4>4
    <3>4. /\ y.owner.kind \in {"none", "uncertain"}
          /\ y.owner = Nobody <=> tickets[u].owner = Nobody
          /\ y.state = "accepted" => tickets[u].state = "accepted"
      BY <3>3, OwnersDiffer
    <3> QED
      BY <2>3, <3>1, <3>2, <3>3, <3>4
  <2> QED
    BY <2>2, <2>3
<1>2. /\ DOMAIN entries' = DOMAIN entries
      /\ DOMAIN entries \subseteq Runs
      /\ entries' \in Seq(EntryRecords) /\ Len(entries') = Len(entries)
      /\ \A e \in DOMAIN entries :
           /\ entries[e] \in EntryRecords
           /\ KeepsSubject(entries[e], entries'[e])
           /\ entries'[e].report = entries[e].report
           /\ entries'[e].state =
                IF entries[e].slotHeld THEN "interrupted" ELSE entries[e].state
           /\ entries[e].state = "queued" => entries'[e].suspended
  <2>1. PICK n \in Nat : n = Len(entries)
    BY RunsFinite DEF QueueInv
  <2>2. /\ DOMAIN entries = 1 .. n /\ DOMAIN entries \subseteq Runs
        /\ \A e \in 1 .. n : entries[e] \in EntryRecords
    BY <2>1, RunsFinite DEF QueueInv
  <2>3. entries' = [e \in 1 .. n |-> FencedEntry(entries[e])]
    BY <2>2 DEF FenceQueue
  <2>4. ASSUME NEW e \in 1 .. n
        PROVE  /\ KeepsSubject(entries[e], entries'[e])
               /\ entries'[e].report = entries[e].report
               /\ entries'[e].state =
                    IF entries[e].slotHeld THEN "interrupted"
                                           ELSE entries[e].state
               /\ entries[e].state = "queued" => entries'[e].suspended
    BY <2>2, <2>3, FencedEntryRecord
  <2>5. entries' \in [1 .. n -> EntryRecords]
    BY <2>3, <2>4 DEF KeepsSubject
  <2>6. entries' \in Seq(EntryRecords) /\ Len(entries') = n
    BY <2>5, IsASeq, LenProperties
  <2> QED
    BY <2>1, <2>2, <2>3, <2>4, <2>6
<1>3. QueueTypes'
  <2>1. ticket' \in [Tickets -> TicketRecords]
    BY <1>1 DEF RestartTickets
  <2> QED
    BY <1>0, <1>2, <2>1 DEF QueueInv, QueueTypes
<1>4. ASSUME NEW e \in DOMAIN entries
      PROVE  EntryInv(e)'
  <2>1. PICK u \in Tickets : u = entries[e].ticket
    BY <1>2 DEF EntryRecords
  <2>2. entries'[e].ticket = u
    BY <1>2, <2>1 DEF KeepsSubject
  <2>3. EntryInv(e) /\ e \in Runs
    BY <1>2 DEF QueueInv
  <2>4. ticket'[u].owner = Reviewer(e) <=> ticket[u].owner = Reviewer(e)
    BY <1>1, ReviewersOwn, OwnersDiffer
  <2>5. entries'[e].revision <= ticket'[u].revision
    <3>1. /\ entries[e].revision <= ticket[u].revision
          /\ ticket'[u].revision >= ticket[u].revision
          /\ entries[e].revision \in Nat /\ ticket[u].revision \in Nat
          /\ ticket'[u].revision \in Nat
          /\ entries'[e].revision = entries[e].revision
      BY <1>1, <1>2, <2>1, <2>3, UnownedFacts
         DEF EntryInv, EntryRecords, TicketRecords, KeepsSubject
    <3> QED
      BY <3>1
  <2> QED
    BY <1>0, <1>2, <2>1, <2>2, <2>3, <2>4, <2>5
       DEF EntryInv, OwnedByReview, IsReview, IsQueued, InStage, KeepsSubject
<1>5. ASSUME NEW u \in Tickets
      PROVE  OwnerInv(u)'
  <2> SUFFICES ASSUME ticket'[u].owner.kind = "review"
               PROVE  OwnerInv(u)'
    BY DEF OwnerInv
  <2>1. OwnsTicket(u) /\ ticket'[u].owner = ticket[u].owner
    BY <1>1
  <2> QED
    BY <1>2, <2>1 DEF QueueInv, OwnerInv, KeepsSubject
<1>6. \A f \in Runs \ DOMAIN entries : Unused(f)'
  BY <1>0 DEF QueueInv, Unused, InStage
<1>7. ReviewedStaysPut'
  <2> SUFFICES ASSUME NEW e \in DOMAIN entries, entries'[e].slotHeld
               PROVE  LET r == ticket'[entries'[e].ticket]
                      IN /\ r.state = "awaiting_review"
                         /\ r.revision = entries'[e].revision
                         /\ r.attempt = entries'[e].attempt
    BY <1>2 DEF ReviewedStaysPut
  <2>1. PICK u \in Tickets : u = entries[e].ticket
    BY <1>2 DEF EntryRecords
  <2>2. entries[e].slotHeld /\ entries'[e].ticket = u
    BY <1>2, <2>1 DEF KeepsSubject
  <2>3. OwnsTicket(u)
    BY <2>1, <2>2 DEF QueueInv, EntryInv, OwnedByReview, OwnsTicket
  <2> QED
    BY <1>1, <1>2, <2>1, <2>2, <2>3
       DEF QueueInv, ReviewedStaysPut, KeepsSubject
<1>8. ClosedPoolQuiet'
  <2>1. \A u \in Tickets :
          ticket'[u].owner.kind \notin {"attempt", "verification"}
    BY <1>1, ReviewersOwn
  <2> QED
    BY <1>0, <1>2, <2>1
       DEF QueueInv, ClosedPoolQuiet, IsReview, IsQueued, KeepsSubject
<1>9. AcceptedOnReport'
  <2> SUFFICES ASSUME NEW u \in Tickets, ticket'[u].state = "accepted",
                      binding'[u] # NoPool
               PROVE  \E e \in DOMAIN entries' : Grounds(e, u)'
    BY DEF AcceptedOnReport, Grounds, BoundReport, IsReview
  <2>1. ~OwnsTicket(u)
    <3> SUFFICES ASSUME OwnsTicket(u)
                 PROVE  FALSE
      OBVIOUS
    <3>1. PICK e \in DOMAIN entries :
            entries[e].slotHeld /\ ticket[u].owner = Reviewer(e)
      BY DEF OwnsTicket
    <3>2. ticket[u].owner.kind = "review" /\ ticket[u].owner.run = e
      BY <3>1, OwnersDiffer
    <3>3. entries[e].ticket = u
      BY <3>2 DEF QueueInv, OwnerInv
    <3>4. ticket[u].state = "awaiting_review"
      BY <3>1, <3>3 DEF QueueInv, ReviewedStaysPut
    <3> QED
      BY <1>1, <3>4
  <2>2. /\ ticket[u].state = "accepted" /\ binding[u] # NoPool
        /\ ticket'[u].revision = ticket[u].revision
        /\ ticket'[u].attempt = ticket[u].attempt
    BY <1>1, <2>1
  <2>3. PICK e \in DOMAIN entries : Grounds(e, u)
    BY <2>2, AcceptedOnGrounds DEF QueueInv
  <2> QED
    BY <1>2, <2>2, <2>3 DEF Grounds, BoundReport, IsReview, KeepsSubject
<1>10. ReviewLimitHolds'
  <2>1. \A p \in Pools : ReviewOwned(p)' = ReviewOwned(p)
    BY <1>2 DEF ReviewOwned, IsReview, PoolOf, KeepsSubject
  <2> QED
    BY <1>0, <2>1 DEF QueueInv, ReviewLimitHolds
<1>11. CapacityShared'
  <2>1. PICK t : \A u \in Tickets :
          tickets[u].owner = ticket[u].owner \/ (u = t /\ HasCapacity)
    BY DEF LeftAs
  <2>2. \A u \in Tickets : u \in Busy' <=> tickets[u].owner # Nobody
    BY <1>1 DEF Busy, Owned
  <2>3. Busy' \subseteq Busy \union {t}
    BY <2>1, <2>2 DEF Busy, Owned
  <2>4. Busy' \subseteq Busy \/ HasCapacity
    BY <2>1, <2>2 DEF Busy, Owned
  <2> QED
    BY <2>3, <2>4, CapacityKept DEF QueueInv
<1>12. NoLostWakeup'
  <2>1. \A e \in DOMAIN entries :
          IsQueued(e)' => entries'[e].suspended
    BY <1>2 DEF IsQueued
  <2>2. Executable' = {}
    BY <1>2, <2>1 DEF Executable
  <2> QED
    BY <2>2 DEF NoLostWakeup, Startable
<1>13. SettledStep
  BY <1>2 DEF SettledStep, KeepsSubject
<1>14. OrderStep
  BY <1>1, ReviewersOwn, UnownedFacts DEF OrderStep
<1>15. Links'
  BY <1>2, <1>3, <1>4, <1>5, <1>6, <1>7, <1>8, <1>9 DEF Links, Runs
<1> QED
  BY <1>10, <1>11, <1>12, <1>13, <1>14, <1>15, GoodStepIf

LEMMA RestartStep ==
  ASSUME QueueInv, Restart
  PROVE  GoodStep
<1>1. \A u \in Tickets : /\ ticket[u] \in TicketRecords
                         /\ ticket[u].revision \in Nat
  BY UnownedFacts DEF TicketRecords
<1>2. LeftAs(ticket)
  BY <1>1, ReviewersOwn DEF LeftAs, Restart, QueueInv, QueueTypes
<1> QED
  BY <1>2, RestartGood DEF Restart, QueueInv, QueueTypes

\* A ticket nobody owns belongs to no review.
LEMMA UnownedIsNoReviewers ==
  ASSUME QueueInv, NEW t \in Tickets, ~Owned(t)
  PROVE  ~OwnsTicket(t) /\ ticket[t].owner.kind = "none"
BY UnownedFacts, ReviewersOwn

LEMMA RestartInDispatchStep ==
  ASSUME QueueInv, NEW e \in DOMAIN entries, RestartInDispatch(e)
  PROVE  GoodStep
<1>1. PICK t : t = entries[e].ticket
  OBVIOUS
<1>2. PICK r : r = Begun(e)
  OBVIOUS
<1>3. PICK tickets : tickets = [ticket EXCEPT ![t] = r]
  OBVIOUS
<1>4. e \in Executable /\ HasCapacity
  BY OldestIsFirst DEF RestartInDispatch, Dispatchable, MayAdmit
<1>5. t \in Tickets /\ ~Owned(t) /\ ticket[t] \in TicketRecords
  BY <1>1, <1>4, ExecutableFacts, UnownedFacts
<1>6. r = RunStarted(ticket[t]) \/ (r = VerifyStarted(ticket[t]) /\ CanVerify(t))
  <2>1. CASE entries[e].kind = "run"
    BY <1>1, <1>2, <2>1 DEF Begun
  <2>2. CASE entries[e].kind # "run"
    BY <1>1, <1>2, <2>2 DEF Begun, RestartInDispatch, Dispatchable
  <2> QED
    BY <2>1, <2>2
<1>7. /\ r \in TicketRecords /\ r.revision = ticket[t].revision
      /\ r.owner.kind # "review" /\ r.state # "accepted"
      /\ ticket[t].revision \in Nat
  BY <1>5, <1>6, StartedRecords, OwnersDiffer DEF CanVerify, TicketRecords
<1>8. LeftAs(tickets)
  <2>1. \A u \in Tickets : /\ ticket[u] \in TicketRecords
                           /\ ticket[u].revision \in Nat
    BY UnownedFacts DEF TicketRecords
  <2>2. ~OwnsTicket(t)
    BY <1>5, UnownedIsNoReviewers
  <2>3. binding' = binding
    BY DEF RestartInDispatch
  <2>4. /\ tickets \in [Tickets -> TicketRecords] /\ tickets[t] = r
        /\ \A u \in Tickets : u # t => tickets[u] = ticket[u]
    BY <1>3, <1>5, <1>7 DEF QueueInv, QueueTypes
  <2> QED
    BY <1>4, <1>7, <2>1, <2>2, <2>3, <2>4, ReviewersOwn DEF LeftAs
<1>9. /\ RestartTickets(tickets, LeftToReview) /\ FenceQueue
      /\ binding' \in [Tickets -> Pools \union {NoPool}]
  BY <1>1, <1>2, <1>3 DEF RestartInDispatch, QueueInv, QueueTypes
<1> QED
  BY <1>8, <1>9, RestartGood

LEMMA RestartInPrepareStep ==
  ASSUME QueueInv, NEW t \in Tickets, NEW p \in Pools \union {NoPool},
         RestartInPrepare(t, p)
  PROVE  GoodStep
<1>1. PICK r : r = Reserved(ticket[t], "stopped")
  OBVIOUS
<1>2. PICK tickets : tickets = [ticket EXCEPT ![t] = r]
  OBVIOUS
<1>3. /\ ~Owned(t) /\ ticket[t] \in TicketRecords /\ ~OwnsTicket(t)
      /\ ticket[t].owner.kind = "none"
  BY UnownedFacts, UnownedIsNoReviewers DEF RestartInPrepare, RestartPreparing
<1>4. /\ r \in TicketRecords /\ r.owner = ticket[t].owner
      /\ r.state = "stopped" /\ r.revision >= ticket[t].revision
  BY <1>1, <1>3, ReservedRecord DEF States
<1>5. /\ RestartTickets(tickets, LeftToReview) /\ FenceQueue
      /\ binding' = [binding EXCEPT ![t] = p]
  BY <1>1, <1>2 DEF RestartInPrepare, RestartPreparing
<1>6. LeftAs(tickets)
  <2>1. \A u \in Tickets : /\ ticket[u] \in TicketRecords
                           /\ ticket[u].revision \in Nat
    BY UnownedFacts DEF TicketRecords
  <2>2. \A u \in Tickets : u # t => binding'[u] = binding[u]
    BY <1>5 DEF QueueInv, QueueTypes
  <2>3. /\ tickets \in [Tickets -> TicketRecords] /\ tickets[t] = r
        /\ \A u \in Tickets : u # t => tickets[u] = ticket[u]
    BY <1>2, <1>4 DEF QueueInv, QueueTypes
  <2> QED
    BY <1>3, <1>4, <2>1, <2>2, <2>3, ReviewersOwn DEF LeftAs
<1>7. binding' \in [Tickets -> Pools \union {NoPool}]
  BY <1>5 DEF QueueInv, QueueTypes
<1> QED
  BY <1>5, <1>6, <1>7, RestartGood

(***************************************************************************)
(* Part 8.  Every step, and the theorems.                                  *)
(***************************************************************************)
LEMMA StutterStep ==
  ASSUME QueueInv, UNCHANGED vars
  PROVE  GoodStep
<1>1. UNCHANGED <<ticket, binding, pools, entries, reviewing, recovering,
                  processes, pump>>
  BY DEF vars
<1>2. /\ QueueTypes' /\ \A e \in DOMAIN entries : EntryInv(e)'
      /\ \A e \in Runs \ DOMAIN entries : Unused(e)'
  BY <1>1
     DEF QueueInv, QueueTypes, EntryInv, OwnedByReview, IsReview, IsQueued,
         InStage, Unused
<1> QED
  <2>1. UNCHANGED <<ticket, binding, pools, entries, pump>>
    BY <1>1
  <2> QED
    BY <1>2, <2>1, AsideStep

LEMMA TicketSteps ==
  ASSUME QueueInv, NEW t \in Tickets, TicketStep(t)
  PROVE  GoodStep
<1>1. CASE RequestReview(t) \/ Schedule(t, "run") \/ Schedule(t, "verify")
  BY <1>1, RequestStepGood
<1>2. CASE \E p \in Pools \union {NoPool} : Prepare(t, p) \/ RestartInPrepare(t, p)
  BY <1>2, PrepareStep, RestartInPrepareStep
<1>3. CASE PrepareAgain(t) \/ DirectRun(t) \/ DirectVerify(t)
  BY <1>3, PrepareAgainStep, DirectStep
<1>4. CASE OperationEnds(t) \/ Recover(t) \/ Edit(t)
  BY <1>4, OperationEndsStep, RecoverStep, EditStep
<1>5. CASE \E verdict \in {"accept", "request_changes", "blocked"} :
             Decide(t, verdict)
  BY <1>5, DecideStep
<1> QED
  BY <1>1, <1>2, <1>3, <1>4, <1>5 DEF TicketStep

LEMMA EntrySteps ==
  ASSUME QueueInv, NEW e \in DOMAIN entries, EntryStep(e)
  PROVE  GoodStep
<1>1. CASE CancelScheduled(e) \/ CancelReview(e)
  BY <1>1, CancelScheduledStep, CancelReviewStep
<1>2. CASE ReviewEnters(e)
  BY <1>2, ReviewEntersStep
<1>3. CASE ReviewReports(e) \/ ReviewThrows(e) \/ ReviewEndsUncertain(e)
  BY <1>3, BodyStep
<1>4. CASE ReviewEnds(e) \/ RecoverReviewEnds(e)
  BY <1>4, ReviewEndsStep, RecoverReviewEndsStep
<1>5. CASE RecoverReview(e) \/ RecoverReviewFails(e) \/ ReviewProcessesExit(e)
  BY <1>5, RecoveriesStep
<1> QED
  BY <1>1, <1>2, <1>3, <1>4, <1>5 DEF EntryStep

LEMMA PumpSteps ==
  ASSUME QueueInv, PumpStep
  PROVE  GoodStep
BY PumpStartStep, PumpEndStep, StartReviewStep, DispatchStep,
   AdmissionFailsStep
   DEF PumpStep

LEMMA QueueStep ==
  ASSUME QueueInv, [Next]_vars
  PROVE  GoodStep
<1>1. CASE PumpStep
  BY <1>1, PumpSteps
<1>2. CASE RequestStep
  BY <1>2, ConfigureStep, EntrySteps, TicketSteps DEF RequestStep
<1>3. CASE Restart \/ \E e \in DOMAIN entries : RestartInDispatch(e)
  BY <1>3, RestartStep, RestartInDispatchStep
<1>4. CASE UNCHANGED vars
  BY <1>4, StutterStep
<1> QED
  BY <1>1, <1>2, <1>3, <1>4 DEF Next

LEMMA QueueInit ==
  ASSUME Init
  PROVE  QueueInv
<1>1. NoTicket \in TicketRecords /\ NoTicket.owner = Nobody
      /\ NoTicket.state = "absent"
  BY OwnersOf DEF NoTicket, TicketRecords, States
<1>2. NoPoolConfig \in PoolRecords /\ NoPoolConfig.limit = 0
      /\ NoPoolConfig.state = "absent"
  BY DEF NoPoolConfig, PoolRecords
<1>3. /\ NotReviewing \in [stage : Stages, abort : BOOLEAN]
      /\ NotReviewing.stage = "none"
  BY DEF NotReviewing, Stages
<1>4. entries \in Seq(EntryRecords) /\ Len(entries) = 0 /\ DOMAIN entries = {}
  BY DEF Init
<1>5. QueueTypes
  BY <1>1, <1>2, <1>3, <1>4, QueueAssumption DEF Init, QueueTypes
<1>6. \A t \in Tickets : OwnerInv(t)
  BY <1>1, OwnersDiffer DEF Init, OwnerInv
<1>7. \A e \in Runs : Unused(e)
  BY <1>3 DEF Init, Unused, InStage
<1>8. ReviewedStaysPut /\ NoLostWakeup /\ AcceptedOnReport
  BY <1>1, <1>4
     DEF Init, ReviewedStaysPut, NoLostWakeup, Startable, Executable,
         AcceptedOnReport
<1>9. ClosedPoolQuiet
  BY <1>2 DEF Init, ClosedPoolQuiet
<1>10. CapacityShared
  <2>1. Busy = {}
    BY <1>1 DEF Init, Busy, Owned, NoTicket
  <2> QED
    BY <2>1, FS_EmptySet, QueueAssumption DEF CapacityShared
<1>11. ReviewLimitHolds
  <2>1. \A p \in Pools : ReviewOwned(p) = {}
    BY <1>4 DEF ReviewOwned
  <2>2. \A p \in Pools : Cardinality(ReviewOwned(p)) = 0
    BY <2>1, FS_EmptySet
  <2> QED
    BY <1>2, <2>2 DEF Init, ReviewLimitHolds
<1> QED
  BY <1>4, <1>5, <1>6, <1>7, <1>8, <1>9, <1>10, <1>11 DEF QueueInv

\* The inductive invariant holds: types, the link between every slot and its
\* ticket's owner, and the conjuncts the theorems below name.
THEOREM QueueInvariant == Spec => []QueueInv
<1>1. QueueInv /\ [Next]_vars => QueueInv'
  BY QueueStep DEF GoodStep
<1> QED
  BY QueueInit, <1>1, PTL DEF Spec

LEMMA SlotIsOwnershipIf == QueueInv => SlotIsOwnership
<1> SUFFICES ASSUME QueueInv PROVE SlotIsOwnership
  OBVIOUS
<1>1. \A e \in DOMAIN entries : /\ entries[e].slotHeld <=> OwnedByReview(e)
                                /\ e \in processes => entries[e].slotHeld
  BY DEF QueueInv, EntryInv
<1>2. \A t \in Tickets :
        ticket[t].owner.kind = "review" =>
          \E e \in DOMAIN entries : entries[e].slotHeld /\ entries[e].ticket = t
  BY DEF QueueInv, OwnerInv
<1> QED
  BY <1>1, <1>2 DEF SlotIsOwnership

\* A review's slot is held exactly while the run owns its ticket, and a run
\* with living processes holds its slot, whatever crashes, recoveries and
\* cancellations race.
THEOREM SlotIsOwnershipTheorem == Spec => []SlotIsOwnership
BY QueueInvariant, SlotIsOwnershipIf, PTL

\* A reviewed ticket stays at the reviewed revision and attempt, awaiting
\* review, until the review lets go of it, across restarts too.
THEOREM ReviewedStaysPutTheorem == Spec => []ReviewedStaysPut
<1>1. QueueInv => ReviewedStaysPut
  BY DEF QueueInv
<1> QED
  BY QueueInvariant, <1>1, PTL

\* Reviews, operations and fenced tickets together never take more than the
\* service's capacity.
THEOREM CapacitySharedTheorem == Spec => []CapacityShared
<1>1. QueueInv => CapacityShared
  BY DEF QueueInv
<1> QED
  BY QueueInvariant, <1>1, PTL

\* No pool has more reviews than its limit, while limits change and drain.
THEOREM ReviewLimitTheorem == Spec => []ReviewLimitHolds
<1>1. QueueInv => ReviewLimitHolds
  BY DEF QueueInv
<1> QED
  BY QueueInvariant, <1>1, PTL

\* A closed pool has no queued and no running review, and no ticket bound to
\* it is executed or verified.
THEOREM ClosedPoolTheorem == Spec => []ClosedPoolQuiet
<1>1. QueueInv => ClosedPoolQuiet
  BY DEF QueueInv
<1> QED
  BY QueueInvariant, <1>1, PTL

\* Whenever a current entry could start, a pump is queued or running: no
\* action that makes room or makes work forgets to kick.
THEOREM NoLostWakeupTheorem == Spec => []NoLostWakeup
<1>1. QueueInv => NoLostWakeup
  BY DEF QueueInv
<1> QED
  BY QueueInvariant, <1>1, PTL

\* An accepted ticket of a pool has its conclusive, released report of the
\* accepted revision and attempt.
THEOREM AcceptedOnReportTheorem == Spec => []AcceptedOnReport
<1>1. QueueInv => AcceptedOnReport
  BY DEF QueueInv
<1> QED
  BY QueueInvariant, <1>1, PTL

\* An entry that has left the queue never returns to it, ends once, and keeps
\* its report: nothing is dispatched twice.
THEOREM SettledIsFinalTheorem == Spec => SettledIsFinal
<1>1. QueueInv /\ [Next]_vars => [SettledStep]_vars
  BY QueueStep DEF GoodStep
<1> QED
  BY QueueInvariant, <1>1, PTL DEF Spec, SettledIsFinal, SettledStep

\* Whatever starts an execution, a verification or a review leaves no older
\* executable entry behind: a direct call finds none, the pump takes the first.
THEOREM NoOvertakingTheorem == Spec => NoOvertaking
<1>1. QueueInv /\ [Next]_vars => [OrderStep]_vars
  BY QueueStep DEF GoodStep
<1> QED
  BY QueueInvariant, <1>1, PTL DEF Spec, NoOvertaking, OrderStep
=============================================================================
