------------------------ MODULE RuntimeSessionProofs ------------------------
(***************************************************************************)
(* Machine-checked proofs about one attempt in the runtime adapter, for    *)
(* every set of instructions and queues of any length: the session keeps   *)
(* the runtime's contract, and its reported termination is true.           *)
(***************************************************************************)
EXTENDS RuntimeSessionProperties, Naturals, TLAPS

(***************************************************************************)
(* Part 1.  Channels.                                                      *)
(***************************************************************************)
ToRunner == [type : {"start", "cancel"}]
              \union [type : {"instruction"}, id : Instructions]
Outcomes == [type : {"outcome"}, receipt : BOOLEAN, error : BOOLEAN,
             closed : BOOLEAN]
Answers == [type : {"instruction-result"}, id : Instructions, ok : BOOLEAN]
ToService == [type : {"ready"}] \union Answers \union Outcomes

\* Sending adds a message at the end and keeps the others where they are.
LEMMA AppendFacts ==
  ASSUME NEW S, NEW s \in Seq(S), NEW m \in S
  PROVE  /\ Append(s, m) \in Seq(S)
         /\ Len(Append(s, m)) = Len(s) + 1
         /\ \A k \in 1 .. Len(s) : Append(s, m)[k] = s[k]
         /\ Append(s, m)[Len(s) + 1] = m
OBVIOUS

\* Receiving takes the first message and moves the others up.
LEMMA TailFacts ==
  ASSUME NEW S, NEW s \in Seq(S), s # << >>
  PROVE  /\ Tail(s) \in Seq(S)
         /\ Len(s) > 0 /\ Len(Tail(s)) = Len(s) - 1
         /\ \A k \in 1 .. Len(s) - 1 : Tail(s)[k] = s[k + 1]
         /\ Head(s) = s[1] /\ Head(s) \in S
OBVIOUS

(***************************************************************************)
(* Part 2.  The inductive invariant.                                       *)
(***************************************************************************)
SessionTypes ==
  /\ phase \in {"idle", "waiting", "exited", "returned", "dead"}
  /\ {aborted, started, connected, overdue, scanFailed, exitOk, cancelled,
      spliced, runFailed, accepting} \subseteq BOOLEAN
  /\ termination \in {"completed", "cancelled", "timeout"}
  /\ outcome \in {NoOutcome} \union Outcomes
  /\ receipt \in [Instructions -> {"none", "waiting", "received", "rejected"}]
  /\ toRunner \in Seq(ToRunner) /\ toService \in Seq(ToService)
  /\ runner \in {"none", "booting", "waiting", "preparing", "running",
                 "closing", "reported", "exited", "crashed"}
  /\ prompting \subseteq Instructions /\ taken \subseteq Instructions
  /\ others \subseteq {"harness", "tool"}

Asked(i) == receipt[i] \in {"waiting", "rejected"}
IsInstruction(k) == toRunner[k].type = "instruction"
Underway(i) == \E k \in 1 .. Len(toRunner) :
                 IsInstruction(k) /\ toRunner[k].id = i

\* An instruction is in one place: in the channel, at the harness or answered.
Delivered ==
  /\ \A k \in 1 .. Len(toRunner) : IsInstruction(k) =>
       /\ Asked(toRunner[k].id) /\ toRunner[k].id \notin prompting
       /\ \A j \in 1 .. Len(toRunner) :
            IsInstruction(j) /\ toRunner[j].id = toRunner[k].id => j = k
  /\ \A i \in prompting : Asked(i)
  /\ \A k \in 1 .. Len(toService) :
       toService[k].type = "instruction-result" =>
         LET i == toService[k].id
         IN /\ receipt[i] # "none"
            /\ i \notin prompting /\ ~Underway(i)
            /\ toService[k].ok => i \in taken

\* Nobody waits for an answer before the runner is there or after its exit.
NoneWaits == phase \notin {"waiting", "dead"} => Waiting = {}

Ended == {"reported", "exited", "crashed"}

\* The runner works only if it was let go, and reports only what happened.
LetGoFirst ==
  /\ \A k \in 1 .. Len(toRunner) : toRunner[k].type = "start" => started
  /\ runner \in {"preparing", "running", "closing", "reported", "exited"}
       => started
  /\ phase = "idle" => ~started /\ runner = "none"
Reported(m) ==
  m.type = "outcome" => runner \in Ended /\ (m.error \/ ~runFailed)
ReportsTrue ==
  /\ \A k \in 1 .. Len(toService) : Reported(toService[k])
  /\ Reported(outcome)
  /\ exitOk => runner = "exited"
  /\ runner = "exited" => "harness" \notin others
NoAbortLost ==
  phase = "waiting" /\ started /\ aborted => termination # "completed"
Completed == result # NoResult /\ result.termination = "completed"
CompletedTrue ==
  Completed =>
    started /\ ~runFailed /\ runner = "exited" /\ "harness" \notin others

SessionInv ==
  /\ SessionTypes /\ Delivered /\ NoneWaits
  /\ LetGoFirst /\ ReportsTrue /\ NoAbortLost /\ CompletedTrue

(***************************************************************************)
(* Part 3.  What an action does to the channels and the receipts.          *)
(***************************************************************************)
\* Instructions only get rejected, and only while somebody waits for them.
OnlyRejects ==
  \A i \in Instructions :
    \/ receipt'[i] = receipt[i]
    \/ receipt[i] = "waiting" /\ receipt'[i] = "rejected"

NoNewInstruction ==
  /\ toRunner' \in Seq(ToRunner)
  /\ \E d \in {0, 1} : \A k \in 1 .. Len(toRunner') :
       toRunner'[k].type = "instruction" =>
         k + d \in 1 .. Len(toRunner) /\ toRunner'[k] = toRunner[k + d]
NoNewStart ==
  \A k \in 1 .. Len(toRunner') : toRunner'[k].type = "start" =>
    \E j \in 1 .. Len(toRunner) : toRunner'[k] = toRunner[j]
\* The service finds nothing new but the message m.
Only(m) ==
  /\ toService' \in Seq(ToService)
  /\ \A k \in 1 .. Len(toService') :
       toService'[k] = m \/ \E j \in 1 .. Len(toService) :
                              toService'[k] = toService[j]

LEMMA SendFacts ==
  ASSUME SessionTypes, NEW m \in ToRunner, toRunner' = Append(toRunner, m),
         m.type # "instruction"
  PROVE  NoNewInstruction /\ (m.type # "start" => NoNewStart)
<1>1. toRunner \in Seq(ToRunner)
  BY DEF SessionTypes
<1> QED
  BY <1>1, AppendFacts DEF NoNewInstruction, NoNewStart

LEMMA SendCancelFacts ==
  ASSUME SessionTypes, SendCancel
  PROVE  NoNewInstruction /\ NoNewStart
<1>1. CASE toRunner' = toRunner
  BY <1>1 DEF SessionTypes, NoNewInstruction, NoNewStart
<1>2. CASE toRunner' = Append(toRunner, [type |-> "cancel"])
  BY <1>2, SendFacts DEF ToRunner
<1> QED
  BY <1>1, <1>2 DEF SendCancel

LEMMA ReadFacts ==
  ASSUME SessionTypes, toRunner # << >>, toRunner' = Tail(toRunner)
  PROVE  NoNewInstruction /\ NoNewStart
<1>1. toRunner \in Seq(ToRunner)
  BY DEF SessionTypes
<1> QED
  BY <1>1, TailFacts DEF NoNewInstruction, NoNewStart

LEMMA SayFacts ==
  ASSUME SessionTypes, NEW m \in ToService, NEW r, Say(m, r)
  PROVE  Only(m) /\ (runner' = "crashed" \/ runner' = r)
<1>1. toService \in Seq(ToService)
  BY DEF SessionTypes
<1> QED
  BY <1>1, AppendFacts DEF Say, Only

LEMMA HandleFacts ==
  ASSUME SessionTypes, NEW type, Handles(type), NEW m
  PROVE  /\ Only(m) /\ Head(toService) = toService[1]
         /\ Head(toService) \in ToService /\ 1 \in 1 .. Len(toService)
<1>1. toService \in Seq(ToService)
  BY DEF SessionTypes
<1> QED
  BY <1>1, TailFacts DEF Handles, Only

LEMMA DeliveredStep ==
  ASSUME SessionInv, NoNewInstruction, NEW m, Only(m),
         NEW S \in SUBSET Instructions, prompting' \subseteq prompting \union S,
         \A i \in S : /\ Asked(i)' /\ ~Underway(i)'
                      /\ \A k \in 1 .. Len(toService) :
                           toService[k].type = "instruction-result" =>
                             toService[k].id # i,
         m.type = "instruction-result" =>
           /\ m \in Answers /\ receipt[m.id] # "none"
           /\ m.id \notin prompting' /\ ~Underway(m.id)'
           /\ m.ok => m.id \in taken,
         taken \subseteq taken', OnlyRejects
  PROVE  Delivered'
<1>1. PICK d \in {0, 1} : \A k \in 1 .. Len(toRunner') :
        toRunner'[k].type = "instruction" =>
          k + d \in 1 .. Len(toRunner) /\ toRunner'[k] = toRunner[k + d]
  BY DEF NoNewInstruction
<1>2. \A i \in Instructions : receipt'[i] = receipt[i]
                             \/ (Asked(i) /\ Asked(i)')
  BY DEF OnlyRejects, Asked
<1>3. \A k \in 1 .. Len(toRunner) :
        IsInstruction(k) => toRunner[k].id \in Instructions
  BY DEF SessionInv, SessionTypes, IsInstruction, ToRunner
<1>4. \A i \in Instructions : Asked(i) => Asked(i)'
  BY <1>2 DEF Asked
<1>5. ASSUME NEW k \in 1 .. Len(toRunner'), IsInstruction(k)'
      PROVE  (/\ Asked(toRunner[k].id) /\ toRunner[k].id \notin prompting
              /\ \A j \in 1 .. Len(toRunner) :
                   IsInstruction(j) /\ toRunner[j].id = toRunner[k].id
                     => j = k)'
  <2>1. k + d \in 1 .. Len(toRunner) /\ IsInstruction(k + d)
        /\ toRunner'[k] = toRunner[k + d]
    BY <1>1, <1>5 DEF IsInstruction
  <2>2. Asked(toRunner[k + d].id) /\ toRunner[k + d].id \notin prompting
    BY <2>1 DEF SessionInv, Delivered
  <2>5. toRunner'[k].id \notin S
    BY <1>5 DEF Underway
  <2>3. ASSUME NEW j \in 1 .. Len(toRunner'), IsInstruction(j)',
               toRunner'[j].id = toRunner'[k].id
        PROVE  j = k
    <3>1. j + d \in 1 .. Len(toRunner) /\ IsInstruction(j + d)
          /\ toRunner'[j] = toRunner[j + d]
      BY <1>1, <2>3 DEF IsInstruction
    <3>2. j + d = k + d
      BY <2>1, <2>3, <3>1 DEF SessionInv, Delivered
    <3> QED
      BY <3>2
  <2>4. Asked(toRunner[k].id)'
    BY <1>3, <1>4, <2>1, <2>2 DEF Asked
  <2> QED
    BY <2>1, <2>2, <2>3, <2>4, <2>5
<1>6. \A i \in prompting' : Asked(i)'
  BY <1>4 DEF SessionInv, SessionTypes, Delivered
<1>7. \A i \in Instructions : ~Underway(i) => ~Underway(i)'
  BY <1>1 DEF Underway, IsInstruction
<1>8. ASSUME NEW k \in 1 .. Len(toService'),
             toService'[k].type = "instruction-result"
      PROVE  (LET i == toService[k].id
              IN /\ receipt[i] # "none"
                 /\ i \notin prompting /\ ~Underway(i)
                 /\ toService[k].ok => i \in taken)'
  <2> SUFFICES ASSUME toService'[k] # m
               PROVE  (LET i == toService[k].id
                       IN /\ receipt[i] # "none"
                          /\ i \notin prompting /\ ~Underway(i)
                          /\ toService[k].ok => i \in taken)'
    <3>1. CASE toService'[k] = m
      <4>1. PICK i \in Instructions : i = m.id
        BY <1>8, <3>1 DEF Answers
      <4>2. /\ receipt'[i] # "none" /\ i \notin prompting'
            /\ ~Underway(i)'
            /\ m.ok => i \in taken'
        BY <1>2, <1>8, <3>1, <4>1 DEF Asked
      <4> QED
        BY <3>1, <4>1, <4>2 DEF Underway, IsInstruction
    <3> QED
      BY <3>1
  <2>1. PICK j \in 1 .. Len(toService) : toService'[k] = toService[j]
    BY <1>8 DEF Only
  <2>2. PICK i \in Instructions : i = toService[j].id
    BY <1>8, <2>1
       DEF SessionInv, SessionTypes, ToService, Answers, Outcomes
  <2>3. /\ receipt[i] # "none" /\ i \notin prompting /\ ~Underway(i)
        /\ toService[j].ok => i \in taken
    BY <1>8, <2>1, <2>2 DEF SessionInv, Delivered
  <2>4. /\ receipt'[i] # "none" /\ i \notin prompting' /\ ~Underway(i)'
        /\ toService[j].ok => i \in taken'
    BY <1>2, <1>7, <1>8, <2>1, <2>2, <2>3 DEF Asked
  <2> QED
    BY <2>1, <2>2, <2>4 DEF Underway, IsInstruction
<1> QED
  BY <1>5, <1>6, <1>8 DEF Delivered

\* A step that prompts nothing and answers nothing.
LEMMA DeliveredQuiet ==
  ASSUME SessionInv, NoNewInstruction, NEW m, Only(m),
         m.type # "instruction-result", prompting' = prompting,
         taken \subseteq taken', OnlyRejects
  PROVE  Delivered'
<1>1. /\ {} \in SUBSET Instructions
      /\ prompting' \subseteq prompting \union {}
  OBVIOUS
<1> QED
  BY <1>1, DeliveredStep

(***************************************************************************)
(* Part 4.  One lemma per action of the service.                           *)
(***************************************************************************)
LEMMA StillFacts ==
  ASSUME SessionTypes
  PROVE  /\ toRunner' = toRunner => NoNewInstruction /\ NoNewStart
         /\ toService' = toService => Only([type |-> "none"])
BY DEF SessionTypes, NoNewInstruction, NoNewStart, Only

\* The parts of the invariant that do not follow messages.
OtherInv ==
  SessionTypes /\ NoneWaits /\ LetGoFirst /\ ReportsTrue /\ NoAbortLost
    /\ CompletedTrue

\* These actions neither prompt nor answer, and leave both channels alone.
LEMMA QuietDelivered ==
  ASSUME SessionInv,
         \/ Begin \/ ScanFails \/ DeadlinePasses \/ TickKills
         \/ NoticeDisconnect \/ Exit \/ Return \/ ServiceDies
         \/ RunStarts \/ RunRefused \/ InboxSpliced \/ RunEnds
         \/ RunnerExits \/ OrphanNotices \/ ToolStarts
         \/ \E q \in Processes : ProcessEnds(q)
         \/ \E j \in Instructions : ReceiptTimeout(j) \/ HarnessTakes(j)
  PROVE  Delivered'
<1>1. UNCHANGED <<toRunner, toService, prompting>> /\ taken \subseteq taken'
  BY DEF Begin, ScanFails, DeadlinePasses, TickKills, NoticeDisconnect, Exit,
         Return, ServiceDies, RunStarts, RunRefused, InboxSpliced, RunEnds,
         RunnerExits, OrphanNotices, ToolStarts, ProcessEnds, ReceiptTimeout,
         HarnessTakes, runnerVars
<1>2. OnlyRejects
  <2>1. CASE Exit
    BY <2>1 DEF Exit, Reject, Unsettled, Waiting, OnlyRejects
  <2>2. CASE \E j \in Instructions : ReceiptTimeout(j)
    BY <2>2 DEF ReceiptTimeout, Reject, OnlyRejects
  <2>3. CASE UNCHANGED receipt
    BY <2>3 DEF OnlyRejects
  <2> QED
    BY <2>1, <2>2, <2>3
       DEF Begin, ScanFails, DeadlinePasses, TickKills, NoticeDisconnect,
           Return, ServiceDies, RunStarts, RunRefused, InboxSpliced, RunEnds,
           RunnerExits, OrphanNotices, ToolStarts, ProcessEnds,
           HarnessTakes, serviceVars
<1>3. NoNewInstruction /\ Only([type |-> "none"])
  BY <1>1, StillFacts DEF SessionInv
<1> QED
  BY <1>1, <1>2, <1>3, DeliveredQuiet

LEMMA BeginStep ==
  ASSUME SessionInv, Begin
  PROVE  SessionInv'
<1>1. SessionTypes' /\ NoneWaits'
  BY DEF SessionInv, SessionTypes, NoneWaits, LetGoFirst, Waiting, Begin,
         callVars, watchVars, endVars
<1>2. LetGoFirst' /\ ReportsTrue' /\ NoAbortLost'
  BY DEF SessionInv, SessionTypes, LetGoFirst, ReportsTrue, Reported, Ended,
         NoAbortLost, Begin, callVars, watchVars, endVars
<1>3. CompletedTrue'
  BY DEF SessionInv, SessionTypes, LetGoFirst, ReportsTrue, Reported,
         CompletedTrue, Completed, Begin, callVars, watchVars, endVars
<1> QED
  BY <1>1, <1>2, <1>3, QuietDelivered DEF SessionInv

LEMMA ScanFailsStep ==
  ASSUME SessionInv, ScanFails
  PROVE  SessionInv'
<1>1. SessionTypes' /\ NoneWaits'
  BY DEF SessionInv, SessionTypes, NoneWaits, LetGoFirst, Waiting, ScanFails,
         callVars, endVars, runnerVars
<1>2. LetGoFirst' /\ ReportsTrue' /\ NoAbortLost'
  BY DEF SessionInv, SessionTypes, LetGoFirst, ReportsTrue, Reported, Ended,
         NoAbortLost, ScanFails, callVars, endVars, runnerVars
<1>3. CompletedTrue'
  BY DEF SessionInv, SessionTypes, LetGoFirst, ReportsTrue, Reported,
         CompletedTrue, Completed, ScanFails, callVars, endVars, runnerVars
<1> QED
  BY <1>1, <1>2, <1>3, QuietDelivered DEF SessionInv

LEMMA DeadlinePassesStep ==
  ASSUME SessionInv, DeadlinePasses
  PROVE  SessionInv'
<1>1. SessionTypes' /\ NoneWaits'
  BY DEF SessionInv, SessionTypes, NoneWaits, LetGoFirst, Waiting,
         DeadlinePasses, callVars, endVars, runnerVars
<1>2. LetGoFirst' /\ ReportsTrue' /\ NoAbortLost'
  BY DEF SessionInv, SessionTypes, LetGoFirst, ReportsTrue, Reported, Ended,
         NoAbortLost, DeadlinePasses, callVars, endVars, runnerVars
<1>3. CompletedTrue'
  BY DEF SessionInv, SessionTypes, LetGoFirst, ReportsTrue, Reported,
         CompletedTrue, Completed, DeadlinePasses, callVars, endVars,
         runnerVars
<1> QED
  BY <1>1, <1>2, <1>3, QuietDelivered DEF SessionInv

LEMMA TickKillsStep ==
  ASSUME SessionInv, TickKills
  PROVE  SessionInv'
<1>1. SessionTypes' /\ NoneWaits'
  BY DEF SessionInv, SessionTypes, NoneWaits, LetGoFirst, Waiting, TickKills,
         callVars, endVars, runnerVars
<1>2. LetGoFirst' /\ ReportsTrue' /\ NoAbortLost'
  BY DEF SessionInv, SessionTypes, LetGoFirst, ReportsTrue, Reported, Ended,
         NoAbortLost, TickKills, callVars, endVars, runnerVars
<1>3. CompletedTrue'
  BY DEF SessionInv, SessionTypes, LetGoFirst, ReportsTrue, Reported,
         CompletedTrue, Completed, TickKills, callVars, endVars, runnerVars
<1> QED
  BY <1>1, <1>2, <1>3, QuietDelivered DEF SessionInv

LEMMA NoticeDisconnectStep ==
  ASSUME SessionInv, NoticeDisconnect
  PROVE  SessionInv'
<1>1. SessionTypes' /\ NoneWaits'
  BY DEF SessionInv, SessionTypes, NoneWaits, LetGoFirst, Waiting,
         NoticeDisconnect, watchVars, endVars, runnerVars
<1>2. LetGoFirst' /\ ReportsTrue' /\ NoAbortLost'
  BY DEF SessionInv, SessionTypes, LetGoFirst, ReportsTrue, Reported, Ended,
         NoAbortLost, NoticeDisconnect, watchVars, endVars, runnerVars
<1>3. CompletedTrue'
  BY DEF SessionInv, SessionTypes, LetGoFirst, ReportsTrue, Reported,
         CompletedTrue, Completed, NoticeDisconnect, watchVars, endVars,
         runnerVars
<1> QED
  BY <1>1, <1>2, <1>3, QuietDelivered DEF SessionInv

LEMMA ExitStep ==
  ASSUME SessionInv, Exit
  PROVE  SessionInv'
<1>1. SessionTypes' /\ NoneWaits'
  BY DEF SessionInv, SessionTypes, NoneWaits, LetGoFirst, Waiting, Exit,
         Reject, Unsettled, Gone, watchVars, runnerVars
<1>2. LetGoFirst' /\ ReportsTrue' /\ NoAbortLost'
  BY DEF SessionInv, SessionTypes, LetGoFirst, ReportsTrue, Reported, Ended,
         NoAbortLost, Exit, Reject, Unsettled, Gone, watchVars, runnerVars
<1>3. CompletedTrue'
  BY DEF SessionInv, SessionTypes, LetGoFirst, ReportsTrue, Reported,
         CompletedTrue, Completed, Exit, Reject, Unsettled, Gone, watchVars,
         runnerVars
<1> QED
  BY <1>1, <1>2, <1>3, QuietDelivered DEF SessionInv

LEMMA ReturnStep ==
  ASSUME SessionInv, Return
  PROVE  SessionInv'
<1>1. SessionTypes' /\ NoneWaits'
  BY DEF SessionInv, SessionTypes, NoneWaits, LetGoFirst, Waiting, Return,
         Alive, Gone, Termination, NoResult, NoOutcome, Outcomes
<1>2. LetGoFirst' /\ ReportsTrue' /\ NoAbortLost'
  BY DEF SessionInv, SessionTypes, LetGoFirst, ReportsTrue, Reported, Ended,
         NoAbortLost, Return, Alive, Gone, Termination, NoResult, NoOutcome,
         Outcomes
<1>3. CompletedTrue'
  BY DEF SessionInv, SessionTypes, LetGoFirst, ReportsTrue, Reported,
         CompletedTrue, Completed, Return, Alive, Gone, Termination, NoResult,
         NoOutcome, Outcomes
<1> QED
  BY <1>1, <1>2, <1>3, QuietDelivered DEF SessionInv

LEMMA ServiceDiesStep ==
  ASSUME SessionInv, ServiceDies
  PROVE  SessionInv'
<1>1. SessionTypes' /\ NoneWaits'
  BY DEF SessionInv, SessionTypes, NoneWaits, LetGoFirst, Waiting,
         ServiceDies, watchVars, endVars, runnerVars
<1>2. LetGoFirst' /\ ReportsTrue' /\ NoAbortLost'
  BY DEF SessionInv, SessionTypes, LetGoFirst, ReportsTrue, Reported, Ended,
         NoAbortLost, ServiceDies, watchVars, endVars, runnerVars
<1>3. CompletedTrue'
  BY DEF SessionInv, SessionTypes, LetGoFirst, ReportsTrue, Reported,
         CompletedTrue, Completed, ServiceDies, watchVars, endVars, runnerVars
<1> QED
  BY <1>1, <1>2, <1>3, QuietDelivered DEF SessionInv

LEMMA ReceiptTimeoutStep ==
  ASSUME SessionInv, NEW i \in Instructions, ReceiptTimeout(i)
  PROVE  SessionInv'
<1>1. SessionTypes' /\ NoneWaits'
  BY DEF SessionInv, SessionTypes, NoneWaits, LetGoFirst, Waiting,
         ReceiptTimeout, Reject, callVars, watchVars, endVars, runnerVars
<1>2. LetGoFirst' /\ ReportsTrue' /\ NoAbortLost'
  BY DEF SessionInv, SessionTypes, LetGoFirst, ReportsTrue, Reported, Ended,
         NoAbortLost, ReceiptTimeout, Reject, callVars, watchVars, endVars,
         runnerVars
<1>3. CompletedTrue'
  BY DEF SessionInv, SessionTypes, LetGoFirst, ReportsTrue, Reported,
         CompletedTrue, Completed, ReceiptTimeout, Reject, callVars,
         watchVars, endVars, runnerVars
<1> QED
  BY <1>1, <1>2, <1>3, QuietDelivered DEF SessionInv

LEMMA RunStartsStep ==
  ASSUME SessionInv, RunStarts
  PROVE  SessionInv'
<1>1. SessionTypes' /\ NoneWaits'
  BY DEF SessionInv, SessionTypes, NoneWaits, LetGoFirst, Waiting, RunStarts,
         serviceVars, callVars, watchVars, endVars
<1>2. LetGoFirst' /\ ReportsTrue' /\ NoAbortLost'
  BY DEF SessionInv, SessionTypes, LetGoFirst, ReportsTrue, Reported, Ended,
         NoAbortLost, RunStarts, serviceVars, callVars, watchVars, endVars
<1>3. CompletedTrue'
  BY DEF SessionInv, SessionTypes, LetGoFirst, ReportsTrue, Reported,
         CompletedTrue, Completed, RunStarts, serviceVars, callVars,
         watchVars, endVars
<1> QED
  BY <1>1, <1>2, <1>3, QuietDelivered DEF SessionInv

LEMMA RunRefusedStep ==
  ASSUME SessionInv, RunRefused
  PROVE  SessionInv'
<1>1. SessionTypes' /\ NoneWaits'
  BY DEF SessionInv, SessionTypes, NoneWaits, LetGoFirst, Waiting, RunRefused,
         serviceVars, callVars, watchVars, endVars
<1>2. LetGoFirst' /\ ReportsTrue' /\ NoAbortLost'
  BY DEF SessionInv, SessionTypes, LetGoFirst, ReportsTrue, Reported, Ended,
         NoAbortLost, RunRefused, serviceVars, callVars, watchVars, endVars
<1>3. CompletedTrue'
  BY DEF SessionInv, SessionTypes, LetGoFirst, ReportsTrue, Reported,
         CompletedTrue, Completed, RunRefused, serviceVars, callVars,
         watchVars, endVars
<1> QED
  BY <1>1, <1>2, <1>3, QuietDelivered DEF SessionInv

LEMMA InboxSplicedStep ==
  ASSUME SessionInv, InboxSpliced
  PROVE  SessionInv'
<1>1. SessionTypes' /\ NoneWaits'
  BY DEF SessionInv, SessionTypes, NoneWaits, LetGoFirst, Waiting,
         InboxSpliced, serviceVars, callVars, watchVars, endVars
<1>2. LetGoFirst' /\ ReportsTrue' /\ NoAbortLost'
  BY DEF SessionInv, SessionTypes, LetGoFirst, ReportsTrue, Reported, Ended,
         NoAbortLost, InboxSpliced, serviceVars, callVars, watchVars, endVars
<1>3. CompletedTrue'
  BY DEF SessionInv, SessionTypes, LetGoFirst, ReportsTrue, Reported,
         CompletedTrue, Completed, InboxSpliced, serviceVars, callVars,
         watchVars, endVars
<1> QED
  BY <1>1, <1>2, <1>3, QuietDelivered DEF SessionInv

LEMMA RunEndsStep ==
  ASSUME SessionInv, RunEnds
  PROVE  SessionInv'
<1>1. SessionTypes' /\ NoneWaits'
  BY DEF SessionInv, SessionTypes, NoneWaits, LetGoFirst, Waiting, RunEnds,
         serviceVars, callVars, watchVars, endVars
<1>2. LetGoFirst' /\ ReportsTrue' /\ NoAbortLost'
  BY DEF SessionInv, SessionTypes, LetGoFirst, ReportsTrue, Reported, Ended,
         NoAbortLost, RunEnds, serviceVars, callVars, watchVars, endVars
<1>3. CompletedTrue'
  BY DEF SessionInv, SessionTypes, LetGoFirst, ReportsTrue, Reported,
         CompletedTrue, Completed, RunEnds, serviceVars, callVars, watchVars,
         endVars
<1> QED
  BY <1>1, <1>2, <1>3, QuietDelivered DEF SessionInv

LEMMA RunnerExitsStep ==
  ASSUME SessionInv, RunnerExits
  PROVE  SessionInv'
<1>1. SessionTypes' /\ NoneWaits'
  BY DEF SessionInv, SessionTypes, NoneWaits, LetGoFirst, Waiting,
         RunnerExits, serviceVars, callVars, watchVars, endVars
<1>2. LetGoFirst' /\ ReportsTrue' /\ NoAbortLost'
  BY DEF SessionInv, SessionTypes, LetGoFirst, ReportsTrue, Reported, Ended,
         NoAbortLost, RunnerExits, serviceVars, callVars, watchVars, endVars
<1>3. CompletedTrue'
  BY DEF SessionInv, SessionTypes, LetGoFirst, ReportsTrue, Reported,
         CompletedTrue, Completed, RunnerExits, serviceVars, callVars,
         watchVars, endVars
<1> QED
  BY <1>1, <1>2, <1>3, QuietDelivered DEF SessionInv

LEMMA OrphanNoticesStep ==
  ASSUME SessionInv, OrphanNotices
  PROVE  SessionInv'
<1>1. SessionTypes' /\ NoneWaits'
  BY DEF SessionInv, SessionTypes, NoneWaits, LetGoFirst, Waiting,
         OrphanNotices, serviceVars, callVars, watchVars, endVars
<1>2. LetGoFirst' /\ ReportsTrue' /\ NoAbortLost'
  BY DEF SessionInv, SessionTypes, LetGoFirst, ReportsTrue, Reported, Ended,
         NoAbortLost, OrphanNotices, serviceVars, callVars, watchVars, endVars
<1>3. CompletedTrue'
  BY DEF SessionInv, SessionTypes, LetGoFirst, ReportsTrue, Reported,
         CompletedTrue, Completed, OrphanNotices, serviceVars, callVars,
         watchVars, endVars
<1> QED
  BY <1>1, <1>2, <1>3, QuietDelivered DEF SessionInv

LEMMA ToolStartsStep ==
  ASSUME SessionInv, ToolStarts
  PROVE  SessionInv'
<1>1. SessionTypes' /\ NoneWaits'
  BY DEF SessionInv, SessionTypes, NoneWaits, LetGoFirst, Waiting, ToolStarts,
         serviceVars, callVars, watchVars, endVars
<1>2. LetGoFirst' /\ ReportsTrue' /\ NoAbortLost'
  BY DEF SessionInv, SessionTypes, LetGoFirst, ReportsTrue, Reported, Ended,
         NoAbortLost, ToolStarts, serviceVars, callVars, watchVars, endVars
<1>3. CompletedTrue'
  BY DEF SessionInv, SessionTypes, LetGoFirst, ReportsTrue, Reported,
         CompletedTrue, Completed, ToolStarts, serviceVars, callVars,
         watchVars, endVars
<1> QED
  BY <1>1, <1>2, <1>3, QuietDelivered DEF SessionInv

LEMMA HarnessTakesStep ==
  ASSUME SessionInv, NEW i \in Instructions, HarnessTakes(i)
  PROVE  SessionInv'
<1>1. SessionTypes' /\ NoneWaits'
  BY DEF SessionInv, SessionTypes, NoneWaits, LetGoFirst, Waiting,
         HarnessTakes, serviceVars, callVars, watchVars, endVars
<1>2. LetGoFirst' /\ ReportsTrue' /\ NoAbortLost'
  BY DEF SessionInv, SessionTypes, LetGoFirst, ReportsTrue, Reported, Ended,
         NoAbortLost, HarnessTakes, serviceVars, callVars, watchVars, endVars
<1>3. CompletedTrue'
  BY DEF SessionInv, SessionTypes, LetGoFirst, ReportsTrue, Reported,
         CompletedTrue, Completed, HarnessTakes, serviceVars, callVars,
         watchVars, endVars
<1> QED
  BY <1>1, <1>2, <1>3, QuietDelivered DEF SessionInv

LEMMA ProcessEndsStep ==
  ASSUME SessionInv, NEW p \in Processes, ProcessEnds(p)
  PROVE  SessionInv'
<1>1. SessionTypes' /\ NoneWaits'
  BY DEF SessionInv, SessionTypes, NoneWaits, LetGoFirst, Waiting,
         ProcessEnds, Alive, Gone, serviceVars, callVars, watchVars, endVars
<1>2. LetGoFirst' /\ ReportsTrue' /\ NoAbortLost'
  BY DEF SessionInv, SessionTypes, LetGoFirst, ReportsTrue, Reported, Ended,
         NoAbortLost, ProcessEnds, Alive, Gone, serviceVars, callVars,
         watchVars, endVars
<1>3. CompletedTrue'
  BY DEF SessionInv, SessionTypes, LetGoFirst, ReportsTrue, Reported,
         CompletedTrue, Completed, ProcessEnds, Alive, Gone, serviceVars,
         callVars, watchVars, endVars
<1> QED
  BY <1>1, <1>2, <1>3, QuietDelivered DEF SessionInv

LEMMA AbortStep ==
  ASSUME SessionInv, Abort
  PROVE  SessionInv'
<1>1. NoNewInstruction /\ NoNewStart /\ Only([type |-> "none"])
  BY StillFacts, SendCancelFacts DEF SessionInv, Abort, HandlerThrows,
         callVars, watchVars, endVars, runnerVars, serviceVars
<1>2. Delivered'
  BY <1>1, DeliveredQuiet DEF SessionInv, SessionTypes, Abort, OnlyRejects,
         HandlerThrows, callVars, watchVars, endVars, runnerVars, serviceVars
<1>3. OtherInv'
  BY <1>1 DEF OtherInv, SessionInv, SessionTypes, NoneWaits, Waiting,
         LetGoFirst, ReportsTrue, Reported, Ended, NoAbortLost, CompletedTrue,
         Completed, NoNewInstruction, NoNewStart, Only, Abort, HandlerThrows,
         MustDie, callVars, watchVars, endVars, runnerVars, serviceVars
<1> QED
  BY <1>2, <1>3 DEF SessionInv, OtherInv

LEMMA TickStep ==
  ASSUME SessionInv, Tick
  PROVE  SessionInv'
<1>1. NoNewInstruction /\ NoNewStart /\ Only([type |-> "none"])
  BY StillFacts, SendCancelFacts DEF SessionInv, Tick, HandlerThrows,
         callVars, watchVars, endVars, runnerVars, serviceVars
<1>2. Delivered'
  BY <1>1, DeliveredQuiet DEF SessionInv, SessionTypes, Tick, OnlyRejects,
         HandlerThrows, callVars, watchVars, endVars, runnerVars, serviceVars
<1>3. OtherInv'
  BY <1>1 DEF OtherInv, SessionInv, SessionTypes, NoneWaits, Waiting,
         LetGoFirst, ReportsTrue, Reported, Ended, NoAbortLost, CompletedTrue,
         Completed, NoNewInstruction, NoNewStart, Only, Tick, HandlerThrows,
         MustDie, callVars, watchVars, endVars, runnerVars, serviceVars
<1> QED
  BY <1>2, <1>3 DEF SessionInv, OtherInv

LEMMA NotificationFailsStep ==
  ASSUME SessionInv, NotificationFails
  PROVE  SessionInv'
<1>1. NoNewInstruction /\ NoNewStart /\ Only([type |-> "none"])
  BY StillFacts, SendCancelFacts DEF SessionInv, NotificationFails,
         HandlerThrows, callVars, watchVars, endVars, runnerVars, serviceVars
<1>2. Delivered'
  BY <1>1, DeliveredQuiet DEF SessionInv, SessionTypes, NotificationFails,
         OnlyRejects, HandlerThrows, callVars, watchVars, endVars, runnerVars,
         serviceVars
<1>3. OtherInv'
  BY <1>1 DEF OtherInv, SessionInv, SessionTypes, NoneWaits, Waiting,
         LetGoFirst, ReportsTrue, Reported, Ended, NoAbortLost, CompletedTrue,
         Completed, NoNewInstruction, NoNewStart, Only, NotificationFails,
         HandlerThrows, MustDie, callVars, watchVars, endVars, runnerVars,
         serviceVars
<1> QED
  BY <1>2, <1>3 DEF SessionInv, OtherInv

LEMMA OnReadyStep ==
  ASSUME SessionInv, OnReady
  PROVE  SessionInv'
<1>1. /\ NoNewInstruction /\ Only([type |-> "none"])
      /\ started' \/ NoNewStart
  <2>1. Only([type |-> "none"])
    BY HandleFacts DEF SessionInv, OnReady
  <2>2. CASE SendCancel
    BY <2>1, <2>2, SendCancelFacts DEF SessionInv
  <2>3. CASE started' /\ toRunner' = Append(toRunner, [type |-> "start"])
    <3>1. [type |-> "start"] \in ToRunner
      BY DEF ToRunner
    <3> QED
      BY <2>1, <2>3, <3>1, SendFacts DEF SessionInv
  <2> QED
    BY <2>2, <2>3 DEF OnReady, HandlerThrows, LetGo
<1>2. Delivered'
  BY <1>1, DeliveredQuiet DEF SessionInv, SessionTypes, OnReady,
         HandlerThrows, LetGo, Handles, Gone, OnlyRejects, callVars,
         watchVars, endVars, runnerVars, serviceVars
<1>3. OtherInv'
  <2>1. SessionTypes'
    BY <1>1 DEF SessionInv, SessionTypes, NoNewInstruction, NoNewStart, Only,
           OnReady, HandlerThrows, LetGo, SendCancel, Handles, callVars,
           watchVars, endVars, runnerVars, serviceVars
  <2>2. NoneWaits'
    BY <1>1 DEF SessionInv, SessionTypes, NoneWaits, Waiting, OnReady,
           HandlerThrows, LetGo, SendCancel, Handles, callVars, watchVars,
           endVars, runnerVars, serviceVars
  <2>3. LetGoFirst'
    BY <1>1 DEF SessionInv, SessionTypes, LetGoFirst, NoNewInstruction,
           NoNewStart, Only, OnReady, HandlerThrows, LetGo, SendCancel, Handles,
           callVars, watchVars, endVars, runnerVars, serviceVars
  <2>4. ReportsTrue'
    BY <1>1 DEF SessionInv, SessionTypes, LetGoFirst, ReportsTrue, Reported,
           Ended, NoNewInstruction, NoNewStart, Only, OnReady, HandlerThrows,
           LetGo, SendCancel, Handles, callVars, watchVars, endVars, runnerVars,
           serviceVars
  <2>5. NoAbortLost'
    BY <1>1 DEF SessionInv, SessionTypes, LetGoFirst, NoAbortLost, OnReady,
           HandlerThrows, LetGo, SendCancel, Handles, callVars, watchVars,
           endVars, runnerVars, serviceVars
  <2>6. CompletedTrue'
    <3>1. /\ UNCHANGED <<result, runFailed, runner, others>>
          /\ started => started'
      BY DEF OnReady, HandlerThrows, endVars, runnerVars
    <3> QED
      BY <3>1 DEF SessionInv, CompletedTrue, Completed
  <2> QED
    BY <2>1, <2>2, <2>3, <2>4, <2>5, <2>6 DEF OtherInv
<1> QED
  BY <1>2, <1>3 DEF SessionInv, OtherInv

LEMMA OnOutcomeStep ==
  ASSUME SessionInv, OnOutcome
  PROVE  SessionInv'
<1>1. /\ NoNewInstruction /\ Only([type |-> "none"])
      /\ 1 \in 1 .. Len(toService) /\ Head(toService) = toService[1]
      /\ Head(toService) \in Outcomes
  BY StillFacts, HandleFacts
     DEF SessionInv, OnOutcome, Handles, ToService, Answers, Outcomes
<1>2. Delivered'
  BY <1>1, DeliveredQuiet DEF SessionInv, SessionTypes, OnOutcome,
         OnlyRejects, callVars, watchVars, endVars, runnerVars, serviceVars
<1>3. OtherInv'
  BY <1>1 DEF OtherInv, SessionInv, SessionTypes, NoneWaits, Waiting,
         LetGoFirst, ReportsTrue, Reported, Ended, NoAbortLost, CompletedTrue,
         Completed, NoNewInstruction, NoNewStart, Only, OnOutcome, callVars,
         watchVars, endVars, runnerVars, serviceVars
<1> QED
  BY <1>2, <1>3 DEF SessionInv, OtherInv

LEMMA RunnerReadyStep ==
  ASSUME SessionInv, RunnerReady
  PROVE  SessionInv'
<1>0. [type |-> "ready"] \in ToService
  BY DEF ToService, Outcomes, Outcome, SessionInv, SessionTypes
<1>1. /\ NoNewInstruction /\ NoNewStart /\ Only([type |-> "ready"])
      /\ runner' \in {"crashed", "waiting"}
  BY <1>0, StillFacts, SayFacts DEF SessionInv, RunnerReady, serviceVars
<1>2. Delivered'
  BY <1>1, DeliveredQuiet DEF SessionInv, SessionTypes, RunnerReady,
         OnlyRejects, callVars, watchVars, endVars, runnerVars, serviceVars
<1>3. OtherInv'
  <2>1. SessionTypes'
    BY <1>1 DEF SessionInv, SessionTypes, NoNewInstruction, NoNewStart, Only,
           RunnerReady, callVars, watchVars, endVars, runnerVars, serviceVars
  <2>2. NoneWaits'
    BY <1>1 DEF SessionInv, SessionTypes, NoneWaits, Waiting, RunnerReady,
           callVars, watchVars, endVars, runnerVars, serviceVars
  <2>3. LetGoFirst'
    BY <1>1 DEF SessionInv, SessionTypes, LetGoFirst, NoNewInstruction,
           NoNewStart, Only, RunnerReady, callVars, watchVars, endVars,
           runnerVars, serviceVars
  <2>4. ReportsTrue'
    BY <1>1 DEF SessionInv, SessionTypes, LetGoFirst, ReportsTrue, Reported,
           Ended, NoNewInstruction, NoNewStart, Only, RunnerReady, callVars,
           watchVars, endVars, runnerVars, serviceVars
  <2>5. NoAbortLost'
    BY <1>1 DEF SessionInv, SessionTypes, LetGoFirst, NoAbortLost,
           RunnerReady, callVars, watchVars, endVars, runnerVars, serviceVars
  <2>6. CompletedTrue'
    BY <1>1 DEF SessionInv, CompletedTrue, Completed, RunnerReady, callVars,
           watchVars, endVars, runnerVars, serviceVars
  <2> QED
    BY <2>1, <2>2, <2>3, <2>4, <2>5, <2>6 DEF OtherInv
<1> QED
  BY <1>2, <1>3 DEF SessionInv, OtherInv

LEMMA PreflightFailsStep ==
  ASSUME SessionInv, PreflightFails
  PROVE  SessionInv'
<1>0. Outcome(FALSE, TRUE, TRUE) \in ToService
  BY DEF ToService, Outcomes, Outcome, SessionInv, SessionTypes
<1>1. /\ NoNewInstruction /\ NoNewStart /\ Only(Outcome(FALSE, TRUE, TRUE))
      /\ runner' \in {"crashed", "reported"}
  BY <1>0, StillFacts, SayFacts DEF SessionInv, PreflightFails, serviceVars
<1>2. Delivered'
  BY <1>1, DeliveredQuiet DEF SessionInv, SessionTypes, PreflightFails,
         Outcome, OnlyRejects, callVars, watchVars, endVars, runnerVars,
         serviceVars
<1>3. OtherInv'
  <2>1. SessionTypes'
    BY <1>1 DEF SessionInv, SessionTypes, NoNewInstruction, NoNewStart, Only,
           PreflightFails, Outcome, callVars, watchVars, endVars, runnerVars,
           serviceVars
  <2>2. NoneWaits'
    BY <1>1 DEF SessionInv, SessionTypes, NoneWaits, Waiting, PreflightFails,
           Outcome, callVars, watchVars, endVars, runnerVars, serviceVars
  <2>3. LetGoFirst'
    BY <1>1 DEF SessionInv, SessionTypes, LetGoFirst, NoNewInstruction,
           NoNewStart, Only, PreflightFails, Outcome, callVars, watchVars,
           endVars, runnerVars, serviceVars
  <2>4. ReportsTrue'
    <3>1. \A k \in 1 .. Len(toService') : Reported(toService[k])'
      BY <1>1
         DEF SessionInv, ReportsTrue, Reported, Ended, Only, Outcome,
             PreflightFails
    <3> QED
      BY <1>1, <3>1
         DEF SessionInv, ReportsTrue, Reported, Ended, PreflightFails,
             serviceVars, endVars
  <2>5. NoAbortLost'
    BY <1>1 DEF SessionInv, SessionTypes, LetGoFirst, NoAbortLost,
           PreflightFails, Outcome, callVars, watchVars, endVars, runnerVars,
           serviceVars
  <2>6. CompletedTrue'
    BY <1>1 DEF SessionInv, CompletedTrue, Completed, PreflightFails, Outcome,
           callVars, watchVars, endVars, runnerVars, serviceVars
  <2> QED
    BY <2>1, <2>2, <2>3, <2>4, <2>5, <2>6 DEF OtherInv
<1> QED
  BY <1>2, <1>3 DEF SessionInv, OtherInv

LEMMA HarnessClosesStep ==
  ASSUME SessionInv, HarnessCloses
  PROVE  SessionInv'
<1>1. PICK closes \in BOOLEAN :
        /\ others' = IF closes THEN others \ {"harness"} ELSE others
        /\ Say(Outcome(spliced, runFailed \/ ~closes, closes), "reported")
  BY DEF HarnessCloses
<1> DEFINE m == Outcome(spliced, runFailed \/ ~closes, closes)
<1>2. m \in ToService
  BY DEF ToService, Outcomes, Outcome, SessionInv, SessionTypes
<1>3. /\ NoNewInstruction /\ NoNewStart /\ Only(m)
      /\ runner' \in {"crashed", "reported"}
  BY <1>1, <1>2, StillFacts, SayFacts
     DEF SessionInv, HarnessCloses, serviceVars
<1>4. Delivered'
  BY <1>3, DeliveredQuiet DEF SessionInv, SessionTypes, HarnessCloses,
         Outcome, OnlyRejects, callVars, watchVars, endVars, runnerVars,
         serviceVars
<1>5. OtherInv'
  BY <1>1, <1>3 DEF OtherInv, SessionInv, SessionTypes, NoneWaits, Waiting,
         LetGoFirst, ReportsTrue, Reported, Ended, NoAbortLost, CompletedTrue,
         Completed, NoNewInstruction, NoNewStart, Only, HarnessCloses,
         Outcome, callVars, watchVars, endVars, runnerVars, serviceVars
<1> QED
  BY <1>4, <1>5 DEF SessionInv, OtherInv

LEMMA ReadCancelStep ==
  ASSUME SessionInv, ReadCancel
  PROVE  SessionInv'
<1>1. NoNewInstruction /\ NoNewStart /\ Only([type |-> "none"])
  BY StillFacts, ReadFacts DEF SessionInv, ReadCancel, Reads
<1>2. Delivered'
  BY <1>1, DeliveredQuiet DEF SessionInv, SessionTypes, ReadCancel, Reads,
         OnlyRejects, callVars, watchVars, endVars, runnerVars, serviceVars
<1>3. OtherInv'
  BY <1>1 DEF OtherInv, SessionInv, SessionTypes, NoneWaits, Waiting,
         LetGoFirst, ReportsTrue, Reported, Ended, NoAbortLost, CompletedTrue,
         Completed, NoNewInstruction, NoNewStart, Only, ReadCancel, Reads,
         callVars, watchVars, endVars, runnerVars, serviceVars
<1> QED
  BY <1>2, <1>3 DEF SessionInv, OtherInv

LEMMA ReadStartStep ==
  ASSUME SessionInv, ReadStart
  PROVE  SessionInv'
<1>1. /\ NoNewInstruction /\ NoNewStart /\ Only([type |-> "none"])
      /\ started
  BY StillFacts, ReadFacts, TailFacts
     DEF SessionInv, SessionTypes, LetGoFirst, ReadStart, Reads
<1>2. Delivered'
  BY <1>1, DeliveredQuiet DEF SessionInv, SessionTypes, ReadStart, Reads,
         OnlyRejects, callVars, watchVars, endVars, runnerVars, serviceVars
<1>3. OtherInv'
  BY <1>1 DEF OtherInv, SessionInv, SessionTypes, NoneWaits, Waiting,
         LetGoFirst, ReportsTrue, Reported, Ended, NoAbortLost, CompletedTrue,
         Completed, NoNewInstruction, NoNewStart, Only, ReadStart, Reads,
         callVars, watchVars, endVars, runnerVars, serviceVars
<1> QED
  BY <1>2, <1>3 DEF SessionInv, OtherInv

LEMMA InstructStep ==
  ASSUME SessionInv, NEW i \in Instructions, Instruct(i)
  PROVE  SessionInv'
<1> DEFINE m == [type |-> "instruction", id |-> i]
<1>1. CASE ~(phase = "waiting" /\ connected)
  <2>1. NoNewInstruction /\ NoNewStart /\ Only([type |-> "none"])
    BY <1>1, StillFacts DEF SessionInv, Instruct, callVars
  <2>2. Delivered'
    <3>1. \A j \in Instructions : Asked(j) => Asked(j)'
      BY <1>1 DEF Instruct, Reject, Asked
    <3>2. \A j \in Instructions : receipt[j] # "none" => receipt'[j] # "none"
      BY <1>1 DEF Instruct, Reject
    <3>3. UNCHANGED <<toRunner, toService, prompting, taken>>
      BY <1>1 DEF Instruct, runnerVars
    <3>4. /\ \A k \in 1 .. Len(toRunner) :
               IsInstruction(k) => toRunner[k].id \in Instructions
          /\ \A k \in 1 .. Len(toService) :
               toService[k].type = "instruction-result" =>
                 toService[k].id \in Instructions
      BY DEF SessionInv, SessionTypes, IsInstruction, ToRunner, ToService,
             Answers, Outcomes
    <3> QED
      BY <3>1, <3>2, <3>3, <3>4
         DEF SessionInv, SessionTypes, Delivered, Underway, IsInstruction, Asked
  <2>3. OtherInv'
    BY <1>1, <2>1 DEF OtherInv, SessionInv, SessionTypes, NoneWaits, Waiting,
         LetGoFirst, ReportsTrue, Reported, Ended, NoAbortLost, CompletedTrue,
         Completed, Instruct, Reject, callVars, watchVars, endVars,
         runnerVars, serviceVars
  <2> QED
    BY <2>2, <2>3 DEF SessionInv, OtherInv
<1>2. CASE phase = "waiting" /\ connected
  <2>1. m \in ToRunner /\ toRunner \in Seq(ToRunner)
    BY DEF ToRunner, SessionInv, SessionTypes
  <2>2. toRunner' = Append(toRunner, m) /\ toService' = toService
        /\ receipt' = [receipt EXCEPT ![i] = "waiting"]
        /\ receipt[i] = "none" /\ UNCHANGED <<runnerVars, outcome>>
    BY <1>2 DEF Instruct, endVars
  <2> HIDE DEF m
  <2>3. /\ toRunner' \in Seq(ToRunner)
        /\ \A k \in 1 .. Len(toRunner') :
             \/ k \in 1 .. Len(toRunner) /\ toRunner'[k] = toRunner[k]
             \/ k = Len(toRunner) + 1 /\ toRunner'[k] = m
        /\ Len(toRunner) \in Nat
    BY <2>1, <2>2, AppendFacts
  <2>4. Delivered'
    <3>1. /\ i \notin prompting /\ ~Underway(i)
          /\ \A k \in 1 .. Len(toService) :
               toService[k].type = "instruction-result" => toService[k].id # i
      BY <2>2 DEF SessionInv, Delivered, Underway, Asked
    <3>2. Asked(i)' /\ \A j \in Instructions \ {i} : receipt'[j] = receipt[j]
      BY <2>2 DEF SessionInv, SessionTypes, Asked
    <3>3. \A k \in 1 .. Len(toRunner) :
            IsInstruction(k) => toRunner[k].id \in Instructions \ {i}
      BY <3>1
         DEF Underway, IsInstruction, SessionInv, SessionTypes, ToRunner
    <3>4. ASSUME NEW k \in 1 .. Len(toRunner'), IsInstruction(k)'
          PROVE  (/\ Asked(toRunner[k].id) /\ toRunner[k].id \notin prompting
                  /\ \A j \in 1 .. Len(toRunner) :
                       IsInstruction(j) /\ toRunner[j].id = toRunner[k].id
                         => j = k)'
      <4>1. CASE k = Len(toRunner) + 1
        BY <2>2, <2>3, <3>1, <3>2, <3>3, <4>1
           DEF m, IsInstruction, Asked, runnerVars
      <4>2. CASE k \in 1 .. Len(toRunner) /\ toRunner'[k] = toRunner[k]
        BY <2>2, <2>3, <3>2, <3>3, <3>4, <4>2
           DEF m, SessionInv, Delivered, IsInstruction, Asked, runnerVars
      <4> QED
        BY <2>3, <4>1, <4>2
    <3>5. \A j \in prompting' : Asked(j)'
      BY <2>2, <3>1, <3>2
         DEF SessionInv, SessionTypes, Delivered, Asked, runnerVars
    <3>6. \A j \in Instructions \ {i} : ~Underway(j) => ~Underway(j)'
      BY <2>3 DEF m, Underway, IsInstruction
    <3>7. ASSUME NEW k \in 1 .. Len(toService),
                 toService[k].type = "instruction-result"
          PROVE  (LET j == toService[k].id
                  IN /\ receipt[j] # "none"
                     /\ j \notin prompting /\ ~Underway(j)
                     /\ toService[k].ok => j \in taken)'
      <4>1. PICK j \in Instructions : j = toService[k].id
        BY <3>7 DEF SessionInv, SessionTypes, ToService, Answers, Outcomes
      <4>2. j # i
        BY <3>1, <3>7, <4>1
      <4>3. receipt[j] # "none" /\ j \notin prompting /\ ~Underway(j)
              /\ (toService[k].ok => j \in taken)
        BY <3>7, <4>1 DEF SessionInv, Delivered
      <4>4. receipt'[j] # "none" /\ j \notin prompting' /\ ~Underway(j)'
              /\ (toService[k].ok => j \in taken')
        BY <2>2, <3>2, <3>6, <4>2, <4>3 DEF runnerVars
      <4> QED
        BY <2>2, <4>1, <4>4 DEF Underway, IsInstruction
    <3> QED
      BY <2>2, <3>4, <3>5, <3>7 DEF Delivered
  <2>5. OtherInv'
    <3>1. SessionTypes'
      BY <2>2, <2>3
         DEF SessionInv, SessionTypes, Instruct, callVars, watchVars, endVars,
             runnerVars
    <3>2. NoneWaits' /\ NoAbortLost' /\ ReportsTrue' /\ CompletedTrue'
      BY <1>2, <2>2
         DEF SessionInv, NoneWaits, NoAbortLost, ReportsTrue, Reported,
             CompletedTrue, Completed, Instruct, callVars, watchVars, endVars,
             runnerVars
    <3>3. LetGoFirst'
      BY <2>2, <2>3
         DEF m, SessionInv, LetGoFirst, Instruct, callVars, runnerVars
    <3> QED
      BY <3>1, <3>2, <3>3 DEF OtherInv
  <2> QED
    BY <2>4, <2>5 DEF SessionInv, OtherInv
<1> QED
  BY <1>1, <1>2

LEMMA OnInstructionResultStep ==
  ASSUME SessionInv, OnInstructionResult
  PROVE  SessionInv'
<1> DEFINE m == Head(toService)
<1>1. /\ NoNewInstruction /\ NoNewStart /\ Only([type |-> "none"])
      /\ 1 \in 1 .. Len(toService) /\ m = toService[1]
      /\ m.type = "instruction-result" /\ m \in ToService
  BY StillFacts, HandleFacts
     DEF SessionInv, OnInstructionResult, Handles
<1>2. /\ m.id \in Instructions /\ m.ok \in BOOLEAN
      /\ m.id \notin prompting /\ ~Underway(m.id)
  BY <1>1 DEF SessionInv, Delivered, ToService, Answers, Outcomes
<1>3. CASE m.ok /\ receipt[m.id] = "waiting"
  <2>1. /\ receipt' = [receipt EXCEPT ![m.id] = "received"]
        /\ UNCHANGED <<toRunner, runnerVars>>
    BY <1>3 DEF OnInstructionResult
  <2>2. PICK i \in Instructions : i = m.id
    BY <1>2
  <2>3. Delivered'
    <3>1. \A j \in Instructions :
            j # i \/ receipt[j] # "waiting" => receipt'[j] = receipt[j]
      BY <1>3, <2>1, <2>2 DEF SessionInv, SessionTypes
    <3>2. \A j \in Instructions : Asked(j) /\ j # i => Asked(j)'
      BY <3>1 DEF Asked
    <3>3. receipt'[i] = "received"
      BY <2>1, <2>2 DEF SessionInv, SessionTypes
    <3>4. \A k \in 1 .. Len(toRunner) :
            IsInstruction(k) => toRunner[k].id \in Instructions \ {i}
      BY <1>2, <2>2
         DEF Underway, IsInstruction, SessionInv, SessionTypes, ToRunner
    <3>5. \A k \in 1 .. Len(toRunner') : IsInstruction(k)' =>
            (/\ Asked(toRunner[k].id) /\ toRunner[k].id \notin prompting
             /\ \A j \in 1 .. Len(toRunner) :
                  IsInstruction(j) /\ toRunner[j].id = toRunner[k].id
                    => j = k)'
      BY <2>1, <3>2, <3>4
         DEF SessionInv, Delivered, IsInstruction, Asked, runnerVars
    <3>6. \A j \in prompting' : Asked(j)'
      BY <1>2, <2>1, <2>2, <3>2
         DEF SessionInv, SessionTypes, Delivered, runnerVars
    <3>7. ASSUME NEW k \in 1 .. Len(toService'),
                 toService'[k].type = "instruction-result"
          PROVE  (LET j == toService[k].id
                  IN /\ receipt[j] # "none"
                     /\ j \notin prompting /\ ~Underway(j)
                     /\ toService[k].ok => j \in taken)'
      <4>1. PICK h \in 1 .. Len(toService) : toService'[k] = toService[h]
        BY <1>1, <3>7 DEF Only
      <4>2. PICK j \in Instructions : j = toService[h].id
        BY <3>7, <4>1
           DEF SessionInv, SessionTypes, ToService, Answers, Outcomes
      <4>3. /\ receipt[j] # "none" /\ j \notin prompting /\ ~Underway(j)
            /\ toService[h].ok => j \in taken
        BY <3>7, <4>1, <4>2 DEF SessionInv, Delivered
      <4>4. /\ receipt'[j] # "none" /\ j \notin prompting' /\ ~Underway(j)'
            /\ toService[h].ok => j \in taken'
        BY <2>1, <3>1, <3>3, <4>3 DEF runnerVars, Underway, IsInstruction
      <4> QED
        BY <4>1, <4>2, <4>4 DEF Underway, IsInstruction
    <3> QED
      BY <3>5, <3>6, <3>7 DEF Delivered
  <2>4. OtherInv'
    BY <1>1, <1>2, <2>1
       DEF OtherInv, SessionInv, SessionTypes, NoneWaits, Waiting, LetGoFirst,
           ReportsTrue, Reported, NoAbortLost, CompletedTrue, Completed, Only,
           OnInstructionResult, callVars, watchVars, endVars, runnerVars
  <2> QED
    BY <2>3, <2>4 DEF SessionInv, OtherInv
<1>4. CASE ~(m.ok /\ receipt[m.id] = "waiting")
  <2>1. OnlyRejects
    BY <1>2, <1>4
       DEF OnInstructionResult, OnlyRejects, SessionInv, SessionTypes
  <2>2. Delivered'
    BY <1>1, <2>1, DeliveredQuiet DEF OnInstructionResult, runnerVars
  <2>3. receipt' \in
          [Instructions -> {"none", "waiting", "received", "rejected"}]
    BY <1>4 DEF OnInstructionResult, SessionInv, SessionTypes
  <2>4. OtherInv'
    BY <1>1, <2>1, <2>3
       DEF OtherInv, SessionInv, SessionTypes, NoneWaits, Waiting, LetGoFirst,
           ReportsTrue, Reported, NoAbortLost, CompletedTrue, Completed, Only,
           OnInstructionResult, OnlyRejects, callVars, watchVars, endVars,
           runnerVars
  <2> QED
    BY <2>2, <2>4 DEF SessionInv, OtherInv
<1> QED
  BY <1>3, <1>4

LEMMA ReadInstructionStep ==
  ASSUME SessionInv, ReadInstruction
  PROVE  SessionInv'
<1>1. PICK i : i = Head(toRunner).id
  OBVIOUS
<1>2. /\ NoNewInstruction /\ NoNewStart
      /\ toRunner \in Seq(ToRunner) /\ toRunner # << >>
      /\ toRunner' = Tail(toRunner)
  BY ReadFacts DEF SessionInv, SessionTypes, ReadInstruction, Reads
<1>3. /\ 1 \in 1 .. Len(toRunner) /\ IsInstruction(1) /\ toRunner[1].id = i
      /\ i \in Instructions
      /\ \A k \in 1 .. Len(toRunner') :
           k + 1 \in 1 .. Len(toRunner) /\ toRunner'[k] = toRunner[k + 1]
  BY <1>1, <1>2, TailFacts DEF ReadInstruction, Reads, IsInstruction, ToRunner
<1>4. /\ Asked(i) /\ i \notin prompting /\ Underway(i)
      /\ \A k \in 1 .. Len(toService) :
           toService[k].type = "instruction-result" => toService[k].id # i
  BY <1>3 DEF SessionInv, Delivered, Underway
<1>5. ~Underway(i)'
  BY <1>2, <1>3 DEF SessionInv, Delivered, Underway, IsInstruction
<1>6. Asked(i)' /\ receipt[i] # "none" /\ OnlyRejects
      /\ UNCHANGED <<serviceVars, cancelled, spliced, runFailed, accepting,
                     taken, others>>
  BY <1>4 DEF ReadInstruction, Asked, OnlyRejects, serviceVars
<1>7. CASE /\ UNCHANGED <<runner, toService>>
           /\ prompting' \subseteq prompting \union {i}
  <2>1. Only([type |-> "none"])
    BY <1>7, StillFacts DEF SessionInv
  <2>2. Delivered'
    <3>1. {i} \in SUBSET Instructions
      BY <1>3
    <3>2. \A j \in {i} : /\ Asked(j)' /\ ~Underway(j)'
                         /\ \A k \in 1 .. Len(toService) :
                              toService[k].type = "instruction-result" =>
                                toService[k].id # j
      BY <1>4, <1>5, <1>6
    <3>3. [type |-> "none"].type # "instruction-result"
      OBVIOUS
    <3>4. taken \subseteq taken'
      BY <1>6
    <3> HIDE <1>1, <1>3
    <3> QED
      BY <1>2, <1>6, <1>7, <2>1, <3>1, <3>2, <3>3, <3>4, DeliveredStep
  <2>3. OtherInv'
    BY <1>2, <1>3, <1>6, <1>7
       DEF OtherInv, SessionInv, SessionTypes, NoneWaits, Waiting, LetGoFirst,
           ReportsTrue, Reported, NoAbortLost, CompletedTrue, Completed,
           NoNewInstruction, NoNewStart, serviceVars, callVars, watchVars,
           endVars
  <2> QED
    BY <2>2, <2>3 DEF SessionInv, OtherInv
<1>8. CASE /\ Say(Answer(i, FALSE), runner) /\ UNCHANGED prompting
           /\ runner = "running"
  <2>1. Answer(i, FALSE) \in Answers
    BY <1>3 DEF Answer, Answers
  <2>2. Only(Answer(i, FALSE)) /\ runner' \in {runner, "crashed"}
    BY <1>8, <2>1, SayFacts DEF SessionInv, ToService
  <2>3. Delivered'
    <3>1. /\ Answer(i, FALSE).id = i /\ Answer(i, FALSE).ok = FALSE
          /\ {} \in SUBSET Instructions
          /\ prompting' \subseteq prompting \union {}
          /\ taken \subseteq taken'
      BY <1>6, <1>8 DEF Answer
    <3>2. /\ receipt[Answer(i, FALSE).id] # "none"
          /\ Answer(i, FALSE).id \notin prompting'
          /\ ~Underway(Answer(i, FALSE).id)'
          /\ Answer(i, FALSE).ok => Answer(i, FALSE).id \in taken
      BY <1>4, <1>5, <1>6, <1>8, <3>1
    <3> QED
      BY <1>2, <1>6, <2>1, <2>2, <3>1, <3>2, DeliveredStep
  <2>4. OtherInv'
    <3>1. SessionTypes'
      BY <1>2, <1>6, <1>8, <2>2, <2>1
         DEF SessionInv, SessionTypes, NoNewInstruction, Only, ToService,
             serviceVars, callVars, watchVars, endVars
    <3>2. NoneWaits' /\ NoAbortLost' /\ CompletedTrue'
      BY <1>2, <1>6, <1>8, <2>2
         DEF SessionInv, LetGoFirst, NoneWaits, Waiting, NoAbortLost,
             CompletedTrue, Completed, serviceVars, callVars, watchVars,
             endVars
    <3>3. LetGoFirst'
      BY <1>2, <1>6, <1>8, <2>2
         DEF SessionInv, LetGoFirst, NoNewStart, serviceVars, callVars
    <3>4. ReportsTrue'
      BY <1>2, <1>6, <1>8, <2>2
         DEF SessionInv, ReportsTrue, Reported, Ended, Only, Answer,
             serviceVars, endVars
    <3> QED
      BY <3>1, <3>2, <3>3, <3>4 DEF OtherInv
  <2> QED
    BY <2>3, <2>4 DEF SessionInv, OtherInv
<1> QED
  BY <1>1, <1>7, <1>8 DEF ReadInstruction

LEMMA PromptSettlesStep ==
  ASSUME SessionInv, NEW i \in Instructions, PromptSettles(i)
  PROVE  SessionInv'
<1>1. PICK answered \in BOOLEAN :
        (answered => i \in taken) /\ Say(Answer(i, answered), runner)
  BY DEF PromptSettles
<1>2. Answer(i, answered) \in Answers
  BY DEF Answer, Answers
<1>3. /\ NoNewInstruction /\ NoNewStart /\ Only(Answer(i, answered))
      /\ runner' \in {runner, "crashed"}
  BY <1>1, <1>2, StillFacts, SayFacts DEF SessionInv, PromptSettles, ToService
<1>4. /\ i \in prompting /\ prompting' = prompting \ {i} /\ OnlyRejects
      /\ runner \in {"running", "closing"}
      /\ UNCHANGED <<serviceVars, toRunner, cancelled, spliced, runFailed,
                     accepting, taken, others>>
  BY DEF PromptSettles, OnlyRejects, serviceVars
<1>5. receipt[i] # "none" /\ ~Underway(i)
  BY <1>4 DEF SessionInv, Delivered, Asked, Underway
<1>6. Delivered'
  <2>1. ~Underway(i)'
    BY <1>4, <1>5 DEF Underway, IsInstruction
  <2>2. /\ Answer(i, answered).id = i /\ Answer(i, answered).ok = answered
        /\ {} \in SUBSET Instructions
        /\ prompting' \subseteq prompting \union {}
        /\ taken \subseteq taken'
    BY <1>4 DEF Answer
  <2>3. /\ receipt[Answer(i, answered).id] # "none"
        /\ Answer(i, answered).id \notin prompting'
        /\ ~Underway(Answer(i, answered).id)'
        /\ Answer(i, answered).ok => Answer(i, answered).id \in taken
    BY <1>1, <1>4, <1>5, <2>1, <2>2
  <2> QED
    BY <1>2, <1>3, <1>4, <2>2, <2>3, DeliveredStep
<1>7. OtherInv'
  <2>1. SessionTypes'
    BY <1>3, <1>4, <1>2
       DEF SessionInv, SessionTypes, NoNewInstruction, Only, ToService,
           serviceVars, callVars, watchVars, endVars
  <2>2. NoneWaits' /\ NoAbortLost' /\ CompletedTrue'
    BY <1>3, <1>4
       DEF SessionInv, LetGoFirst, NoneWaits, Waiting, NoAbortLost,
           CompletedTrue, Completed, serviceVars, callVars, watchVars,
           endVars
  <2>3. LetGoFirst'
    BY <1>3, <1>4
       DEF SessionInv, LetGoFirst, NoNewStart, serviceVars, callVars
  <2>4. ReportsTrue'
    BY <1>3, <1>4
       DEF SessionInv, ReportsTrue, Reported, Ended, Only, Answer,
           serviceVars, endVars
  <2> QED
    BY <2>1, <2>2, <2>3, <2>4 DEF OtherInv
<1> QED
  BY <1>6, <1>7 DEF SessionInv, OtherInv

(***************************************************************************)
(* Part 5.  The invariant holds initially and every step preserves it.     *)
(***************************************************************************)
LEMMA SessionInit == Init => SessionInv
<1> SUFFICES ASSUME Init PROVE SessionInv
  OBVIOUS
<1>1. toRunner = << >> /\ toService = << >> /\ << >> \in Seq(ToRunner)
      /\ << >> \in Seq(ToService) /\ Len(<< >>) = 0
  BY DEF Init
<1>2. SessionTypes
  BY <1>1 DEF Init, SessionTypes
<1>3. Delivered
  BY <1>1 DEF Init, Delivered
<1>4. /\ NoneWaits /\ LetGoFirst /\ ReportsTrue /\ NoAbortLost
      /\ CompletedTrue
  BY <1>1
     DEF Init, NoneWaits, Waiting, LetGoFirst, ReportsTrue, Reported,
         NoOutcome, NoAbortLost, CompletedTrue, Completed
<1> QED
  BY <1>2, <1>3, <1>4 DEF SessionInv

LEMMA SessionStutter ==
  ASSUME SessionInv, UNCHANGED vars
  PROVE  SessionInv'
<1>1. NoNewInstruction /\ Only([type |-> "none"])
  BY StillFacts DEF SessionInv, vars
<1>2. Delivered'
  BY <1>1, DeliveredQuiet DEF OnlyRejects, vars, serviceVars, runnerVars
<1>3. OtherInv'
  BY DEF OtherInv, SessionInv, SessionTypes, NoneWaits, Waiting, LetGoFirst,
         ReportsTrue, Reported, NoAbortLost, CompletedTrue, Completed, vars,
         serviceVars, callVars, watchVars, endVars, runnerVars
<1> QED
  BY <1>2, <1>3 DEF SessionInv, OtherInv

LEMMA SessionStep == SessionInv /\ [Next]_vars => SessionInv'
<1> SUFFICES ASSUME SessionInv, Next PROVE SessionInv'
  BY SessionStutter
<1>1. CASE Begin \/ Abort \/ ScanFails \/ DeadlinePasses \/ Tick \/ TickKills
  BY <1>1, BeginStep, AbortStep, ScanFailsStep, DeadlinePassesStep, TickStep,
     TickKillsStep
<1>2. CASE Handle
  BY <1>2, OnReadyStep, OnInstructionResultStep, OnOutcomeStep,
     NoticeDisconnectStep DEF Handle
<1>3. CASE NotificationFails \/ Exit \/ Return \/ ServiceDies
  BY <1>3, NotificationFailsStep, ExitStep, ReturnStep, ServiceDiesStep
<1>4. CASE RunnerReady \/ ReadCancel \/ ReadStart \/ ReadInstruction
  BY <1>4, RunnerReadyStep, ReadCancelStep, ReadStartStep,
     ReadInstructionStep
<1>5. CASE PreflightFails \/ RunStarts \/ RunRefused \/ InboxSpliced
  BY <1>5, PreflightFailsStep, RunStartsStep, RunRefusedStep,
     InboxSplicedStep
<1>6. CASE RunEnds \/ HarnessCloses \/ RunnerExits \/ OrphanNotices
             \/ ToolStarts
  BY <1>6, RunEndsStep, HarnessClosesStep, RunnerExitsStep,
     OrphanNoticesStep, ToolStartsStep
<1>7. CASE \E q \in Processes : ProcessEnds(q)
  BY <1>7, ProcessEndsStep
<1>8. ASSUME NEW i \in Instructions,
             \/ Instruct(i) \/ ReceiptTimeout(i)
             \/ HarnessTakes(i) \/ PromptSettles(i)
      PROVE  SessionInv'
  BY <1>8, InstructStep, ReceiptTimeoutStep, HarnessTakesStep,
     PromptSettlesStep
<1> QED
  BY <1>1, <1>2, <1>3, <1>4, <1>5, <1>6, <1>7, <1>8 DEF Next

\* SessionInv is an invariant of the session.
THEOREM SessionInvariant == Spec => []SessionInv
BY SessionInit, SessionStep, PTL DEF Spec

\* Whatever the order of messages, timers, signals and deaths: "completed" is
\* reported only for a run that was let go, succeeded, closed its harness and
\* exited by itself, and an abort is never lost.
THEOREM TerminationIsTrueTheorem == Spec => []TerminationIsTrue
<1>1. SessionInv => TerminationIsTrue
  BY DEF SessionInv, TerminationIsTrue, CompletedTrue, Completed, NoAbortLost
<1> QED
  BY <1>1, SessionInvariant, PTL

(***************************************************************************)
(* Part 6.  The session implements the runtime's contract.                 *)
(***************************************************************************)
Status == CASE phase = "idle" -> "idle"
            [] phase \in {"waiting", "exited"} -> "open"
            [] phase = "returned" -> "ended"
            [] phase = "dead" -> "lost"
ResultOf == IF result = NoResult THEN "none"
            ELSE IF result.clean THEN "clean" ELSE "unclean"
ContractStep == [Contract!Next]_(Contract!contractVars)

LEMMA ContractStutter ==
  ASSUME UNCHANGED <<phase, receipt, taken, runner, others, result>>
  PROVE  ContractStep
BY DEF ContractStep, Contract!contractVars, Alive

\* A process of the attempt comes or goes while another one lives.
LEMMA ContractChange ==
  ASSUME SessionInv, SessionInv', UNCHANGED <<phase, receipt, taken, result>>,
         Alive # {} \/ Alive' = Alive
  PROVE  ContractStep
<1>1. Alive' \subseteq Processes
  BY DEF SessionInv, SessionTypes, Alive, Processes
<1> QED
  BY <1>1
     DEF ContractStep, Contract!contractVars, Contract!Next, Contract!Change

LEMMA ContractBegin ==
  ASSUME SessionInv, SessionInv', Begin
  PROVE  ContractStep
<1>1. Status = "idle" /\ Status' = "open"
  BY DEF Begin, Status
<1>2. Alive' \subseteq Processes
  BY DEF SessionInv, SessionTypes, Alive, Processes
<1>3. UNCHANGED <<receipt, taken, result>>
  BY DEF Begin, endVars
<1> QED
  BY <1>1, <1>2, <1>3 DEF ContractStep, Contract!Next, Contract!Begin, Status

LEMMA ContractReturn ==
  ASSUME SessionInv, Return
  PROVE  ContractStep
<1>1. Status = "open" /\ Status' = "ended"
  BY DEF Return, Status
<1>2. PICK survivors \in SUBSET Alive, throws \in BOOLEAN :
        /\ others' = survivors \ {"runner"}
        /\ runner' = IF "runner" \in Alive \ survivors THEN "crashed"
                                                       ELSE runner
        /\ scanFailed' = (scanFailed \/ throws)
        /\ result' = [clean |-> ~scanFailed' /\ survivors = {} /\ Cleanly,
                      receipt |-> Received, termination |-> Termination]
  BY DEF Return
<1>3. Alive' \subseteq survivors
  BY <1>2 DEF SessionInv, SessionTypes, Alive, Gone
<1>4. Waiting = {} /\ UNCHANGED <<receipt, taken>>
  BY DEF SessionInv, NoneWaits, Return
<1>5. result'.termination # "none" /\ result'.clean \in BOOLEAN
      /\ (result'.clean => survivors = {})
  BY <1>2 DEF Termination, SessionInv, SessionTypes
<1>6. result' # NoResult
  BY <1>5 DEF NoResult
<1>7. /\ ResultOf' \in {"clean", "unclean"}
      /\ ResultOf' = "clean" => survivors = {}
  BY <1>5, <1>6 DEF ResultOf
<1>8. Contract!Return(ResultOf')
  BY <1>1, <1>3, <1>4, <1>7
     DEF Contract!Return, Contract!Waiting, Waiting, Status, ResultOf
<1> QED
  BY <1>7, <1>8 DEF ContractStep, Contract!Next

LEMMA ContractLose ==
  ASSUME SessionInv, ServiceDies
  PROVE  ContractStep
<1>1. Status # "lost" /\ Status' = "lost"
  BY DEF ServiceDies, Status
<1>2. UNCHANGED <<receipt, taken, Alive, result>>
  BY DEF ServiceDies, Alive, runnerVars, endVars
<1> QED
  BY <1>1, <1>2
     DEF ContractStep, Contract!Next, Contract!Lose, Status, ResultOf

LEMMA ContractInstruct ==
  ASSUME SessionInv, NEW i \in Instructions, Instruct(i)
  PROVE  ContractStep
<1>1. receipt[i] = "none" /\ Status # "lost" /\ Status' = Status
      /\ UNCHANGED <<taken, Alive, result>>
  BY DEF SessionInv, SessionTypes, Instruct, Status, Alive, runnerVars,
         endVars, callVars
<1>2. \/ Status = "open" /\ receipt' = [receipt EXCEPT ![i] = "waiting"]
      \/ receipt' = [receipt EXCEPT ![i] = "rejected"]
  <2>1. Reject({i}) => receipt' = [receipt EXCEPT ![i] = "rejected"]
    BY DEF Reject, SessionInv, SessionTypes
  <2> QED
    BY <2>1 DEF Instruct, Status
<1>3. Contract!Ask(i)
  BY <1>1, <1>2 DEF Contract!Ask, Status, ResultOf
<1> QED
  BY <1>3 DEF ContractStep, Contract!Next

\* Instructions of which nobody hears any more are rejected.
LEMMA ContractAbandon ==
  ASSUME SessionInv, Status' = Status, UNCHANGED <<taken, Alive, result>>,
         NEW S \in SUBSET Waiting, Reject(S)
  PROVE  ContractStep
<1>1. Contract!Abandon
  BY DEF Contract!Abandon, Contract!Waiting, Contract!Reject, Reject, Waiting,
         Status, ResultOf
<1> QED
  BY <1>1 DEF ContractStep, Contract!Next

LEMMA ContractTimeout ==
  ASSUME SessionInv, NEW i \in Instructions, ReceiptTimeout(i)
  PROVE  ContractStep
<1>1. {i} \in SUBSET Waiting /\ Reject({i})
  BY DEF ReceiptTimeout, Waiting
<1>2. Status' = Status /\ UNCHANGED <<taken, Alive, result>>
  BY DEF ReceiptTimeout, Status, Alive, runnerVars, endVars, callVars
<1> QED
  BY <1>1, <1>2, ContractAbandon

LEMMA ContractExit ==
  ASSUME SessionInv, Exit
  PROVE  ContractStep
<1>1. Waiting \in SUBSET Waiting /\ Reject(Waiting)
  BY DEF Exit, Unsettled
<1>2. Status' = Status /\ UNCHANGED <<taken, Alive, result>>
  BY DEF Exit, Status, Alive, runnerVars
<1> QED
  BY <1>1, <1>2, ContractAbandon

LEMMA ContractAnswer ==
  ASSUME SessionInv, OnInstructionResult
  PROVE  ContractStep
<1>1. Status' = Status /\ UNCHANGED <<taken, Alive, result>>
  BY DEF OnInstructionResult, Status, Alive, runnerVars, endVars, callVars
<1>2. /\ Head(toService) \in ToService
      /\ 1 \in 1 .. Len(toService) /\ Head(toService) = toService[1]
      /\ Head(toService).type = "instruction-result"
  BY HandleFacts DEF SessionInv, OnInstructionResult, Handles
<1>3. PICK i \in Instructions : i = Head(toService).id
  BY <1>2 DEF ToService, Answers, Outcomes
<1>4. CASE receipt[i] # "waiting"
  BY <1>1, <1>3, <1>4, ContractStutter
     DEF OnInstructionResult, callVars, runnerVars, endVars
<1>5. CASE receipt[i] = "waiting" /\ Head(toService).ok
  <2>1. i \in taken
    BY <1>2, <1>3, <1>5 DEF SessionInv, Delivered
  <2>2. receipt' = [receipt EXCEPT ![i] = "received"]
    BY <1>3, <1>5 DEF OnInstructionResult
  <2>3. Contract!Confirm(i)
    BY <1>1, <1>5, <2>1, <2>2 DEF Contract!Confirm, Status, ResultOf
  <2> QED
    BY <2>3 DEF ContractStep, Contract!Next
<1>6. CASE receipt[i] = "waiting" /\ ~Head(toService).ok
  <2>1. Reject({i})
    BY <1>3, <1>6 DEF OnInstructionResult, Reject, SessionInv, SessionTypes
  <2>2. {i} \in SUBSET Waiting
    BY <1>6 DEF Waiting
  <2> QED
    BY <1>1, <2>1, <2>2, ContractAbandon
<1> QED
  BY <1>4, <1>5, <1>6

LEMMA ContractTake ==
  ASSUME SessionInv, NEW i \in Instructions, HarnessTakes(i)
  PROVE  ContractStep
<1>1. receipt[i] \in {"waiting", "rejected"} /\ Alive # {}
  BY DEF HarnessTakes, SessionInv, Delivered, Asked, Alive
<1>2. UNCHANGED <<phase, receipt, Alive, result>>
  BY DEF HarnessTakes, Alive, serviceVars, callVars, endVars
<1>3. Contract!Take(i)
  BY <1>1, <1>2 DEF Contract!Take, HarnessTakes
<1> QED
  BY <1>3 DEF ContractStep, Contract!Next

LEMMA EveryContractStep == SessionInv /\ [Next]_vars => ContractStep
<1> SUFFICES ASSUME SessionInv, [Next]_vars PROVE ContractStep
  OBVIOUS
<1>0. SessionInv'
  BY SessionStep
<1>1. CASE UNCHANGED vars
  BY <1>1, ContractStutter
     DEF vars, serviceVars, callVars, endVars, runnerVars
<1>2. CASE \/ Abort \/ ScanFails \/ DeadlinePasses \/ Tick \/ TickKills
           \/ OnReady \/ OnOutcome \/ NoticeDisconnect \/ NotificationFails
           \/ ReadCancel \/ InboxSpliced
  <2>1. UNCHANGED <<phase, receipt, taken, runner, others, result>>
    BY <1>2
       DEF Abort, ScanFails, DeadlinePasses, Tick, TickKills, OnReady,
           OnOutcome, NoticeDisconnect, NotificationFails, ReadCancel,
           InboxSpliced, serviceVars, callVars, endVars, runnerVars
  <2> QED
    BY <2>1, ContractStutter
<1>3. CASE \/ RunnerReady \/ ReadStart \/ ReadInstruction \/ PreflightFails
           \/ RunStarts \/ RunRefused \/ RunEnds \/ HarnessCloses
           \/ RunnerExits \/ OrphanNotices \/ ToolStarts
           \/ \E i \in Instructions : PromptSettles(i)
           \/ \E p \in Processes : ProcessEnds(p)
  <2>1. UNCHANGED <<phase, receipt, taken, result>>
    BY <1>3
       DEF RunnerReady, ReadStart, ReadInstruction, PreflightFails,
           RunStarts, RunRefused, RunEnds, HarnessCloses, RunnerExits,
           OrphanNotices, ToolStarts, PromptSettles, ProcessEnds,
           serviceVars, callVars, endVars, runnerVars
  <2>2. Alive # {}
    BY <1>3
       DEF RunnerReady, ReadStart, ReadInstruction, Reads, PreflightFails,
           RunStarts, RunRefused, RunEnds, HarnessCloses, RunnerExits,
           OrphanNotices, ToolStarts, PromptSettles, ProcessEnds, Alive, Gone
  <2> QED
    BY <1>0, <2>1, <2>2, ContractChange
<1>4. CASE Begin \/ Return \/ ServiceDies \/ Exit \/ OnInstructionResult
  BY <1>0, <1>4, ContractBegin, ContractReturn, ContractLose, ContractExit,
     ContractAnswer
<1>5. ASSUME NEW i \in Instructions,
             Instruct(i) \/ ReceiptTimeout(i) \/ HarnessTakes(i)
      PROVE  ContractStep
  BY <1>5, ContractInstruct, ContractTimeout, ContractTake
<1> QED
  BY <1>1, <1>2, <1>3, <1>4, <1>5 DEF Next, Handle

\* The session keeps the contract the controller is written against: an
\* instruction settles once and is received only if the harness took it, none
\* waits when execute() resolves, and a clean result leaves no process.
THEOREM ImplementsContractTheorem == Spec => ImplementsContract
<1>1. Init => Contract!Init
  BY DEF Init, Contract!Init, Alive, Gone, NoResult
<1>2. SessionInv /\ [Next]_vars => [Contract!Next]_(Contract!contractVars)
  BY EveryContractStep DEF ContractStep
<1> QED
  BY <1>1, <1>2, SessionInvariant, PTL
     DEF Spec, ImplementsContract, Contract!Spec

(***************************************************************************)
(* Part 7.  What the contract gives the controller.                        *)
(***************************************************************************)
\* A result comes with the end of execute(); a clean one is the end of every
\* process; and what is received was taken.
SettledInv ==
  /\ \A i \in Instructions : receipt[i] = "received" => i \in taken
  /\ Status \in {"idle", "open"} => ResultOf = "none"
  /\ Status = "ended" => ResultOf # "none"
  /\ ResultOf = "clean" => Alive = {}

\* Every step that the contract allows keeps receipts and a clean end.
LEMMA ContractKeepsReceipts ==
  ASSUME ContractStep,
         receipt \in [Instructions -> {"none", "waiting", "received", "rejected"}]
  PROVE  /\ taken \subseteq taken'
         /\ \A i \in Instructions :
              /\ receipt[i] \in {"received", "rejected"}
                   => receipt'[i] = receipt[i]
              /\ receipt'[i] = "received" => receipt[i] = "received" \/ i \in taken
<1>1. CASE \/ Contract!Begin \/ Contract!Change \/ Contract!Lose
           \/ \E r \in {"clean", "unclean"} : Contract!Return(r)
           \/ UNCHANGED Contract!contractVars
  <2>1. UNCHANGED <<receipt, taken>>
    BY <1>1 DEF Contract!Begin, Contract!Change, Contract!Lose,
                Contract!Return, Contract!contractVars
  <2> QED
    BY <2>1
<1>2. CASE Contract!Abandon
  <2>1. PICK S \in SUBSET Contract!Waiting : Contract!Reject(S)
    BY <1>2 DEF Contract!Abandon
  <2>2. taken' = taken
    BY <1>2 DEF Contract!Abandon
  <2> QED
    BY <2>1, <2>2 DEF Contract!Waiting, Contract!Reject
<1>3. ASSUME NEW j \in Instructions,
             Contract!Ask(j) \/ Contract!Take(j) \/ Contract!Confirm(j)
      PROVE  /\ taken \subseteq taken'
             /\ \A i \in Instructions :
                  /\ receipt[i] \in {"received", "rejected"}
                       => receipt'[i] = receipt[i]
                  /\ receipt'[i] = "received"
                       => receipt[i] = "received" \/ i \in taken
  <2>1. CASE Contract!Ask(j)
    BY <2>1 DEF Contract!Ask
  <2>2. CASE Contract!Take(j)
    BY <2>2 DEF Contract!Take
  <2>3. CASE Contract!Confirm(j)
    BY <2>3 DEF Contract!Confirm
  <2> QED
    BY <1>3, <2>1, <2>2, <2>3
<1> QED
  BY <1>1, <1>2, <1>3 DEF ContractStep, Contract!Next

LEMMA ContractKeepsEnd ==
  ASSUME ContractStep, SettledInv
  PROVE  /\ Status' \in {"idle", "open"} => ResultOf' = "none"
         /\ Status' = "ended" => ResultOf' # "none"
         /\ ResultOf' = "clean" => Alive' = {}
<1> DEFINE s == Status
           r == ResultOf
<1>1. /\ s \in {"idle", "open"} => r = "none"
      /\ s = "ended" => r # "none"
      /\ r = "clean" => Alive = {}
  BY DEF SettledInv
<1>2. CASE Contract!Begin
  <2>1. s = "idle" /\ s' = "open" /\ r' = r
    BY <1>2 DEF Contract!Begin, Status, ResultOf
  <2> QED
    BY <1>1, <2>1
<1>3. CASE Contract!Change
  <2>1. Alive # {} /\ s' = s /\ r' = r
    BY <1>3 DEF Contract!Change, Status, ResultOf
  <2> QED
    BY <1>1, <2>1
<1>4. CASE Contract!Lose
  <2>1. s' = "lost" /\ r' = r /\ Alive' = Alive
    BY <1>4 DEF Contract!Lose, Status, ResultOf
  <2> QED
    BY <1>1, <2>1
<1>5. ASSUME NEW q \in {"clean", "unclean"}, Contract!Return(q)
      PROVE  /\ s' \in {"idle", "open"} => r' = "none"
             /\ s' = "ended" => r' # "none"
             /\ r' = "clean" => Alive' = {}
  <2>1. s' = "ended" /\ r' = q /\ (q = "clean" => Alive' = {})
    BY <1>5 DEF Contract!Return, Status, ResultOf
  <2> QED
    BY <2>1
<1>6. CASE s' = s /\ r' = r /\ Alive' = Alive
  BY <1>1, <1>6
<1>7. CASE Contract!Abandon \/ UNCHANGED Contract!contractVars
  <2>1. s' = s /\ r' = r /\ Alive' = Alive
    BY <1>7 DEF Contract!Abandon, Contract!contractVars, Status, ResultOf
  <2> QED
    BY <1>6, <2>1
<1>8. ASSUME NEW j \in Instructions,
             Contract!Ask(j) \/ Contract!Take(j) \/ Contract!Confirm(j)
      PROVE  s' = s /\ r' = r /\ Alive' = Alive
  BY <1>8 DEF Contract!Ask, Contract!Take, Contract!Confirm, Status, ResultOf
<1> QED
  BY <1>2, <1>3, <1>4, <1>5, <1>6, <1>7, <1>8 DEF ContractStep, Contract!Next

LEMMA SettledInvariant == Spec => []SettledInv
<1>1. Init => SettledInv
  <2> SUFFICES ASSUME Init PROVE SettledInv
    OBVIOUS
  <2>1. Status = "idle" /\ ResultOf = "none"
    BY DEF Init, Status, ResultOf
  <2>2. receipt = [i \in Instructions |-> "none"]
    BY DEF Init
  <2> QED
    BY <2>1, <2>2 DEF SettledInv
<1>2. SessionInv /\ SettledInv /\ [Next]_vars => SettledInv'
  <2> SUFFICES ASSUME SessionInv, SettledInv, [Next]_vars PROVE SettledInv'
    OBVIOUS
  <2>1. ContractStep
    BY EveryContractStep
  <2>2. receipt \in [Instructions -> {"none", "waiting", "received", "rejected"}]
    BY DEF SessionInv, SessionTypes
  <2>3. \A i \in Instructions : receipt'[i] = "received" => i \in taken'
    BY <2>1, <2>2, ContractKeepsReceipts DEF SettledInv
  <2> QED
    BY <2>1, <2>3, ContractKeepsEnd DEF SettledInv
<1> QED
  BY <1>1, <1>2, SessionInvariant, PTL DEF Spec

\* What the controller takes for granted when execute() resolves: nobody waits
\* for a receipt, a received instruction was taken, and after a clean result no
\* process of the attempt is left, then or later.
THEOREM ResolvedIsSettledTheorem == Spec => []ResolvedIsSettled
<1>1. SessionInv /\ SettledInv => ResolvedIsSettled
  <2> SUFFICES ASSUME SessionInv, SettledInv, phase = "returned"
               PROVE  /\ Waiting = {} /\ result # NoResult
                      /\ \A i \in Instructions :
                           receipt[i] = "received" => i \in taken
                      /\ result.clean => Alive = {}
    BY DEF ResolvedIsSettled
  <2>1. Waiting = {}
    BY DEF SessionInv, NoneWaits
  <2>2. Status = "ended"
    BY DEF Status
  <2>3. result # NoResult
    BY <2>2 DEF SettledInv, ResultOf
  <2>4. result.clean => Alive = {}
    BY <2>3 DEF SettledInv, ResultOf
  <2> QED
    BY <2>1, <2>3, <2>4 DEF SettledInv
<1> QED
  BY <1>1, SessionInvariant, SettledInvariant, PTL

\* A receipt is final, although answers come late, twice or after the exit.
THEOREM ReceiptsFinalTheorem == Spec => ReceiptsFinal
<1>1. SessionInv /\ [Next]_vars =>
        [\A i \in Instructions :
           receipt[i] \in {"received", "rejected"} => receipt'[i] = receipt[i]]_vars
  BY EveryContractStep, ContractKeepsReceipts DEF SessionInv, SessionTypes
<1> QED
  BY <1>1, SessionInvariant, PTL DEF Spec, ReceiptsFinal
=============================================================================
