---------------------- MODULE SnapshotPollingProperties ----------------------
(***************************************************************************)
(* What a poll of a ticket's status may rely on.                           *)
(***************************************************************************)
EXTENDS SnapshotPolling

Settles(p) == poll'[p] # poll[p] /\ poll'[p].stage = "answered"

\* Every variable has its type.
PollingTypeOK ==
  /\ version \in 0 .. MaxSaves /\ settled \in BOOLEAN
  /\ tree \in Contents /\ sinceSave \subseteq Contents
  /\ \A p \in Polls : poll[p].stage \in {"idle", "reading", "answered"}
  /\ worker \in 0 .. workers /\ alive \subseteq 1 .. workers
  /\ replies \subseteq DOMAIN requests
  /\ terminating \in 0 .. workers /\ closed \in BOOLEAN

\* An answer with a snapshot shows the record as it is when it is given, however
\* often it was saved while the worker captured, and a snapshot from after its
\* last save: a capture made before an operation does not stand for what the
\* operation left, although readers share captures and the cache outlives them.
AnswerIsCurrent ==
  [][\A p \in Polls :
       Settles(p) /\ poll'[p].digest # "error"
         => /\ poll'[p].version = version
            /\ poll'[p].digest \in Contents => poll'[p].digest \in sinceSave
    ]_pollingVars

\* Every poll is answered, whatever dies and whoever closes the reader.
PollsEnd ==
  \A p \in Polls : (poll[p].stage = "reading") ~> (poll[p].stage = "answered")

=============================================================================
