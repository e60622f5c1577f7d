-------------------------- MODULE LiveViewProperties --------------------------
(***************************************************************************)
(* What somebody who looks at the page may rely on.                        *)
(***************************************************************************)
EXTENDS LiveView

\* Every variable has its type.
ViewTypeOK ==
  /\ looks \in [Shown -> Seq(Looks)] /\ \A t \in Shown : Version(t) <= MaxEvents
  /\ Len(journal) <= MaxEvents /\ cursor \in 0 .. Len(journal)
  /\ overview \in [Shown -> 0 .. MaxEvents]
  /\ reading.stage \in {"closed", "none", "asked", "answered", "detailing"}
  /\ selected \in Shown \union {NoTicketId} /\ dialog.open \in BOOLEAN
  /\ \A c \in clicks : c.id \in 1 .. request

\* The page handles every event of the journal once and in order, whatever
\* connections are lost or cut off for being slow: it has handled those up to
\* its cursor, and what is in flight goes on from there.
SeesJournal ==
  /\ seen = [k \in 1 .. cursor |-> k]
  /\ stream # Down
       => seen \o stream.wire = [k \in 1 .. stream.flushed |-> k]

\* What the overview shows of a ticket never gives way to something older: the
\* callers of refresh() share one request, and no answer overtakes another.
OverviewOnlyAdvances ==
  [][\A t \in Shown : overview[t] <= overview'[t]]_viewVars

\* The page catches up with what version() tells apart: whatever happens to a
\* ticket is shown in the overview at last; and as long as nothing more happens
\* to it, the dialog opened for it shows it in the end as version() sees it now,
\* although events that arrive during a refresh start no other one, the answers
\* to clicks, actions and refreshes come in any order, and a ticket may look
\* again as it did before.  What version() does not see, the dialog may show as
\* it was: a verification that began and ended between two reads of the overview,
\* or a command of one.
PageConverges ==
  \A t \in Shown, v \in 1 .. MaxEvents :
    /\ (reading # NotOpen /\ Version(t) = v) ~> (overview[t] >= v)
    /\ (dialog.open /\ selected = t /\ Version(t) = v)
         ~> \/ ~dialog.open \/ selected # t \/ Version(t) # v
            \/ /\ dialog.detail.ticket = t
               /\ looks[t][dialog.detail.version] = looks[t][v]
=============================================================================
