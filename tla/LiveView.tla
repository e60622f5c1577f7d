------------------------------ MODULE LiveView ------------------------------
(***************************************************************************)
(* The page of the workbench and the journal it follows.  The server       *)
(* flushes the journal to an event stream; the page resumes the stream     *)
(* after the last event it has handled, lets an event refresh the overview *)
(* unless one is being read already, and keeps one detail dialog in step   *)
(* with it.  Clicks, events, replies and a timer meet in any order.        *)
(***************************************************************************)
EXTENDS Integers, Sequences

CONSTANTS
  Shown,       \* tickets on the page
  Looks,       \* what version() may make of a ticket
  MaxEvents,   \* bound: events of the journal, and changes of each ticket
  MaxClicks    \* bound: details opened, and actions taken, by the user

VARIABLES
  looks,       \* per ticket: what version() made of it after each change
  journal,     \* tickets whose record changed, and "noise"
  stream,      \* "down", or what the server has flushed and what is in flight
  cursor,      \* last event the page has handled
  seen,        \* history: the events it has handled, in order
  overview,    \* version of each ticket the page shows
  reading,     \* the overview request in flight
  selected,    \* ticket of the dialog, or of the one being opened
  dialog,      \* whether it is open, and what it shows
  request,     \* detailRequest
  clicks,      \* detail requests in flight
  acts         \* actions in flight

streamVars == <<stream, cursor, seen>>
dialogVars == <<selected, dialog, request, clicks>>
viewVars == <<looks, journal, streamVars, overview, reading, dialogVars, acts>>

Version(t) == Len(looks[t])
Versions == [t \in Shown |-> Version(t)]
NoTicketId == "none"
Down == [flushed |-> -1, wire |-> << >>]
NotOpen == [stage |-> "closed"]
NotReading == [stage |-> "none"]
NoDetail == [ticket |-> NoTicketId, version |-> 0]

ViewInit ==
  /\ looks = [t \in Shown |-> << >>] /\ journal = << >>
  /\ stream = Down /\ cursor = 0 /\ seen = << >>
  /\ overview = [t \in Shown |-> 0] /\ reading = NotOpen
  /\ selected = NoTicketId /\ request = 0
  /\ dialog = [open |-> FALSE, detail |-> NoDetail]
  /\ clicks = {} /\ acts = {}

-----------------------------------------------------------------------------
(***************************************************************************)
(* The server.                                                             *)
(***************************************************************************)
\* version() sees eleven fields of a view: it may make the same of the ticket as
\* before, or what it once made of it.
Changes(t) ==
  /\ Version(t) < MaxEvents
  /\ \E l \in Looks : looks' = [looks EXCEPT ![t] = Append(@, l)]

Announced(e) ==
  Len(journal) < MaxEvents /\ journal' = Append(journal, e)

\* No event tells of an edit in the worktree, and the page passes over some.
Happens ==
  /\ \/ \E t \in Shown : Changes(t) /\ (Announced(t) \/ UNCHANGED journal)
     \/ Announced("noise") /\ UNCHANGED looks
  /\ UNCHANGED <<streamVars, overview, reading, dialogVars, acts>>

\* Fault: what does not fit in the buffer is skipped.
OverloadSkips ==
  stream' = [stream EXCEPT !.flushed = @ + 1]
\* Too much is unread: the connection is destroyed.
Overload == stream' = Down

\* One turn of flush(): the next event is written, or the reader is too slow.
Flush ==
  /\ stream # Down /\ stream.flushed < Len(journal)
  /\ \/ stream' = [flushed |-> stream.flushed + 1,
                   wire |-> Append(stream.wire, stream.flushed + 1)]
     \/ stream.wire # << >> /\ Overload
  /\ UNCHANGED <<looks, journal, cursor, seen, overview, reading, dialogVars,
                 acts>>

\* The service stops, or the connection is lost with what is in flight.
Drop ==
  /\ stream # Down
  /\ stream' = Down
  /\ UNCHANGED <<looks, journal, cursor, seen, overview, reading, dialogVars,
                 acts>>

\* pollOverview() reads each ticket at a time of its own.
AnswerOverview ==
  /\ reading.stage = "asked"
  /\ \E data \in [Shown -> 0 .. MaxEvents] :
       /\ \A t \in Shown : reading.at[t] <= data[t] /\ data[t] <= Version(t)
       /\ reading' = [stage |-> "answered", data |-> data]
  /\ UNCHANGED <<looks, journal, streamVars, overview, dialogVars, acts>>

AnswerClick(c) ==
  /\ c \in clicks /\ ~c.answered
  /\ clicks' = (clicks \ {c})
       \union {[c EXCEPT !.answered = TRUE, !.version = Version(c.ticket)]}
  /\ UNCHANGED <<looks, journal, streamVars, overview, reading, selected,
                 dialog, request, acts>>

-----------------------------------------------------------------------------
(***************************************************************************)
(* The page.                                                               *)
(***************************************************************************)
\* refresh(): the request in flight is shared.
Refresh ==
  reading' = IF reading = NotReading
               THEN [stage |-> "asked", at |-> Versions] ELSE reading

\* The page is loaded, and first reads the overview.
Open ==
  /\ reading = NotOpen
  /\ reading' = [stage |-> "asked", at |-> Versions]
  /\ UNCHANGED <<looks, journal, streamVars, overview, dialogVars, acts>>

Connect ==
  /\ reading # NotOpen /\ stream = Down
  /\ stream' = [Down EXCEPT !.flushed = cursor]
  /\ UNCHANGED <<looks, journal, cursor, seen, overview, reading, dialogVars,
                 acts>>

HandleEvent ==
  /\ stream # Down /\ stream.wire # << >>
  /\ LET n == Head(stream.wire)
     IN /\ cursor' = n /\ seen' = Append(seen, n)
        /\ stream' = [stream EXCEPT !.wire = Tail(@)]
        /\ IF journal[n] # "noise" THEN Refresh ELSE UNCHANGED reading
  /\ UNCHANGED <<looks, journal, overview, dialogVars, acts>>

Timer == Refresh

EveryThreeSeconds ==
  /\ reading # NotOpen /\ Timer
  /\ UNCHANGED <<looks, journal, streamVars, overview, dialogVars, acts>>

\* renderDetail()
Render(t, v) ==
  dialog' = IF selected = t
              THEN [dialog EXCEPT !.detail = [ticket |-> t, version |-> v]]
              ELSE dialog

\* Fault: the dialog is compared with the overview shown before.
BehindOverview(t, v) == overview[t] = 0 \/ looks[t][overview[t]] # looks[t][v]
\* detailVersion is what version() made of what the dialog shows.
Outdated(t, v) ==
  \/ dialog.detail.ticket # t
  \/ looks[t][dialog.detail.version] # looks[t][v]

\* loadOverview() has its answer, and may need the details once more.
ShowOverview ==
  /\ reading.stage = "answered"
  /\ overview' = reading.data
  /\ reading' =
       IF /\ selected # NoTicketId /\ dialog.open
          /\ Outdated(selected, reading.data[selected])
         THEN [stage |-> "detailing", ticket |-> selected,
               from |-> reading.data[selected]]
         ELSE NotReading
  /\ UNCHANGED <<looks, journal, streamVars, dialogVars, acts>>

\* The details it asked for; read by the server at some moment since.
ShowFresh ==
  /\ reading.stage = "detailing"
  /\ \E v \in reading.from .. Version(reading.ticket) :
       IF dialog.open THEN Render(reading.ticket, v) ELSE UNCHANGED dialog
  /\ reading' = NotReading
  /\ UNCHANGED <<looks, journal, streamVars, overview, selected, request,
                 clicks, acts>>

ReadFails ==
  /\ reading \notin {NotReading, NotOpen}
  /\ reading' = NotReading
  /\ UNCHANGED <<looks, journal, streamVars, overview, dialogVars, acts>>

\* showDetail(): the overview lists what can be clicked, and a modal dialog lets
\* nothing else be.
Click(t) ==
  /\ reading # NotOpen /\ overview[t] > 0 /\ ~dialog.open /\ request < MaxClicks
  /\ selected' = t /\ request' = request + 1
  /\ clicks' = clicks \union {[id |-> request', ticket |-> t,
                               answered |-> FALSE, version |-> 0]}
  /\ UNCHANGED <<looks, journal, streamVars, overview, reading, dialog, acts>>

LatestClick(c) == c.id = request /\ selected = c.ticket

ShowClicked(c) ==
  /\ c \in clicks /\ c.answered
  /\ clicks' = clicks \ {c}
  /\ IF LatestClick(c)
       THEN dialog' = [open |-> TRUE,
                       detail |-> IF selected = c.ticket
                                  THEN [ticket |-> c.ticket,
                                        version |-> c.version]
                                  ELSE dialog.detail]
       ELSE UNCHANGED dialog
  /\ UNCHANGED <<looks, journal, streamVars, overview, reading, selected,
                 request, acts>>

Close ==
  /\ dialog.open
  /\ dialog' = [dialog EXCEPT !.open = FALSE]
  /\ selected' = NoTicketId /\ request' = request + 1
  /\ UNCHANGED <<looks, journal, streamVars, overview, reading, clicks, acts>>

\* act(): the answer to an action is shown when a refresh has ended.
Act ==
  /\ dialog.open /\ Changes(selected) /\ Announced(selected)
  /\ acts' = acts \union {[ticket |-> selected,
                           version |-> Version(selected) + 1,
                           stage |-> "sent"]}
  /\ UNCHANGED <<streamVars, overview, reading, dialogVars>>

ActAnswered(a) ==
  /\ a \in acts /\ a.stage = "sent"
  /\ Refresh
  /\ acts' = (acts \ {a}) \union {[a EXCEPT !.stage = "refreshing"]}
  /\ UNCHANGED <<looks, journal, streamVars, overview, dialogVars>>

\* The refresh it waited for has ended; another may have begun since.
ActShown(a) ==
  /\ a \in acts /\ a.stage = "refreshing"
  /\ Render(a.ticket, a.version)
  /\ acts' = acts \ {a}
  /\ UNCHANGED <<looks, journal, streamVars, overview, reading, selected,
                 request, clicks>>

ServerStep == Flush \/ AnswerOverview \/ \E c \in clicks : AnswerClick(c)
PageStep ==
  \/ HandleEvent \/ ShowOverview \/ ShowFresh
  \/ \E c \in clicks : ShowClicked(c)
  \/ \E a \in acts : ActAnswered(a) \/ ActShown(a)

ViewNext ==
  \/ Happens \/ ServerStep \/ Drop
  \/ Open \/ Connect \/ EveryThreeSeconds \/ PageStep \/ ReadFails
  \/ \E t \in Shown : Click(t)
  \/ Close \/ Act

ViewSpec == ViewInit /\ [][ViewNext]_viewVars

\* The server answers, the page handles what arrives, the timer keeps firing;
\* a connection or a request may fail, but not every time.
ViewFairness ==
  /\ SF_viewVars(AnswerOverview) /\ SF_viewVars(ShowOverview)
  /\ SF_viewVars(ShowFresh) /\ WF_viewVars(EveryThreeSeconds)
  /\ WF_viewVars(\E a \in acts : ActAnswered(a) \/ ActShown(a))
=============================================================================
