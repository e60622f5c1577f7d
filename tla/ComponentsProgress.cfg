CONSTANTS
  Tickets = {t1}
  Capacity = 1
  Snapshots = {s1}
  OutOfScope = {}
  NoSnapshot = NoSnapshot
  Instructions = {}
  MaxRevision = 1
  MaxAttempts = 2
  MaxVerifications = 0
  Services = {v1, v2, v3}
  NoService = NoService
  Committed = {"kept"}
  Added = {"new", "built"}
  Converted = {"kept"}
  Ignored = {"built"}
  MaxEdits = 1
  Polls = {p1, p2}
  Contents = {c1}
  MaxSaves = 1
  MaxDeaths = 1
  Limit = 1
  Window = 2
  MaxRuns = 2
  MaxLog = 3
  Shown = {x1}
  Looks = {"p", "q"}
  MaxEvents = 2
  MaxClicks = 1
  ListLength = 1
  Descendants = {"child"}
  Strangers = {}
  Scans = 1
  MaxEarly = 1
SPECIFICATION ComponentsProgress
PROPERTIES
  PollsEnd
  PanelFollows
  PageConverges
  CommandEnds
CHECK_DEADLOCK FALSE
