CONSTANTS
  Tickets = {t1}
  Capacity = 1
  Snapshots = {s1}
  OutOfScope = {}
  NoSnapshot = NoSnapshot
  Instructions = {}
  MaxRevision = 1
  MaxAttempts = 2
  MaxVerifications = 0
  Services = {v1, v2, v3}
  NoService = NoService
  Committed = {"kept"}
  Added = {"new", "built"}
  Converted = {"kept"}
  Ignored = {"built"}
  MaxEdits = 3
  Polls = {p1, p2}
  Contents = {c1, c2}
  MaxSaves = 2
  MaxDeaths = 1
  Limit = 1
  Window = 2
  MaxRuns = 2
  MaxLog = 4
  Shown = {x1}
  Looks = {"p", "q"}
  MaxEvents = 2
  MaxClicks = 2
  ListLength = 2
  Descendants = {"child"}
  Strangers = {"stranger"}
  Scans = 2
  MaxEarly = 1
SPECIFICATION TrajectoryAlone
INVARIANT RunningIsAtWork
CHECK_DEADLOCK FALSE
