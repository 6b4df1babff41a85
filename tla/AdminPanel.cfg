SPECIFICATION Spec
CONSTANTS
  v1 = v1
  v2 = v2
  odd = odd
  cleared = cleared
  Kind = {"users", "channels", "roles"}
  Value = {v1, v2, odd, cleared}
  Cleared = cleared
  FirstRows <- MCFirstRows
  SearchText = {v2}
  Kept <- MCKept
  MaxId = 2
  MaxChanges = 2
  MaxRequests = 2
INVARIANT BusyLabelIsTrue
INVARIANT ListsShowReportedChanges
