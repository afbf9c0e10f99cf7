SPECIFICATION Spec

CONSTANTS
  Deployers = {d1}
  Attempts = 1
  Items <- MCItems
  Limits <- MCLimits
  MaxWrites = 0

INVARIANTS
  OwnCursorIsFollowed

\* A client's paging and a script end.
CHECK_DEADLOCK FALSE
