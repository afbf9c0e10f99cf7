SPECIFICATION Spec

CONSTANTS
  Deployers = {d1, d2}
  Attempts = 2
  Items <- MCItems
  Limits <- MCLimits
  MaxWrites = 2

INVARIANTS
  ProvisionedOrUntouched
  SteadyListedOnce
  CursorsStayInTheirListing
  ListingsFindTheirIndexes

\* A client's paging and a script end.
CHECK_DEADLOCK FALSE
