\* Two requests, one source, records of up to three versions, two failures.
CONSTANTS
  c1 = c1
  c2 = c2
  s1 = s1
  Client = {c1, c2}
  Source = {s1}
  Unborn = Unborn
  Gone = Gone
  Text = {"new", "none", "unreadable", "sheet"}
  MaxVersion = 3
  MaxFaults = 2
  ProductChange <- MCProductChange
  SourceChange <- MCSourceChange
  Upload <- MCUpload
SPECIFICATION Spec
SYMMETRY Symmetry
INVARIANTS
  IndexKeyMatchesRecord
  StoredSourceHasItsObject
  FilesLeakOnlyByFault
PROPERTY UpdatesBuildOnTheStoredRecord
CHECK_DEADLOCK FALSE
