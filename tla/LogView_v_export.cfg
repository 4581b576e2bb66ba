SPECIFICATION LogSpec
CONSTANTS
  LogNodes = {ln1, ln2}
  Tools = {t1}
  NoCall = NoCall
  MaxRecords = 3
  Kept = 2
INVARIANTS
  ExportMatchesTheScreen
CHECK_DEADLOCK FALSE
