SPECIFICATION Spec
CONSTANTS
  Modes <- MCModes
  Codes <- MCCodes
  Infos <- MCInfos
  CR0 = 17
  CR3 = 3563520
  Traps <- MCTraps
  MaxExits = 2
  MaxDword = 2147483647
INVARIANTS TypeOK StatusShown LastWordsShown ReportShown
CHECK_DEADLOCK FALSE
