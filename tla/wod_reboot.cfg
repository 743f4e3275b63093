\* The daemon with resets of the computer at every call of a boot or of a
\* rotation, a clock the ground steps back and forth, and one pause of the logger.
SPECIFICATION FairSpec
CONSTANTS
  MaxNum = 2
  Wrap = 2
  Passes = 2
  Limit = 0
  Tries = 2
  Truncates = FALSE
  Formatted = TRUE
  Commands = {"on", "off"}
  MaxClock = 1
  MaxCrashes = 2
  MaxFaults = 0
  MaxCmds = 1
INVARIANTS
  RecordsMatch
  HeaderFirst
PROPERTIES
  RebootKeepsOldLog
  RingCycles
