\* One reset of the computer, then "wod rmall".
SPECIFICATION Spec
CONSTANTS
  MaxNum = 1
  Wrap = 2
  Passes = 2
  Limit = 0
  Tries = 2
  Truncates = FALSE
  Formatted = TRUE
  Commands = {"rmall"}
  MaxClock = 1
  MaxCrashes = 1
  MaxFaults = 0
  MaxCmds = 1
INVARIANT
  PurgeComplete
