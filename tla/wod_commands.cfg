\* The commands that write the counter, on a card that starts empty, with a
\* reset of the computer at every call.
SPECIFICATION FairSpec
CONSTANTS
  MaxNum = 1
  Wrap = 2
  Passes = 2
  Limit = 0
  Tries = 2
  Truncates = FALSE
  Formatted = FALSE
  Commands = {"rmall", "set", "on", "off"}
  MaxClock = 1
  MaxCrashes = 1
  MaxFaults = 0
  MaxCmds = 2
INVARIANTS
  CounterAgrees
  EnableRestored
  SizeBound
PROPERTY
  CommandsRevive
