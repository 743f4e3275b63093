\* Two calls on the card fail, anywhere, with a reset and a command anywhere.
SPECIFICATION FairSpec
CONSTANTS
  MaxNum = 1
  Wrap = 1
  Passes = 2
  Limit = 0
  Tries = 2
  Truncates = FALSE
  Formatted = TRUE
  Commands = {"rmall", "reset", "set", "on", "off"}
  MaxClock = 1
  MaxCrashes = 1
  MaxFaults = 2
  MaxCmds = 1
INVARIANTS
  TypeOK
  CounterBound
  CounterReadable
  OnStaysOn
PROPERTY
  LoggingResumes
