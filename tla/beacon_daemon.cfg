\* The daemon with two commands between any two of its steps, a step of the
\* clock and a failure.  Numbers: too small, a longer one, and one
\* that is narrowed to the least.
SPECIFICATION FairSpec
CONSTANTS
  Width = 4
  Min = 2
  Numbers = {0, 3, 6}
  FirstInterval = 2
  FirstPostpone = 3
  MaxWork = 1
  MaxIdle = 4
  MaxCmds = 2
  MaxSteps = 1
  MaxFaults = 1
INVARIANTS
  TypeOK
  OneLateBeacon
  Apart
  FreshBeacon
PROPERTY
  KeepsSending
