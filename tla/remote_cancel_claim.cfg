\* The prompt used once, with nothing lost.
SPECIFICATION Spec
CONSTANTS
  Chars <- MCChars
  Files <- MCFiles
  Keys = {"a", ">"}
  Removals <- MCRemovals
  Tails <- MCTails
  Room = 5
  Results = {0, 7}
  Waiting = Waiting
  Unknown = Unknown
  MaxOps = 1
  MaxFaults = 0
PROPERTY
  CancelSendsNothing
CHECK_DEADLOCK FALSE
