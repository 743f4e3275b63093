\* Two uses of the shell - a file, the prompt or a removal - with a lost packet
\* or an early timeout at any step.  The operator stops after two.
SPECIFICATION FairSpec
CONSTANTS
  Chars <- MCChars
  Files <- MCFiles
  Keys = {"a", ">"}
  Removals <- MCRemovals
  Tails <- MCTails
  Room = 5
  Results = {0, 7}
  Waiting = Waiting
  Unknown = Unknown
  MaxOps = 2
  MaxFaults = 1
INVARIANTS
  TypeOK
  FileFollowed
PROPERTIES
  KeepsPromise
  BatchEnds
CHECK_DEADLOCK FALSE
