\* Two edits on each side, restarts among them, and two lost packets or
\* transactions given up.  Numbers: one that 1 and 2 exchange under Swap, one
\* too small, and one that is narrowed to 0.
SPECIFICATION Spec
CONSTANTS
  Width = 4
  Min = 2
  Swap <- MCSwap
  Numbers = {1, 3, 4}
  Signs = {au, zz}
  First = au
  Zeros = zz
  FirstInterval = 2
  FirstPostpone = 3
  MaxEdits = 2
  MaxFaults = 2
  MaxLink = 2
INVARIANTS
  TypeOK
  Vouched
