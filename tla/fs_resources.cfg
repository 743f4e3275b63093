\* Two commands, of one task or of two at the same time, with every call failing
\* or not and every loop turning as often as it likes.
SPECIFICATION Spec
CONSTANTS
  MaxCommands = 2
INVARIANTS
  TypeOK
  HeldWhenUsed
  NothingLeaks
CHECK_DEADLOCK FALSE
