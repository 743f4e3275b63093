\* Two commands, on the console or the server, at any step of the daemon and
\* of each other, in a ring of two logs with two records to a log.  No deadlock
\* check: a logger that is off and gets no more commands has nothing to do.
SPECIFICATION FairSpec
CONSTANTS
  MaxNum = 1
  Wrap = 1
  Passes = 2
  MaxCmds = 2
INVARIANTS
  TypeOK
  
  WishKept
  InOrderUnlessMet
PROPERTY
  Heals
CHECK_DEADLOCK FALSE
