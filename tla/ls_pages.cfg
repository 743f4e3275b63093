\* Two listings of every directory with four places, one page left over from
\* before, a fault and a foreign change anywhere.  The operator stops after two.
SPECIFICATION FairSpec
CONSTANTS
  N = 4
  Pages = {"p1", "p2"}
  Leftover = {"p1"}
  Kinds = {"file", "dot"}
  MinLines = 2
  MaxListings = 2
  MaxFaults = 1
  MaxOthers = 1
INVARIANTS
  TypeOK
  Complete
  FewLeftovers
PROPERTY
  ListingEnds
CHECK_DEADLOCK FALSE
