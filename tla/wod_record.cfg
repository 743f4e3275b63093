\* Readings at and around every boundary, one field at a time.
SPECIFICATION Spec
CONSTANTS
  Readings <- MCReadings
INVARIANTS
  TypeOK
  Faithful
  Saturates
