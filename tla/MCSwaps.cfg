SPECIFICATION Spec
CONSTANTS
  n1 = n1
  n2 = n2
  o1 = o1
  o2 = o2
  o3 = o3
  o4 = o4
  Notes = {n1, n2}
  Outputs = {o1, o2, o3, o4}
  Value <- MCValue
  Promised = {o4}
  BaseFee = 1
  Wishes <- MCWishes
  Attempts = {a1, a2, a3}
  MaxCrashes = 1
SYMMETRY Symmetry
INVARIANTS
  TypeOK
  EveryNoteIsBacked
  AnswersAreBacked
PROPERTIES
  RetriesAreNeverRefused
  KeepsTheValuePromise
CHECK_DEADLOCK FALSE
