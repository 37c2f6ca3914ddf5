SPECIFICATION Spec
CONSTANTS
  Revisions = {r1, r2}
  Initial = r1
  MaxFormat = 2
  Absent = Absent
  Torn = Torn
INVARIANTS TypeOK KnownGoodSurvives RunsMigrated
PROPERTY ImplementsRegister
