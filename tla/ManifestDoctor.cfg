SPECIFICATION DoctorSpec
CONSTANTS
  Documents <- MCDocuments
  Expected <- MCExpected
  NoFile = NoFile
INVARIANTS LintedRuns
PROPERTIES FixesStick ApplyKeepsEffect CanonicalKeepsEffect
CHECK_DEADLOCK FALSE
