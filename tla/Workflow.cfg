SPECIFICATION Spec
CONSTANTS
  Plans <- MCPlans
  MaxRuns = 3
INVARIANTS
  LedgerMatchesDisk
  PassSpeaksForResults
  RootPassIsOfTheRun
  RerunRecovers
  VerifiedIsOneRun
