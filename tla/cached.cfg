SPECIFICATION FairSpec
CONSTANTS
  Sensors = {"container", "runtime"}
  Specs <- ThreeSections
  MaxGen = 2
  MaxFaults = 1
  Nil = Nil
INVARIANTS TypeOK OneEntryPerType VerdictIsWhole GenerationIsSafe
PROPERTIES ConfirmsSpec Settles DownIsReported UpIsReported
CHECK_DEADLOCK FALSE
