SPECIFICATION FairSpec
CONSTANTS
  a = a
  b = b
  n = n
  m = m
  CR = {a}
  Name = {n, m}
  NameOf <- OwnNames
  Specs <- FailOrNothing
  Platforms <- Open
  OnOpenShift = FALSE
  DriftKinds = {}
  MaxGen = 2
  MaxUid = 2
  MaxFaults = 1
  Nil = Nil
PROPERTIES VerdictMatchesSpec ConfirmsSpec Converges DisablingUnblocks
CHECK_DEADLOCK FALSE
