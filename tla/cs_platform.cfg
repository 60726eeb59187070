SPECIFICATION FairSpec
CONSTANTS
  a = a
  b = b
  n = n
  m = m
  CR = {a}
  Name = {n, m}
  NameOf <- OwnNames
  Specs <- RuntimeOnly
  Platforms <- EveryView
  OnOpenShift = TRUE
  DriftKinds = {"binding"}
  MaxGen = 1
  MaxUid = 1
  MaxFaults = 1
  Nil = Nil
PROPERTIES Converges AvailableIsWithdrawn
CHECK_DEADLOCK FALSE
