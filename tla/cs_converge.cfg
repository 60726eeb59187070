SPECIFICATION FairSpec
CONSTANTS
  a = a
  b = b
  n = n
  m = m
  CR = {a}
  Name = {n, m}
  NameOf <- OwnNames
  Specs <- TwoEach
  Platforms <- Open
  OnOpenShift = FALSE
  DriftKinds = {"work"}
  MaxGen = 2
  MaxUid = 1
  MaxFaults = 1
  Nil = Nil
PROPERTIES Converges BecomesAvailable
CHECK_DEADLOCK FALSE
