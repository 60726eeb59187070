SPECIFICATION Spec
CONSTANTS
  a = a
  b = b
  n = n
  m = m
  CR = {a}
  Name = {n, m}
  NameOf <- OwnNames
  Specs <- SwapHalves
  Platforms <- Open
  OnOpenShift = FALSE
  DriftKinds = {}
  MaxGen = 2
  MaxUid = 1
  MaxFaults = 1
  Nil = Nil
INVARIANTS TypeOK RightsBeforeWorkload AvailableMeansDeployed AvailableMeansCurrent
INVARIANTS WebhookHasBackend NeverForgotten
PROPERTY StaysSettled
CHECK_DEADLOCK FALSE
