SPECIFICATION FairSpec
CONSTANTS
  a = a
  b = b
  n = n
  m = m
  CR = {a}
  Name = {n, m}
  NameOf <- OwnNames
  Specs <- ContainerChanges
  Platforms <- Open
  OnOpenShift = FALSE
  DriftKinds = {}
  MaxGen = 2
  MaxUid = 1
  MaxFaults = 0
  Nil = Nil
PROPERTY SensorsFollowResource
CHECK_DEADLOCK FALSE
