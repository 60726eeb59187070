SPECIFICATION OperatorSpec
CONSTANTS
  s1 = s1
  a = a
  n = n
  Config = {c1}
  Secret = {s1}
  Specs <- OneReference
  SecretStates = {"missing", "valid"}
  MaxGen = 1
  MaxFaults = 1
  Ref = c1
  Removable = {}
  CR = {a}
  Name = {n}
  NameOf <- OwnName
  SensorSpecs <- RuntimeOnly
  OnOpenShift = FALSE
  DriftKinds = {}
  MaxSensorGen = 1
  MaxUid = 1
  MaxSensorFaults = 1
  Nil = Nil
PROPERTY ImplementsContainerSecurity
CHECK_DEADLOCK FALSE
