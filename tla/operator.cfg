SPECIFICATION FairOperatorSpec
CONSTANTS
  s1 = s1
  a = a
  n = n
  Config = {c1}
  Secret = {s1}
  Specs <- SomeOrNone
  SecretStates = {"missing", "valid"}
  MaxGen = 2
  MaxFaults = 0
  Ref = c1
  Removable = {}
  CR = {a}
  Name = {n}
  NameOf <- OwnName
  SensorSpecs <- RuntimeOnly
  OnOpenShift = FALSE
  DriftKinds = {}
  MaxSensorGen = 1
  MaxUid = 1
  MaxSensorFaults = 0
  Nil = Nil
INVARIANT SettingsNameASecret
PROPERTIES GateIsVouchedFor UsableReachesSensors LossReachesResource
CHECK_DEADLOCK FALSE
