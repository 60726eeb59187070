SPECIFICATION FairSpec
CONSTANTS
  s1 = s1
  s2 = s2
  Config = {c1}
  Secret = {s1, s2}
  Specs <- ThreeSpecs
  SecretStates = {"missing", "empty", "valid"}
  MaxGen = 2
  MaxFaults = 1
  Nil = Nil
INVARIANTS TypeOK ReadyDescribesSpec NeverForgotten
PROPERTIES ConfirmsSpec UsableIsReported UnusableIsReported
