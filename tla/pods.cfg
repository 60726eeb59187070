SPECIFICATION Spec
CONSTANTS
  Unset = Unset
  Specs <- Editable
  MaxEdits = 2
INVARIANTS TypeOK RunsExactlyIfSupported OthersRun
