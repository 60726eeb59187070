SPECIFICATION Spec
CONSTANTS
  Unset = Unset
  Specs <- Privileged
  MaxEdits = 0
INVARIANT PrivilegedIsAdmitted
