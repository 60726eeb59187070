SPECIFICATION Spec
CONSTANTS
  Unset = Unset
  Specs <- Unprivileged
  MaxEdits = 0
INVARIANT UnprivilegedReconciles
