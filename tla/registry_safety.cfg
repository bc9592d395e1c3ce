\* Three callers racing on two names, constructions that may fail, resets.
CONSTANTS
  Callers = {c1, c2, c3}
  Names = {n1, n2}
  MaxDaemons = 3
SPECIFICATION Spec
SYMMETRY RegistrySymmetry
INVARIANT OneDaemonPerName
