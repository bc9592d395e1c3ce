\* One name, two callers: the first construction fails.
CONSTANTS
  Callers = {c1, c2}
  Names = {n1}
  MaxDaemons = 1
SPECIFICATION Spec
INVARIANT NilErrorMeansDaemon
