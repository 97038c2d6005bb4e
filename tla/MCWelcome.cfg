\* Three slots, two places in the programs, one function.
SPECIFICATION Spec
CONSTANTS
  NPROC = 3
  Contexts <- MCContexts
  Functions = {3}
INVARIANTS
  RegistrationIsOwn
PROPERTIES
  ReturnsToFork
