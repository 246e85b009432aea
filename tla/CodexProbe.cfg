SPECIFICATION Spec
CONSTANTS
  NoCaller = NoCaller
  Callers = {c1, c2}
  MaxAccounts = 2
  Kinds = {"chatgpt"}
  FreeModels = 1
  MaxRetries = 3
  MaxMishaps = 0
  Threshold = 2
INVARIANT RetriedOnHealthy
SYMMETRY CallerSymmetry
