SPECIFICATION Spec
CONSTANTS
  NoCaller = NoCaller
  Callers = {c1, c2}
  MaxAccounts = 2
  Kinds = {"chatgpt", "platform", "copilot", "kilo"}
  FreeModels = 2
  MaxRetries = 3
  MaxMishaps = 1
  Threshold = 2
INVARIANT ProbeOwned
INVARIANT NotResentWhileLimited
INVARIANT CredentialsKept
 
PROPERTY LimitedServed
SYMMETRY CallerSymmetry
