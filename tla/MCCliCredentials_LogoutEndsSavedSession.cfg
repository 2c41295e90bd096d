\* A successful logout leaves the saved session valid.
CONSTANTS
  p1 = p1
  p2 = p2
  tA = tA
  tL = tL
  t1 = t1
  NoVal = NoVal
  Procs <- MCProcs
  Tokens <- MCTokens
  InitTokens <- MCInitTokens
  EnvChoices <- MCEnvChoices
  GlobalChoices <- MCGlobalChoices
SPECIFICATION Spec

INVARIANT LogoutEndsSavedSession
