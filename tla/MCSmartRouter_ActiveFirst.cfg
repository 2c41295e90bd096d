\* Attempt order (spec 8) when a cool-down ends while generate sorts.
CONSTANTS
  pA = pA
  pB = pB
  pC = pC
  NoTime = NoTime
  Providers <- MCProviders
  Cooldown = 1
  MaxTime = 1
  MaxRequests = 4

SPECIFICATION Spec

\* Only the bounds on the clock and on the number of calls stop a
\* behaviour; the CLI itself can always read another prompt.
CHECK_DEADLOCK FALSE

INVARIANT ActiveFirst
