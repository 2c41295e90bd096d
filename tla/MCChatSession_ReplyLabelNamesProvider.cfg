\* /model with a name that was not built: the label of later replies.
CONSTANTS
  NoTime = NoTime
  NoVal = NoVal
  Cooldown = 1
  MaxTime = 1
  MaxRequests = 2
  ConfigKeys <- MCConfigKeys
  PrimaryOptions <- MCPrimaryOptions
  SecondaryOptions <- MCSecondaryOptions
  ModelArgs <- MCModelArgs

SPECIFICATION Spec

\* The process ends after the single prompt, on exit and on exit(1); the
\* bounds on the clock and on router calls stop the rest.
CHECK_DEADLOCK FALSE

INVARIANT ReplyLabelNamesProvider
