\* The chat loop and single-prompt mode driving the SmartRouter.
CONSTANTS
  NoTime = NoTime
  NoVal = NoVal
  Cooldown = 1
  MaxTime = 2
  MaxRequests = 4
  ConfigKeys <- MCConfigKeys
  PrimaryOptions <- MCPrimaryOptions
  SecondaryOptions <- MCSecondaryOptions
  ModelArgs <- MCModelArgs

SPECIFICATION Spec

\* The process ends after the single prompt, on exit and on exit(1); the
\* bounds on the clock and on router calls stop the rest.
CHECK_DEADLOCK FALSE

INVARIANT TypeOK
INVARIANT StampIsThirdFailure
INVARIANT SortMatchesReference
INVARIANT AllFailedNamesEveryProvider
INVARIANT RouterLabelMeansRouterAnswer
INVARIANT ConversationalLineAnswered
PROPERTY AnswerSettles
PROPERTY ImplementsRouterFailover
