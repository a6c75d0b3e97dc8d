\* A crop that renders, one that may fail every time and a statement that parses;
\* two renderers, so that one can overtake the other's recording, and a parser.
SPECIFICATION Spec
CONSTANTS
  Crops = {c1, c2}
  Statements = {s1}
  Renderers = {w1, w2}
  Parsers = {p1}
  Healthy = {c1, s1}
  MaxAttempts = 2
  MaxCrashes = 1
  Null = Null
INVARIANTS
  OneOutputPerJob
  SucceededHasItsOutput
  ExhaustionIsNotSilence
PROPERTIES
  ImplementsJobQueue
  HealthyJobsSettle
\* Once every job is finished there is nothing left to do.
CHECK_DEADLOCK FALSE
