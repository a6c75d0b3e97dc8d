\* A command a trader is told of, one whose refusal may commit and whose event can
\* never be delivered, and an upload, the last two of which take two bodies for one
\* request; two calls, two dispatchers, one crash.
SPECIFICATION Spec
CONSTANTS
  cmd = cmd
  pay = pay
  upl = upl
  p = p
  q = q
  Keys = {cmd, pay, upl}
  Uploads = {upl}
  Refusable = {pay}
  Told = {cmd, pay}
  Undeliverable = {pay}
  Bodies = {p, q}
  Hashes = {1, 2}
  RequestHash <- MCRequestHash
  Calls = {c1, c2}
  Workers = {w1, w2}
  Batch = 2
  MaxAttempts = 2
  MaxCrashes = 1
  Null = Null
INVARIANTS
  OneExecutionPerKey
  RowsAccountForBytes
PROPERTIES
  ImplementsExactlyOnce
  EventsSettle
\* Once every key is spent and every event settled only replays are left.
CHECK_DEADLOCK FALSE
