SPECIFICATION FairSpec
CONSTANTS
  order = order
  retry = retry
  charge = charge
  SentryCalls = {order, retry}
  WindcaveCalls = {charge}
  MAX_RETRIES = 2
  Key <- MCKey
INVARIANTS FailsEarlyOnlyOnReply
PROPERTIES KeepsPromise CallEnds
CHECK_DEADLOCK FALSE
