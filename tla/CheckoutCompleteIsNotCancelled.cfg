SPECIFICATION Spec
CONSTANTS
  Txns = {t1}
  NoTxn = NoTxn
  Jobs = {j1, j2}
  MaxPolls = 1
PROPERTY CompleteIsNotCancelled
CHECK_DEADLOCK FALSE
