------------------------- MODULE MCServiceClient --------------------------
(* A charge by Windcave, and two calls to Sentry with one idempotency key.  *)
EXTENDS ServiceClient

CONSTANTS charge, order, retry

MCKey(c) == IF c = charge THEN "TxnRef" ELSE "idempotency_key"
=============================================================================
