---------------------------- MODULE RemoteCall ----------------------------
(***************************************************************************)
(* What the service may count on when it awaits a call to Windcave or      *)
(* Sentry, with attempts, timeouts and the network left out.  Checkout.tla *)
(* and Refund.tla take their calls to be of this kind; ServiceClient.tla   *)
(* implements it.                                                          *)
(***************************************************************************)

CONSTANTS
  Calls,    \* calls of a client method
  Key(_)    \* the TxnRef or idempotency key a call carries

VARIABLES
  outcome,  \* outcome[c]: what the caller of c knows
  done      \* keys the other side has done the work of

vars == <<outcome, done>>

Init ==
  /\ outcome = [c \in Calls |-> "none"]
  /\ done = {}

Call(c) ==
  /\ outcome[c] = "none"
  /\ outcome' = [outcome EXCEPT ![c] = "open"]
  /\ UNCHANGED done

\* The work may come at any time after a call was made, even after the caller
\* was told that it failed.
Work(c) ==
  /\ outcome[c] # "none"
  /\ done' = done \cup {Key(c)}
  /\ UNCHANGED outcome

\* An answer is only given for work that is done.
Answer(c) ==
  /\ outcome[c] = "open"
  /\ Key(c) \in done
  /\ outcome' = [outcome EXCEPT ![c] = "answered"]
  /\ UNCHANGED done

\* A client error, or an exception the caller does not expect, says nothing of
\* the work.
Fail(c) ==
  /\ outcome[c] = "open"
  /\ \E o \in {"failed", "raised"} : outcome' = [outcome EXCEPT ![c] = o]
  /\ UNCHANGED done

Next == \E c \in Calls : Call(c) \/ Work(c) \/ Answer(c) \/ Fail(c)

Spec == Init /\ [][Next]_vars
=============================================================================
