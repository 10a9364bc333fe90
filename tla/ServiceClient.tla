-------------------------- MODULE ServiceClient ---------------------------
(***************************************************************************)
(* The attempt loops of the Windcave and Sentry clients                    *)
(* (pos_service/clients/windcave.py _raw_post, clients/sentry.py _request) *)
(* and the methods that call them.                                         *)
(*                                                                         *)
(* A call posts its request, waits for the response or the timeout, and    *)
(* after a 5xx or a network error sleeps and posts it again with the same  *)
(* TxnRef or idempotency key.  A request whose attempt has ended is still  *)
(* on its way: the other side may do its work later, or receive it twice.  *)
(* The mock modes answer without a call and are left out.                  *)
(*                                                                         *)
(* External: the other side does the work of a key once and then replays   *)
(* its answer; it refuses only keys it has not done.                       *)
(***************************************************************************)
EXTENDS Naturals

CONSTANTS
  SentryCalls,    \* calls of create_pos_so and create_pos_refund
  WindcaveCalls,  \* calls of charge and refund
  Key(_),         \* idempotency_key or txn_ref: the transaction id
  MAX_RETRIES

Calls == SentryCalls \cup WindcaveCalls

ASSUME CallsAssumption == SentryCalls \cap WindcaveCalls = {}
ASSUME RetriesAssumption == MAX_RETRIES \in Nat \ {0}

VARIABLES
  call,   \* where each call stands, its attempt, the reply to that attempt
  wire,   \* requests on their way: a call and the attempt that posted it
  done    \* external: the keys whose work has been done

vars == <<call, wire, done>>

At(c, point) == call[c].at = point

Init ==
  /\ call = [c \in Calls |-> [at |-> "idle", attempt |-> 0, reply |-> "none"]]
  /\ wire = {}
  /\ done = {}

\* One turn of the loop: a fresh connection and a post.
PostAttempt(c, n) ==
  /\ call' = [call EXCEPT ![c] = [at |-> "waiting", attempt |-> n, reply |-> "none"]]
  /\ wire' = wire \cup {<<c, n>>}

End(c, outcome) == call' = [call EXCEPT ![c].at = outcome] /\ UNCHANGED wire

Request(c) ==
  /\ At(c, "idle")
  /\ PostAttempt(c, 1)
  /\ UNCHANGED done

-----------------------------------------------------------------------------
(* The response of the current attempt.                                      *)

\* A 2xx whose body the method can read.
ResponseOk(c) ==
  /\ At(c, "waiting") /\ call[c].reply = "ok"
  /\ End(c, "answered")
  /\ UNCHANGED done

\* A 4xx: windcave's loop raises it, sentry's returns it to a method that does.
ResponseRefused(c) ==
  /\ At(c, "waiting") /\ call[c].reply = "refused"
  /\ End(c, "failed")
  /\ UNCHANGED done

\* Mutant of ResponseGarbled: whatever has status 200 is taken for an answer.
GarbledIsAnswer(c) ==
  /\ At(c, "waiting") /\ call[c].reply \in {"garbled", "error"}
  /\ End(c, "answered")
  /\ UNCHANGED done

\* A 2xx with a body the method cannot read: _parse_xml turns it into a
\* WindcaveClientError, sentry's r.json() and model_validate just raise.
ResponseGarbled(c) ==
  /\ At(c, "waiting") /\ call[c].reply = "garbled"
  /\ End(c, IF c \in SentryCalls THEN "raised" ELSE "failed")
  /\ UNCHANGED done

\* A 5xx, or a NetworkError or TimeoutException instead of a response.
Backoff(c) ==
  /\ At(c, "waiting")
  /\ call[c].reply \in {"none", "error"}
  /\ End(c, "backoff")
  /\ UNCHANGED done

\* Any other httpx error (RemoteProtocolError) leaves the loop.
ProtocolError(c) ==
  /\ At(c, "waiting")
  /\ End(c, "raised")
  /\ UNCHANGED done

\* Mutants of NextAttempt: no second try, and no last one.
GiveUpAtOnce(c) ==
  /\ At(c, "backoff")
  /\ End(c, "failed")
  /\ UNCHANGED done

NeverGiveUp(c) ==
  /\ At(c, "backoff")
  /\ \/ call[c].attempt < MAX_RETRIES /\ PostAttempt(c, call[c].attempt + 1)
     \/ call[c].attempt = MAX_RETRIES /\ PostAttempt(c, 1)
  /\ UNCHANGED done

\* The sleep is over, also after the last attempt: post again or give up.
NextAttempt(c) ==
  /\ At(c, "backoff")
  /\ \/ call[c].attempt < MAX_RETRIES /\ PostAttempt(c, call[c].attempt + 1)
     \/ call[c].attempt = MAX_RETRIES /\ End(c, "failed")
  /\ UNCHANGED done

Step(c) ==
  \/ ResponseOk(c) \/ ResponseRefused(c) \/ ResponseGarbled(c)
  \/ Backoff(c) \/ ProtocolError(c) \/ NextAttempt(c)

-----------------------------------------------------------------------------
(* The other side                                                            *)

\* A request arrives, perhaps after its attempt timed out; the reply reaches
\* only an attempt that still waits, and may be lost.
Serve(c, n) ==
  /\ <<c, n>> \in wire
  /\ wire' = wire \ {<<c, n>>}
  /\ \E reply \in {"ok", "garbled", "refused", "error"} :
       /\ CASE reply \in {"ok", "garbled"} -> done' = done \cup {Key(c)}
            [] reply = "refused" -> Key(c) \notin done /\ UNCHANGED done
            [] reply = "error" -> done' \in {done, done \cup {Key(c)}}
       /\ \/ /\ At(c, "waiting") /\ call[c].attempt = n
             /\ call' = [call EXCEPT ![c].reply = reply]
          \/ UNCHANGED call

Next ==
  \/ \E c \in Calls : Request(c) \/ Step(c)
  \/ \E c \in Calls, n \in 1 .. MAX_RETRIES : Serve(c, n)

Spec == Init /\ [][Next]_vars

\* The event loop resumes a waiting call at its response or its timeout, and a
\* sleeping one.  Nothing is assumed of the other side or the network.
FairSpec == Spec /\ \A c \in Calls : WF_vars(Step(c))

-----------------------------------------------------------------------------
(* Properties                                                                *)

Points == {"idle", "waiting", "backoff", "answered", "failed", "raised"}
Replies == {"none", "ok", "garbled", "refused", "error"}

TypeOK ==
  /\ call \in [Calls -> [at : Points, attempt : 0 .. MAX_RETRIES, reply : Replies]]
  /\ wire \subseteq Calls \X (1 .. MAX_RETRIES)
  /\ done \subseteq {Key(c) : c \in Calls}

\* The callers' view: an answer means that the work is done; a failure means
\* nothing, since work may be done before, during or after it.
Outcome(c) ==
  CASE At(c, "idle") -> "none"
    [] call[c].at \in {"waiting", "backoff"} -> "open"
    [] OTHER -> call[c].at

Promise == INSTANCE RemoteCall WITH outcome <- [c \in Calls |-> Outcome(c)]

\* Whatever requests of this and other calls with the same key arrive late, are
\* refused or answered, the caller sees what RemoteCall promises.
KeepsPromise == Promise!Spec

\* A client error before the last attempt comes of a reply that settles it, so a
\* passing outage shorter than the schedule never fails a sale.
FailsEarlyOnlyOnReply ==
  \A c \in Calls : At(c, "failed") /\ call[c].attempt < MAX_RETRIES =>
    call[c].reply \in {"refused", "garbled"}

\* What makes the promise hold: good replies and requests have their ground.
Grounded ==
  /\ \A c \in Calls : call[c].reply = "ok" => Key(c) \in done
  /\ \A m \in wire : ~ At(m[1], "idle")

\* A handler that awaits a client is resumed, though no response ever comes.
CallEnds ==
  \A c \in Calls :
    At(c, "waiting") ~> call[c].at \in {"answered", "failed", "raised"}
=============================================================================
