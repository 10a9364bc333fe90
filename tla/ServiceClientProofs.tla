----------------------- MODULE ServiceClientProofs ------------------------
(***************************************************************************)
(* ServiceClient keeps its types, fails early only on a reply, and         *)
(* implements RemoteCall, for every set of calls, keys and limit.          *)
(***************************************************************************)
EXTENDS ServiceClient, TLAPS

LEMMA TypeInit == Init => TypeOK
  BY RetriesAssumption DEF Init, TypeOK, Points, Replies

LEMMA PostOK ==
  ASSUME TypeOK, NEW c \in Calls, NEW n \in 1 .. MAX_RETRIES, PostAttempt(c, n), UNCHANGED done
  PROVE TypeOK'
  BY RetriesAssumption DEF PostAttempt, TypeOK, Points, Replies

LEMMA EndOK ==
  ASSUME TypeOK, NEW c \in Calls, NEW o \in Points, End(c, o), UNCHANGED done
  PROVE TypeOK'
  BY DEF End, TypeOK

LEMMA TypeStep == TypeOK /\ [Next]_vars => TypeOK'
  <1> SUFFICES ASSUME TypeOK, [Next]_vars PROVE TypeOK'
    OBVIOUS
  <1>1. ASSUME NEW c \in Calls, Request(c) PROVE TypeOK'
    <2>1. 1 \in 1 .. MAX_RETRIES
      BY RetriesAssumption
    <2> QED BY <1>1, <2>1, PostOK DEF Request
  <1>2. ASSUME NEW c \in Calls, Step(c) PROVE TypeOK'
    <2>1. CASE NextAttempt(c)
      <3>1. CASE call[c].attempt < MAX_RETRIES /\ PostAttempt(c, call[c].attempt + 1)
        <4>1. call[c].attempt + 1 \in 1 .. MAX_RETRIES
          BY <3>1, RetriesAssumption DEF TypeOK
        <4> QED BY <2>1, <3>1, <4>1, PostOK DEF NextAttempt
      <3>2. CASE End(c, "failed")
        BY <2>1, <3>2, EndOK DEF NextAttempt, Points
      <3> QED BY <2>1, <3>1, <3>2 DEF NextAttempt
    <2>2. CASE ~ NextAttempt(c)
      <3>1. PICK o \in Points : End(c, o) /\ UNCHANGED done
        BY <1>2, <2>2 DEF Step, ResponseOk, ResponseRefused, ResponseGarbled, Backoff,
             ProtocolError, Points
      <3> QED BY <3>1, EndOK
    <2> QED BY <2>1, <2>2
  <1>3. ASSUME NEW c \in Calls, NEW n \in 1 .. MAX_RETRIES, Serve(c, n) PROVE TypeOK'
    <2>1. PICK reply \in Replies \ {"none"} :
            \/ call' = [call EXCEPT ![c].reply = reply]
            \/ UNCHANGED call
      BY <1>3 DEF Serve, Replies
    <2>2. call' \in [Calls -> [at : Points, attempt : 0 .. MAX_RETRIES, reply : Replies]]
      BY <2>1 DEF TypeOK
    <2>3. wire' \subseteq wire /\ done' \subseteq done \cup {Key(c)}
      BY <1>3 DEF Serve
    <2> QED BY <2>2, <2>3 DEF TypeOK
  <1>4. CASE UNCHANGED vars
    BY <1>4 DEF vars, TypeOK
  <1> QED BY <1>1, <1>2, <1>3, <1>4 DEF Next

(* The clients keep their types: no call makes an attempt beyond the limit.  *)
THEOREM TypeCorrect == Spec => []TypeOK
  <1> QED BY TypeInit, TypeStep, PTL DEF Spec

-----------------------------------------------------------------------------
(* Early failures                                                            *)

LEMMA EarlyStep == TypeOK /\ FailsEarlyOnlyOnReply /\ [Next]_vars => FailsEarlyOnlyOnReply'
  <1> SUFFICES ASSUME TypeOK, FailsEarlyOnlyOnReply, [Next]_vars, NEW c \in Calls,
                      call'[c].at = "failed", call'[c].attempt < MAX_RETRIES
               PROVE call'[c].reply \in {"refused", "garbled"}
    BY DEF FailsEarlyOnlyOnReply, At
  <1>1. CASE call'[c] = call[c]
    BY <1>1 DEF FailsEarlyOnlyOnReply, At
  <1>2. ASSUME NEW b \in Calls, Request(b), b = c PROVE FALSE
    BY <1>2 DEF Request, PostAttempt, TypeOK
  <1>3. ASSUME NEW b \in Calls, Step(b), b = c PROVE call'[c].reply \in {"refused", "garbled"}
    <2>1. CASE NextAttempt(c)
      BY <2>1 DEF NextAttempt, PostAttempt, End, TypeOK
    <2>2. CASE ~ NextAttempt(c)
      BY <1>3, <2>2 DEF Step, ResponseOk, ResponseRefused, ResponseGarbled, Backoff,
           ProtocolError, End, TypeOK
    <2> QED BY <2>1, <2>2
  <1>4. ASSUME NEW b \in Calls, NEW n \in 1 .. MAX_RETRIES, Serve(b, n), b = c,
               call'[c] # call[c]
        PROVE FALSE
    <2>1. At(c, "waiting") /\ call'[c].at = call[c].at
      BY <1>4 DEF Serve, At, TypeOK
    <2> QED BY <2>1 DEF At
  <1>5. ASSUME NEW b \in Calls, b # c,
               \/ Request(b)
               \/ Step(b)
               \/ \E n \in 1 .. MAX_RETRIES : Serve(b, n)
        PROVE call'[c] = call[c]
    <2>1. CASE Request(b)
      BY <1>5, <2>1 DEF Request, PostAttempt, TypeOK
    <2>2. CASE Step(b)
      BY <1>5, <2>2 DEF Step, ResponseOk, ResponseRefused, ResponseGarbled, Backoff,
           ProtocolError, NextAttempt, PostAttempt, End, TypeOK
    <2>3. CASE \E n \in 1 .. MAX_RETRIES : Serve(b, n)
      BY <1>5, <2>3 DEF Serve, TypeOK
    <2> QED BY <1>5, <2>1, <2>2, <2>3
  <1>6. CASE UNCHANGED vars
    BY <1>6, <1>1 DEF vars
  <1> QED BY <1>1, <1>2, <1>3, <1>4, <1>5, <1>6 DEF Next

(* A client error before the last attempt comes of a reply that settles it.  *)
THEOREM FailsOnlyOnReply == Spec => []FailsEarlyOnlyOnReply
  <1>1. Init => FailsEarlyOnlyOnReply
    BY DEF Init, FailsEarlyOnlyOnReply, At
  <1> QED BY <1>1, TypeCorrect, EarlyStep, PTL DEF Spec

-----------------------------------------------------------------------------
(* The clients implement RemoteCall                                          *)

LEMMA PostGrounded ==
  ASSUME TypeOK, Grounded, NEW c \in Calls, NEW n \in 1 .. MAX_RETRIES, PostAttempt(c, n),
         UNCHANGED done
  PROVE Grounded'
  BY DEF PostAttempt, TypeOK, Grounded, At

LEMMA EndGrounded ==
  ASSUME TypeOK, Grounded, NEW c \in Calls, NEW o \in Points \ {"idle"}, End(c, o),
         UNCHANGED done
  PROVE Grounded'
  BY DEF End, TypeOK, Grounded, At

LEMMA GroundedStep == TypeOK /\ Grounded /\ [Next]_vars => Grounded'
  <1> SUFFICES ASSUME TypeOK, Grounded, [Next]_vars PROVE Grounded'
    OBVIOUS
  <1>1. ASSUME NEW c \in Calls, Request(c) PROVE Grounded'
    <2>1. 1 \in 1 .. MAX_RETRIES
      BY RetriesAssumption
    <2> QED BY <1>1, <2>1, PostGrounded DEF Request
  <1>2. ASSUME NEW c \in Calls, Step(c) PROVE Grounded'
    <2>1. CASE NextAttempt(c)
      <3>1. CASE call[c].attempt < MAX_RETRIES /\ PostAttempt(c, call[c].attempt + 1)
        <4>1. call[c].attempt + 1 \in 1 .. MAX_RETRIES
          BY <3>1, RetriesAssumption DEF TypeOK
        <4> QED BY <2>1, <3>1, <4>1, PostGrounded DEF NextAttempt
      <3>2. CASE End(c, "failed")
        BY <2>1, <3>2, EndGrounded DEF NextAttempt, Points
      <3> QED BY <2>1, <3>1, <3>2 DEF NextAttempt
    <2>2. CASE ~ NextAttempt(c)
      <3>1. PICK o \in Points \ {"idle"} : End(c, o) /\ UNCHANGED done
        BY <1>2, <2>2 DEF Step, ResponseOk, ResponseRefused, ResponseGarbled, Backoff,
             ProtocolError, Points
      <3> QED BY <3>1, EndGrounded
    <2> QED BY <2>1, <2>2
  <1>3. ASSUME NEW c \in Calls, NEW n \in 1 .. MAX_RETRIES, Serve(c, n) PROVE Grounded'
    <2>1. wire' \subseteq wire /\ done \subseteq done'
      BY <1>3 DEF Serve
    <2>2. PICK reply \in Replies :
            /\ reply = "ok" => Key(c) \in done'
            /\ \/ call' = [call EXCEPT ![c].reply = reply]
               \/ UNCHANGED call
      BY <1>3 DEF Serve, Replies
    <2>3. \A b \in Calls : call'[b].at = call[b].at
      BY <2>2 DEF TypeOK
    <2>4. ASSUME NEW b \in Calls, call'[b].reply = "ok" PROVE Key(b) \in done'
      BY <2>1, <2>2, <2>4 DEF TypeOK, Grounded
    <2>5. ASSUME NEW m \in wire' PROVE ~ At(m[1], "idle")'
      BY <2>1, <2>3 DEF TypeOK, Grounded, At
    <2> QED BY <2>4, <2>5 DEF Grounded
  <1>4. CASE UNCHANGED vars
    BY <1>4 DEF vars, Grounded, At
  <1> QED BY <1>1, <1>2, <1>3, <1>4 DEF Next

(* Every good reply stands for work done, and every request for a call made. *)
THEOREM GroundedAlways == Spec => []Grounded
  <1>1. Init => Grounded
    BY DEF Init, Grounded, At
  <1> QED BY <1>1, TypeCorrect, GroundedStep, PTL DEF Spec

LEMMA EndIsAbstract ==
  ASSUME TypeOK, NEW c \in Calls, NEW o \in Points, End(c, o)
  PROVE [b \in Calls |-> Outcome(b)]' = [[b \in Calls |-> Outcome(b)] EXCEPT ![c] =
          IF o = "idle" THEN "none" ELSE IF o \in {"waiting", "backoff"} THEN "open" ELSE o]
  <1>1. \A b \in Calls : call'[b].at = IF b = c THEN o ELSE call[b].at
    BY DEF End, TypeOK
  <1> QED BY <1>1 DEF Outcome, At, Points

LEMMA PostIsAbstract ==
  ASSUME TypeOK, NEW c \in Calls, NEW n \in 1 .. MAX_RETRIES, PostAttempt(c, n)
  PROVE [b \in Calls |-> Outcome(b)]' = [[b \in Calls |-> Outcome(b)] EXCEPT ![c] = "open"]
  <1>1. \A b \in Calls : call'[b].at = IF b = c THEN "waiting" ELSE call[b].at
    BY DEF PostAttempt, TypeOK
  <1> QED BY <1>1 DEF Outcome, At

LEMMA StepIsAbstract ==
  TypeOK /\ Grounded /\ [Next]_vars => [Promise!Next]_(Promise!vars)
  <1> SUFFICES ASSUME TypeOK, Grounded, [Next]_vars PROVE [Promise!Next]_(Promise!vars)
    OBVIOUS
  <1>1. ASSUME NEW c \in Calls, Request(c) PROVE Promise!Call(c)
    <2>1. 1 \in 1 .. MAX_RETRIES
      BY RetriesAssumption
    <2>2. Outcome(c) = "none" /\ UNCHANGED done
      BY <1>1 DEF Request, Outcome, At
    <2> QED BY <1>1, <2>1, <2>2, PostIsAbstract DEF Request, Promise!Call
  <1>2. ASSUME NEW c \in Calls, At(c, "waiting"), NEW o \in {"failed", "raised"}, End(c, o),
               UNCHANGED done
        PROVE Promise!Fail(c)
    <2>1. Outcome(c) = "open"
      BY <1>2 DEF Outcome, At
    <2> QED BY <1>2, <2>1, EndIsAbstract DEF Promise!Fail, Points
  <1>3. ASSUME NEW c \in Calls, ResponseOk(c) PROVE Promise!Answer(c)
    <2>1. Outcome(c) = "open" /\ Key(c) \in done
      BY <1>3 DEF ResponseOk, Outcome, At, Grounded
    <2> QED BY <1>3, <2>1, EndIsAbstract DEF ResponseOk, Promise!Answer, Points
  <1>4. ASSUME NEW c \in Calls, NEW o \in {"failed", "backoff"}, At(c, "backoff"), End(c, o),
               UNCHANGED done
        PROVE [Promise!Next]_(Promise!vars)
    <2>1. Outcome(c) = "open"
      BY <1>4 DEF Outcome, At
    <2>2. CASE o = "failed"
      BY <1>4, <2>1, <2>2, EndIsAbstract DEF Promise!Fail, Promise!Next, Points
    <2>3. CASE o = "backoff"
      BY <1>4, <2>1, <2>3, EndIsAbstract DEF Promise!vars, Points
    <2> QED BY <2>2, <2>3
  <1>5. ASSUME NEW c \in Calls, Backoff(c) PROVE UNCHANGED Promise!vars
    <2>1. Outcome(c) = "open"
      BY <1>5 DEF Backoff, Outcome, At
    <2> QED BY <1>5, <2>1, EndIsAbstract DEF Backoff, Promise!vars, Points
  <1>6. ASSUME NEW c \in Calls, NextAttempt(c) PROVE [Promise!Next]_(Promise!vars)
    <2>1. CASE call[c].attempt < MAX_RETRIES /\ PostAttempt(c, call[c].attempt + 1)
      <3>1. call[c].attempt + 1 \in 1 .. MAX_RETRIES
        BY <2>1, RetriesAssumption DEF TypeOK
      <3>2. Outcome(c) = "open" /\ UNCHANGED done
        BY <1>6 DEF NextAttempt, Outcome, At
      <3> QED BY <2>1, <3>1, <3>2, PostIsAbstract DEF Promise!vars
    <2>2. CASE End(c, "failed")
      BY <1>6, <2>2, <1>4 DEF NextAttempt
    <2> QED BY <1>6, <2>1, <2>2 DEF NextAttempt
  <1>7. ASSUME NEW c \in Calls, Step(c) PROVE [Promise!Next]_(Promise!vars)
    <2>1. CASE ResponseOk(c)
      BY <2>1, <1>3 DEF Promise!Next
    <2>2. CASE ResponseRefused(c) \/ ResponseGarbled(c) \/ ProtocolError(c)
      <3>1. PICK o \in {"failed", "raised"} : At(c, "waiting") /\ End(c, o) /\ UNCHANGED done
        BY <2>2 DEF ResponseRefused, ResponseGarbled, ProtocolError
      <3> QED BY <3>1, <1>2 DEF Promise!Next
    <2>3. CASE Backoff(c)
      BY <2>3, <1>5
    <2>4. CASE NextAttempt(c)
      BY <2>4, <1>6
    <2> QED BY <1>7, <2>1, <2>2, <2>3, <2>4 DEF Step
  <1>8. ASSUME NEW c \in Calls, NEW n \in 1 .. MAX_RETRIES, Serve(c, n)
        PROVE [Promise!Next]_(Promise!vars)
    <2>1. \A b \in Calls : call'[b].at = call[b].at
      BY <1>8 DEF Serve, TypeOK
    <2>2. UNCHANGED [b \in Calls |-> Outcome(b)]
      BY <2>1 DEF Outcome, At
    <2>3. Outcome(c) # "none"
      BY <1>8 DEF Serve, Grounded, Outcome, At, TypeOK, Points
    <2>4. done' = done \/ done' = done \cup {Key(c)}
      BY <1>8 DEF Serve
    <2> QED BY <2>2, <2>3, <2>4 DEF Promise!Next, Promise!Work, Promise!vars
  <1>9. CASE UNCHANGED vars
    BY <1>9 DEF vars, Promise!vars, Outcome, At
  <1> QED BY <1>1, <1>7, <1>8, <1>9 DEF Next, Promise!Next

(* ServiceClient implements RemoteCall: an answer only for work done, and    *)
(* nothing promised of a failure.                                            *)
THEOREM ClientKeepsPromise == Spec => KeepsPromise
  <1>1. Init => Promise!Init
    BY DEF Init, Promise!Init, Outcome, At
  <1> QED BY <1>1, TypeCorrect, GroundedAlways, StepIsAbstract, PTL
          DEF Spec, KeepsPromise, Promise!Spec
=============================================================================
