--------------------------- MODULE FabricOutbox ---------------------------
(***************************************************************************)
(* The Fabric outbox: fabric_outbox rows, the drain worker                 *)
(* (pos_service/services/fabric_outbox.py with FabricClient.               *)
(* write_sales_order) and the admin retry (routes/admin.py).               *)
(*                                                                         *)
(* The worker is one task on the event loop: it claims a batch, sends the  *)
(* entries one after the other, and sleeps.  It waits only for Fabric; its *)
(* short reads and writes are single steps here.  The admin retry runs in  *)
(* the thread pool, so its read and its write are two.                     *)
(***************************************************************************)
EXTENDS Naturals, FiniteSets

CONSTANTS
  Entries,      \* fabric_outbox rows
  NoEntry,
  Created(_),   \* created_at, to order a claim by
  BatchSize,    \* fabric_outbox_batch_size
  MaxAttempts,  \* MAX_ATTEMPTS
  Threads,      \* pool threads serving the admin retry
  MaxRetries    \* bound: how often admins ask for a retry

ASSUME EntriesAssumption ==
  /\ NoEntry \notin Entries
  /\ IsFiniteSet(Entries)
  /\ \A e \in Entries : Created(e) \in Nat
ASSUME BatchAssumption == BatchSize \in Nat \ {0}
ASSUME AttemptsAssumption == MaxAttempts \in Nat \ {0}
ASSUME RetriesAssumption == MaxRetries \in Nat

VARIABLES
  entry,     \* status, attempt_count, and whether next_attempt_at has passed
  worker,    \* the entries still to send of the batch, and the one being sent
  thread,    \* the admin retry: the row it read
  retries,   \* how often an admin asked
  sends,     \* history: how often each entry was posted to Fabric
  renewed,   \* history: how often an admin's retry was written to it
  stranded   \* history: entries the worker had claimed when its pass ended early

history == <<sends, renewed, stranded>>
vars == <<entry, worker, thread, retries, history>>

NoOne == [entry |-> NoEntry, attempts |-> 0]

Init ==
  /\ entry = [e \in Entries |-> [status |-> "none", attempts |-> 0, due |-> FALSE]]
  /\ worker = [now |-> NoEntry, todo |-> {}]
  /\ thread = [k \in Threads |-> NoOne]
  /\ retries = 0
  /\ sends = [e \in Entries |-> 0]
  /\ renewed = [e \in Entries |-> 0]
  /\ stranded = {}

Asleep == worker.now = NoEntry /\ worker.todo = {}

\* A sale or refund reaches its outcome (Checkout.tla, Refund.tla).
Enqueue(e) ==
  /\ entry[e].status = "none"
  /\ entry' = [entry EXCEPT ![e] = [status |-> "PENDING", attempts |-> 0, due |-> TRUE]]
  /\ UNCHANGED <<worker, thread, retries, history>>

\* The backoff of a failed entry is over.
BackoffEnds(e) ==
  /\ entry[e].status = "PENDING"
  /\ ~ entry[e].due
  /\ entry' = [entry EXCEPT ![e].due = TRUE]
  /\ UNCHANGED <<worker, thread, retries, history>>

-----------------------------------------------------------------------------
(* drain_once                                                                *)

Due == {e \in Entries : entry[e].status = "PENDING" /\ entry[e].due}

\* The batches the query may return: the oldest due entries, up to BatchSize.
Batches ==
  {B \in SUBSET Due :
     /\ Cardinality(B) <= BatchSize
     /\ Cardinality(B) < BatchSize => B = Due
     /\ \A d \in B, e \in Due \ B : Created(d) <= Created(e)}

\* Mutant of ClaimDue: every due entry goes in flight, a batch of them is sent.
ClaimAllDue ==
  /\ Asleep
  /\ Due # {}
  /\ \E B \in Batches : worker' = [worker EXCEPT !.todo = B]
  /\ entry' = [e \in Entries |->
       IF e \in Due THEN [entry[e] EXCEPT !.status = "IN_FLIGHT"] ELSE entry[e]]
  /\ UNCHANGED <<thread, retries, history>>

\* _claim_due: the whole batch goes in flight in one commit.
ClaimDue ==
  /\ Asleep
  /\ Due # {}
  /\ \E B \in Batches :
       /\ worker' = [worker EXCEPT !.todo = B]
       /\ entry' = [e \in Entries |->
            IF e \in B THEN [entry[e] EXCEPT !.status = "IN_FLIGHT"] ELSE entry[e]]
  /\ UNCHANGED <<thread, retries, history>>

\* The next entry of the batch; one that is not in flight any more is skipped.
StartWrite ==
  /\ worker.now = NoEntry
  /\ \E e \in worker.todo :
       /\ \A d \in worker.todo : Created(e) <= Created(d)
       /\ \/ /\ entry[e].status = "IN_FLIGHT"
             /\ worker' = [now |-> e, todo |-> worker.todo \ {e}]
             /\ sends' = [sends EXCEPT ![e] = @ + 1]
          \/ /\ entry[e].status # "IN_FLIGHT"
             /\ worker' = [now |-> NoEntry, todo |-> worker.todo \ {e}]
             /\ UNCHANGED sends
  /\ UNCHANGED <<entry, thread, retries, renewed, stranded>>

\* write_sales_order has posted the payload and waits.
Sending == worker.now # NoEntry

\* write_sales_order returned: _mark_delivered does not look at the status.
MarkDelivered ==
  /\ Sending
  /\ entry' = [entry EXCEPT ![worker.now].status = "DELIVERED"]
  /\ worker' = [worker EXCEPT !.now = NoEntry]
  /\ UNCHANGED <<thread, retries, history>>

\* Mutant of Failed: one attempt too few.
FailedEarly(attempts) ==
  [status |-> IF attempts + 1 >= MaxAttempts THEN "DLQ" ELSE "PENDING",
   attempts |-> attempts,
   due |-> FALSE]

\* What a failure leaves of the row; due matters to a pending entry only.
Failed(attempts) ==
  [status |-> IF attempts >= MaxAttempts THEN "DLQ" ELSE "PENDING",
   attempts |-> attempts,
   due |-> FALSE]

\* _mark_failed, on a FabricClientError, whether or not Fabric took the payload.
MarkFailed ==
  /\ Sending
  /\ entry' = [entry EXCEPT ![worker.now] = Failed(@.attempts + 1)]
  /\ worker' = [worker EXCEPT !.now = NoEntry]
  /\ UNCHANGED <<thread, retries, history>>

Forgotten == worker.todo \cup ({worker.now} \ {NoEntry})

\* The pass ends early: a body that is no JSON raises a ValueError that only
\* run_loop catches.
PassEnds ==
  /\ ~ Asleep
  /\ stranded' = stranded \cup Forgotten
  /\ worker' = [now |-> NoEntry, todo |-> {}]
  /\ UNCHANGED <<entry, thread, retries, sends, renewed>>

\* Mutant of Restart: rows in flight are put back, without counting the attempt.
RestartPutsBack ==
  /\ ~ Asleep \/ \E k \in Threads : thread[k] # NoOne
  /\ entry' = [e \in Entries |->
       IF entry[e].status = "IN_FLIGHT" THEN [entry[e] EXCEPT !.status = "PENDING"]
       ELSE entry[e]]
  /\ worker' = [now |-> NoEntry, todo |-> {}]
  /\ thread' = [k \in Threads |-> NoOne]
  /\ UNCHANGED <<retries, history>>

\* The process stops and starts again: nothing reads IN_FLIGHT rows at startup.
Restart ==
  /\ ~ Asleep \/ \E k \in Threads : thread[k] # NoOne
  /\ stranded' = stranded \cup Forgotten
  /\ worker' = [now |-> NoEntry, todo |-> {}]
  /\ thread' = [k \in Threads |-> NoOne]
  /\ UNCHANGED <<entry, retries, sends, renewed>>

-----------------------------------------------------------------------------
(* POST /fabric-outbox/{entry_id}/retry                                      *)

RetryReads(k, e) ==
  /\ thread[k].entry = NoEntry
  /\ retries < MaxRetries
  /\ entry[e].status \in {"DLQ", "DELIVERED"}
  /\ thread' = [thread EXCEPT ![k] = [entry |-> e, attempts |-> entry[e].attempts]]
  /\ retries' = retries + 1
  /\ UNCHANGED <<entry, worker, history>>

\* The commit writes the columns whose values changed, attempt_count only if it
\* was read as something else than 0.
RetryWrites(k) ==
  /\ thread[k].entry # NoEntry
  /\ entry' = [entry EXCEPT ![thread[k].entry] =
       [status |-> "PENDING",
        attempts |-> IF thread[k].attempts = 0 THEN @.attempts ELSE 0,
        due |-> TRUE]]
  /\ thread' = [thread EXCEPT ![k] = NoOne]
  /\ renewed' = [renewed EXCEPT ![thread[k].entry] = @ + 1]
  /\ UNCHANGED <<worker, retries, sends, stranded>>

-----------------------------------------------------------------------------
\* What the worker does once Fabric has answered, or was given up on.
WorkerStep == ClaimDue \/ StartWrite \/ MarkDelivered \/ MarkFailed

Next ==
  \/ \E e \in Entries : Enqueue(e) \/ BackoffEnds(e)
  \/ WorkerStep \/ PassEnds \/ Restart
  \/ \E k \in Threads : RetryWrites(k) \/ \E e \in Entries : RetryReads(k, e)

Spec == Init /\ [][Next]_vars

\* The loop sleeps a fixed interval and goes on, every POST ends by its timeout,
\* and waits pass.  Nothing is assumed of Fabric or of admins.
Fairness == WF_vars(WorkerStep) /\ \A e \in Entries : WF_vars(BackoffEnds(e))

FairSpec == Spec /\ Fairness

-----------------------------------------------------------------------------
(* Properties                                                                *)

EntryOK ==
  entry \in [Entries -> [status : {"none", "PENDING", "IN_FLIGHT", "DELIVERED", "DLQ"},
                         attempts : Nat, due : BOOLEAN]]

WorkerOK ==
  /\ worker \in [now : Entries \cup {NoEntry}, todo : SUBSET Entries]
  /\ worker.now \notin worker.todo

RecordsOK ==
  /\ thread \in [Threads -> [entry : Entries \cup {NoEntry}, attempts : Nat]]
  /\ retries \in Nat
  /\ sends \in [Entries -> Nat]
  /\ renewed \in [Entries -> Nat]
  /\ stranded \subseteq Entries

TypeOK == EntryOK /\ WorkerOK /\ RecordsOK

\* One schedule, and one more for each retry.
Allowed(e) == MaxAttempts * (1 + renewed[e])

\* A payload that Fabric took and did not confirm is posted again, and Fabric may
\* book it again.  However answers are lost, passes end early, the process restarts
\* and admins' retries write over rows the worker has moved on, an entry is posted
\* at most one schedule's times (MAX_ATTEMPTS), and once more that for each retry.
ResendsAreBounded == \A e \in Entries : sends[e] <= Allowed(e)

\* An entry is given up only after the whole schedule, even if an admin's retry
\* writes over a row the worker has moved on meanwhile.
GivenUpAfterSchedule ==
  \A e \in Entries : entry[e].status = "DLQ" => entry[e].attempts >= MaxAttempts

\* An entry is in flight only while the worker holds it, or since a pass of the
\* worker ended early: nothing but the worker claims, and it keeps what it claims.
InFlightIsOwned ==
  \A e \in Entries :
    entry[e].status = "IN_FLIGHT" => e \in worker.todo \cup {worker.now} \cup stranded

\* The worker and an admin's retry never leave a sold entry behind: it is
\* delivered or given up, unless a pass that had claimed it ended early.
EntrySettles ==
  \A e \in Entries :
    entry[e].status = "PENDING" ~>
      entry[e].status \in {"DELIVERED", "DLQ"} \/ e \in stranded

-----------------------------------------------------------------------------
(* Why the resends are bounded: every row has its posts still to come, and   *)
(* what was posted and what is to come stay within the allowance.            *)

\* The row being posted is in flight, or an admin's retry has put it back.
SendingOpen == Sending => entry[worker.now].status \in {"PENDING", "IN_FLIGHT"}

\* A row may be pending with a full count, when a retry that read a count of 0
\* left the column alone: it is posted once more.
Remaining(attempts) == IF attempts < MaxAttempts THEN MaxAttempts - attempts ELSE 1

ToCome(e) ==
  IF entry[e].status = "none" THEN MaxAttempts
  ELSE IF entry[e].status = "PENDING" THEN Remaining(entry[e].attempts)
  ELSE IF entry[e].status # "IN_FLIGHT" THEN 0
  ELSE IF e \in worker.todo THEN Remaining(entry[e].attempts)
  ELSE IF e = worker.now THEN Remaining(entry[e].attempts) - 1
  ELSE 0

SendsCovered == \A e \in Entries : sends[e] + ToCome(e) <= Allowed(e)

=============================================================================
