------------------------ MODULE FabricOutboxProofs ------------------------
(***************************************************************************)
(* Proofs about FabricOutbox.tla, for any entries, batch size, number of   *)
(* attempts and number of concurrent admin retries.                        *)
(***************************************************************************)
EXTENDS FabricOutbox, TLAPS

-----------------------------------------------------------------------------
(* Type correctness                                                          *)

\* What a failure leaves is a row.
LEMMA FailedType ==
  ASSUME NEW attempts \in Nat
  PROVE  Failed(attempts) \in
           [status : {"none", "PENDING", "IN_FLIGHT", "DELIVERED", "DLQ"},
            attempts : Nat, due : BOOLEAN]
  BY DEF Failed

LEMMA TypeInit == Init => TypeOK
  BY EntriesAssumption
     DEF Init, TypeOK, EntryOK, WorkerOK, RecordsOK, NoOne

LEMMA TypeEntry == ASSUME TypeOK, [Next]_vars PROVE EntryOK'
  <1> USE DEF TypeOK
  <1>1. ASSUME NEW e \in Entries, Enqueue(e) \/ BackoffEnds(e) PROVE EntryOK'
    <2>1. CASE Enqueue(e)
      BY <2>1 DEF Enqueue, EntryOK
    <2>2. CASE BackoffEnds(e)
      BY <2>2 DEF BackoffEnds, EntryOK
    <2> QED BY <1>1, <2>1, <2>2
  <1>2. CASE ClaimDue
    <2>1. PICK B \in Batches :
            entry' = [e \in Entries |->
              IF e \in B THEN [entry[e] EXCEPT !.status = "IN_FLIGHT"] ELSE entry[e]]
      BY <1>2 DEF ClaimDue
    <2> QED BY <2>1 DEF EntryOK
  <1>3. CASE MarkDelivered
    <2>1. worker.now \in Entries
      BY <1>3 DEF MarkDelivered, Sending, WorkerOK
    <2> QED BY <1>3, <2>1 DEF MarkDelivered, EntryOK
  <1>4. CASE MarkFailed
    <2>1. worker.now \in Entries /\ entry[worker.now].attempts + 1 \in Nat
      BY <1>4 DEF MarkFailed, Sending, WorkerOK, EntryOK
    <2> QED BY <1>4, <2>1, FailedType DEF MarkFailed, EntryOK
  <1>5. ASSUME NEW k \in Threads, RetryWrites(k) PROVE EntryOK'
    <2>1. thread[k].entry \in Entries
      BY <1>5 DEF RetryWrites, RecordsOK
    <2> QED BY <1>5, <2>1 DEF RetryWrites, EntryOK
  <1>6. CASE UNCHANGED entry
    BY <1>6 DEF EntryOK
  <1> QED
    BY <1>1, <1>2, <1>3, <1>4, <1>5, <1>6
       DEF Next, WorkerStep, vars, StartWrite, PassEnds, Restart, RetryReads

LEMMA TypeWorker == ASSUME TypeOK, [Next]_vars PROVE WorkerOK'
  <1> USE DEF TypeOK
  <1>1. CASE ClaimDue
    <2>1. PICK B \in Batches : worker' = [worker EXCEPT !.todo = B]
      BY <1>1 DEF ClaimDue
    <2>2. B \subseteq Entries /\ worker.now = NoEntry
      BY <1>1 DEF Batches, Due, ClaimDue, Asleep
    <2> QED BY <2>1, <2>2, EntriesAssumption DEF WorkerOK
  <1>2. CASE StartWrite
    <2>1. PICK e \in worker.todo :
            \/ worker' = [now |-> e, todo |-> worker.todo \ {e}]
            \/ worker' = [now |-> NoEntry, todo |-> worker.todo \ {e}]
      BY <1>2 DEF StartWrite
    <2> QED BY <2>1, EntriesAssumption DEF WorkerOK
  <1>3. CASE MarkDelivered \/ MarkFailed
    <2>1. worker' = [worker EXCEPT !.now = NoEntry]
      BY <1>3 DEF MarkDelivered, MarkFailed
    <2> QED BY <2>1, EntriesAssumption DEF WorkerOK
  <1>4. CASE worker' = [now |-> NoEntry, todo |-> {}]
    BY <1>4 DEF WorkerOK
  <1>5. CASE UNCHANGED worker
    BY <1>5 DEF WorkerOK
  <1> QED
    BY <1>1, <1>2, <1>3, <1>4, <1>5
       DEF Next, WorkerStep, vars, Enqueue, BackoffEnds, PassEnds, Restart,
           RetryReads, RetryWrites

LEMMA TypeRecords == ASSUME TypeOK, [Next]_vars PROVE RecordsOK'
  <1> USE DEF TypeOK
  <1>1. CASE StartWrite
    <2>1. /\ UNCHANGED <<thread, retries, renewed, stranded>>
          /\ \E e \in worker.todo : sends' \in {sends, [sends EXCEPT ![e] = @ + 1]}
      BY <1>1 DEF StartWrite
    <2> QED BY <2>1 DEF WorkerOK, RecordsOK
  <1>2. CASE PassEnds \/ Restart
    BY <1>2 DEF PassEnds, Restart, Forgotten, WorkerOK, RecordsOK, NoOne
  <1>3. ASSUME NEW k \in Threads, NEW e \in Entries, RetryReads(k, e) PROVE RecordsOK'
    <2>1. entry[e].attempts \in Nat
      BY DEF EntryOK
    <2> QED BY <1>3, <2>1 DEF RetryReads, RecordsOK, history
  <1>4. ASSUME NEW k \in Threads, RetryWrites(k) PROVE RecordsOK'
    BY <1>4 DEF RetryWrites, RecordsOK, NoOne, history
  <1>5. CASE UNCHANGED <<thread, retries, history>>
    BY <1>5 DEF RecordsOK, history
  <1> QED
    BY <1>1, <1>2, <1>3, <1>4, <1>5
       DEF Next, WorkerStep, vars, Enqueue, BackoffEnds, ClaimDue, MarkDelivered, MarkFailed

\* Entries, the worker's batch and the retries keep their shape.
THEOREM TypeCorrect == Spec => []TypeOK
  <1>1. TypeOK /\ [Next]_vars => TypeOK'
    BY TypeEntry, TypeWorker, TypeRecords DEF TypeOK
  <1> QED BY <1>1, TypeInit, PTL DEF Spec

-----------------------------------------------------------------------------
(* What each step does to one entry.                                         *)

\* The status, and on giving up the attempts, that a step may leave.
LEMMA EntryStep ==
  ASSUME TypeOK, [Next]_vars, NEW e \in Entries
  PROVE  \/ entry'[e].status = entry[e].status /\ entry'[e].attempts = entry[e].attempts
         \/ entry'[e].status = "PENDING"
         \/ /\ entry'[e].status = "IN_FLIGHT" /\ Asleep /\ e \in worker'.todo
         \/ entry'[e].status = "DELIVERED"
         \/ /\ entry'[e].status = "DLQ" /\ entry'[e].attempts >= MaxAttempts
  <1> USE DEF TypeOK
  <1>1. ASSUME NEW d \in Entries, Enqueue(d) \/ BackoffEnds(d)
        PROVE  \/ entry'[e].status = entry[e].status /\ entry'[e].attempts = entry[e].attempts
               \/ entry'[e].status = "PENDING"
    BY <1>1 DEF Enqueue, BackoffEnds, EntryOK
  <1>2. CASE ClaimDue
    <2>1. PICK B \in Batches :
            /\ worker' = [worker EXCEPT !.todo = B]
            /\ entry' = [d \in Entries |->
                 IF d \in B THEN [entry[d] EXCEPT !.status = "IN_FLIGHT"] ELSE entry[d]]
      BY <1>2 DEF ClaimDue
    <2>2. CASE e \in B
      <3>1. entry'[e].status = "IN_FLIGHT" /\ e \in worker'.todo
        BY <2>1, <2>2 DEF EntryOK, WorkerOK
      <3> QED BY <1>2, <3>1 DEF ClaimDue
    <2>3. CASE e \notin B
      BY <2>1, <2>3
    <2> QED BY <2>2, <2>3
  <1>3. CASE MarkDelivered
    BY <1>3 DEF MarkDelivered, EntryOK
  <1>4. CASE MarkFailed
    <2>1. CASE e = worker.now
      <3>1. entry'[e] = Failed(entry[e].attempts + 1)
        BY <1>4, <2>1 DEF MarkFailed, EntryOK
      <3> QED BY <3>1 DEF Failed
    <2>2. CASE e # worker.now
      BY <1>4, <2>2 DEF MarkFailed, EntryOK
    <2> QED BY <2>1, <2>2
  <1>5. ASSUME NEW k \in Threads, RetryWrites(k)
        PROVE  \/ entry'[e].status = entry[e].status /\ entry'[e].attempts = entry[e].attempts
               \/ entry'[e].status = "PENDING"
    BY <1>5 DEF RetryWrites, EntryOK
  <1>6. CASE UNCHANGED entry
    BY <1>6
  <1> QED
    BY <1>1, <1>2, <1>3, <1>4, <1>5, <1>6
       DEF Next, WorkerStep, vars, StartWrite, PassEnds, Restart, RetryReads

\* An entry is given up only after MaxAttempts failed attempts.
THEOREM GivenUpLate == Spec => []GivenUpAfterSchedule
  <1>1. Init => GivenUpAfterSchedule
    BY DEF Init, GivenUpAfterSchedule
  <1>2. TypeOK /\ GivenUpAfterSchedule /\ [Next]_vars => GivenUpAfterSchedule'
    BY EntryStep DEF GivenUpAfterSchedule
  <1> QED BY <1>1, <1>2, TypeCorrect, PTL DEF Spec

-----------------------------------------------------------------------------
(* Who holds an entry that is in flight                                      *)

LEMMA OwnerNext == TypeOK /\ InFlightIsOwned /\ [Next]_vars => InFlightIsOwned'
  <1> SUFFICES ASSUME TypeOK, InFlightIsOwned, [Next]_vars,
                      NEW e \in Entries, entry'[e].status = "IN_FLIGHT"
               PROVE  e \in worker'.todo \cup {worker'.now} \cup stranded'
    BY DEF InFlightIsOwned
  <1> USE DEF TypeOK
  <1>1. CASE entry[e].status # "IN_FLIGHT"
    BY <1>1, EntryStep
  <1>2. CASE entry[e].status = "IN_FLIGHT"
    <2>0. e \in worker.todo \cup {worker.now} \cup stranded
      BY <1>2 DEF InFlightIsOwned
    <2>1. CASE ClaimDue
      BY <2>0, <2>1, EntriesAssumption DEF ClaimDue, Asleep, history
    <2>2. CASE StartWrite
      <3>1. PICK d \in worker.todo :
              \/ worker' = [now |-> d, todo |-> worker.todo \ {d}]
              \/ /\ entry[d].status # "IN_FLIGHT"
                 /\ worker' = [now |-> NoEntry, todo |-> worker.todo \ {d}]
        BY <2>2 DEF StartWrite
      <3>2. worker.now = NoEntry /\ UNCHANGED stranded
        BY <2>2 DEF StartWrite
      <3> QED BY <1>2, <2>0, <3>1, <3>2, EntriesAssumption
    <2>3. CASE MarkDelivered
      <3>1. e # worker.now
        BY <2>3 DEF MarkDelivered, EntryOK
      <3> QED BY <2>0, <2>3, <3>1 DEF MarkDelivered, WorkerOK, history
    <2>4. CASE MarkFailed
      <3>1. e # worker.now
        BY <2>4 DEF MarkFailed, EntryOK, Failed
      <3> QED BY <2>0, <2>4, <3>1 DEF MarkFailed, WorkerOK, history
    <2>5. CASE PassEnds \/ Restart
      BY <2>0, <2>5, EntriesAssumption DEF PassEnds, Restart, Forgotten
    <2>6. CASE UNCHANGED <<worker, stranded>>
      BY <2>0, <2>6
    <2> QED
      BY <2>1, <2>2, <2>3, <2>4, <2>5, <2>6
         DEF Next, WorkerStep, vars, history, Enqueue, BackoffEnds, RetryReads, RetryWrites
  <1> QED BY <1>1, <1>2

\* An entry is in flight only while the worker holds it, or after a pass ended early.
THEOREM InFlightOwned == Spec => []InFlightIsOwned
  <1>1. Init => InFlightIsOwned
    BY DEF Init, InFlightIsOwned
  <1> QED BY <1>1, OwnerNext, TypeCorrect, PTL DEF Spec
-----------------------------------------------------------------------------
(* How often an entry is posted                                              *)

\* The posts to come of a row that will be posted: at least one, at most a schedule.
LEMMA RemainingBounds ==
  ASSUME NEW attempts \in Nat
  PROVE  Remaining(attempts) \in 1 .. MaxAttempts
  BY AttemptsAssumption DEF Remaining

\* A row in flight, or given up, has no more to come than a pending one.
LEMMA ToComeBounds ==
  ASSUME TypeOK, NEW e \in Entries
  PROVE  ToCome(e) \in 0 .. MaxAttempts
  <1>1. Remaining(entry[e].attempts) \in 1 .. MaxAttempts
    BY RemainingBounds DEF TypeOK, EntryOK
  <1> QED BY <1>1, AttemptsAssumption DEF ToCome

\* A retry adds a schedule to what an entry may be posted.
LEMMA AllowedGrows ==
  ASSUME NEW n \in Nat
  PROVE  /\ MaxAttempts * (1 + n) \in Nat
         /\ MaxAttempts * (1 + (n + 1)) = MaxAttempts * (1 + n) + MaxAttempts
  <1>1. MaxAttempts \in Nat
    BY AttemptsAssumption
  <1> QED BY <1>1

\* A failure leaves no more to come than the attempts it has left.
LEMMA FailedToCome ==
  ASSUME NEW attempts \in Nat
  PROVE  LET row == Failed(attempts + 1)
         IN \/ row.status = "DLQ"
            \/ /\ row.status = "PENDING"
               /\ Remaining(row.attempts) = Remaining(attempts) - 1
  BY AttemptsAssumption DEF Failed, Remaining

\* Only the worker settles a row, and it does so when its post has ended.
LEMMA OpenNext ==
  ASSUME TypeOK, SendingOpen, [Next]_vars
  PROVE  SendingOpen'
  <1> USE EntriesAssumption DEF TypeOK, SendingOpen, Sending
  <1>1. ASSUME NEW e \in Entries, Enqueue(e) \/ BackoffEnds(e)
        PROVE  SendingOpen'
    BY <1>1 DEF Enqueue, BackoffEnds, EntryOK, WorkerOK
  <1>2. CASE ClaimDue
    <2>1. worker'.now = NoEntry
      BY <1>2 DEF ClaimDue, Asleep, WorkerOK
    <2> QED BY <2>1
  <1>3. CASE StartWrite
    <2>1. \/ worker'.now = NoEntry
          \/ worker'.now \in Entries /\ entry[worker'.now].status = "IN_FLIGHT"
      BY <1>3 DEF StartWrite, WorkerOK
    <2> QED BY <1>3, <2>1 DEF StartWrite
  <1>4. CASE MarkDelivered \/ MarkFailed \/ PassEnds \/ Restart
    <2>1. worker'.now = NoEntry
      BY <1>4 DEF MarkDelivered, MarkFailed, PassEnds, Restart, WorkerOK
    <2> QED BY <2>1
  <1>5. ASSUME NEW k \in Threads, RetryWrites(k)
        PROVE  SendingOpen'
    BY <1>5 DEF RetryWrites, EntryOK, WorkerOK
  <1>6. CASE UNCHANGED <<entry, worker>>
    BY <1>6
  <1> QED
    BY <1>1, <1>2, <1>3, <1>4, <1>5, <1>6 DEF Next, WorkerStep, vars, RetryReads

\* Every step keeps the posts made and to come within the allowance.
LEMMA CoveredNext ==
  ASSUME TypeOK, TypeOK', SendingOpen, SendsCovered, [Next]_vars
  PROVE  SendsCovered'
  <1> SUFFICES ASSUME NEW e \in Entries
               PROVE  sends'[e] + ToCome(e)' <= Allowed(e)'
    BY DEF SendsCovered
  <1>0. /\ sends[e] + ToCome(e) <= Allowed(e)
        /\ sends[e] \in Nat /\ ToCome(e) \in 0 .. MaxAttempts
        /\ sends'[e] \in Nat /\ ToCome(e)' \in 0 .. MaxAttempts
        /\ Remaining(entry[e].attempts) \in 1 .. MaxAttempts
        /\ Allowed(e) \in Nat /\ MaxAttempts \in Nat
    <2>1. ToCome(e)' \in 0 .. MaxAttempts
      BY ToComeBounds, RemainingBounds, AttemptsAssumption DEF TypeOK, EntryOK, ToCome
    <2> QED
      BY <2>1, ToComeBounds, RemainingBounds, AllowedGrows, AttemptsAssumption
         DEF SendsCovered, TypeOK, EntryOK, RecordsOK, Allowed
  <1>1. ASSUME NEW d \in Entries, Enqueue(d) \/ BackoffEnds(d)
        PROVE  sends'[e] + ToCome(e)' <= Allowed(e)'
    <2>1. UNCHANGED <<worker, sends, renewed>>
      BY <1>1 DEF Enqueue, BackoffEnds, history
    <2>2. ToCome(e)' <= ToCome(e)
      <3>1. CASE e = d /\ Enqueue(d)
        BY <1>0, <3>1 DEF Enqueue, ToCome, TypeOK, EntryOK
      <3>2. CASE e # d \/ BackoffEnds(d)
        <4>1. entry'[e].status = entry[e].status /\ entry'[e].attempts = entry[e].attempts
          BY <1>1, <3>2 DEF Enqueue, BackoffEnds, TypeOK, EntryOK
        <4> QED BY <1>0, <2>1, <4>1 DEF ToCome
      <3> QED BY <1>1, <3>1, <3>2
    <2> QED BY <1>0, <2>1, <2>2 DEF Allowed
  <1>2. CASE ClaimDue
    <2>1. PICK B \in Batches :
            /\ worker' = [worker EXCEPT !.todo = B]
            /\ entry' = [d \in Entries |->
                 IF d \in B THEN [entry[d] EXCEPT !.status = "IN_FLIGHT"] ELSE entry[d]]
      BY <1>2 DEF ClaimDue
    <2>2. UNCHANGED <<sends, renewed>> /\ worker.now = NoEntry
      BY <1>2 DEF ClaimDue, Asleep, history
    <2>3. worker'.todo = B /\ worker'.now = NoEntry
      BY <2>1, <2>2 DEF TypeOK, WorkerOK
    <2>4. CASE e \in B
      <3>1. entry[e].status = "PENDING"
        BY <2>4 DEF Batches, Due
      <3>2. entry'[e].status = "IN_FLIGHT" /\ entry'[e].attempts = entry[e].attempts
        BY <2>1, <2>4 DEF TypeOK, EntryOK
      <3>3. ToCome(e)' = ToCome(e)
        BY <2>3, <2>4, <3>1, <3>2 DEF ToCome
      <3> QED BY <1>0, <2>2, <3>3 DEF Allowed
    <2>5. CASE e \notin B
      <3>1. entry'[e] = entry[e]
        BY <2>1, <2>5
      <3>2. ToCome(e)' <= ToCome(e)
        BY <1>0, <2>3, <2>5, <3>1, EntriesAssumption DEF ToCome
      <3> QED BY <1>0, <2>2, <3>2 DEF Allowed
    <2> QED BY <2>4, <2>5
  <1>3. CASE StartWrite
    <2>1. PICK d \in worker.todo :
            \/ /\ entry[d].status = "IN_FLIGHT"
               /\ worker' = [now |-> d, todo |-> worker.todo \ {d}]
               /\ sends' = [sends EXCEPT ![d] = @ + 1]
            \/ /\ entry[d].status # "IN_FLIGHT"
               /\ worker' = [now |-> NoEntry, todo |-> worker.todo \ {d}]
               /\ UNCHANGED sends
      BY <1>3 DEF StartWrite
    <2>2. UNCHANGED <<entry, renewed>> /\ worker.now = NoEntry
      BY <1>3 DEF StartWrite
    <2>3. CASE e = d /\ entry[d].status = "IN_FLIGHT"
      <3>1. sends'[e] = sends[e] + 1
        BY <2>1, <2>3 DEF TypeOK, RecordsOK
      <3>2. ToCome(e)' = ToCome(e) - 1
        BY <1>0, <2>1, <2>2, <2>3 DEF ToCome
      <3> QED BY <1>0, <2>2, <3>1, <3>2 DEF Allowed
    <2>4. CASE e # d \/ entry[d].status # "IN_FLIGHT"
      <3>1. sends'[e] = sends[e]
        BY <2>1, <2>4 DEF TypeOK, RecordsOK
      <3>2. ToCome(e)' = ToCome(e)
        BY <2>1, <2>2, <2>4, EntriesAssumption DEF ToCome
      <3> QED BY <1>0, <2>2, <3>1, <3>2 DEF Allowed
    <2> QED BY <2>3, <2>4
  <1>4. CASE MarkDelivered \/ MarkFailed
    <2>1. /\ worker' = [worker EXCEPT !.now = NoEntry] /\ worker.now \in Entries
          /\ UNCHANGED <<sends, renewed>>
      BY <1>4 DEF MarkDelivered, MarkFailed, Sending, TypeOK, WorkerOK, history
    <2>2. worker'.now = NoEntry /\ worker'.todo = worker.todo /\ e \notin {NoEntry}
      BY <2>1, EntriesAssumption DEF TypeOK, WorkerOK
    <2>3. CASE e # worker.now
      <3>1. entry'[e] = entry[e]
        BY <1>4, <2>3 DEF MarkDelivered, MarkFailed, TypeOK, EntryOK
      <3>2. ToCome(e)' = ToCome(e)
        BY <2>2, <2>3, <3>1 DEF ToCome
      <3> QED BY <1>0, <2>1, <3>2 DEF Allowed
    <2>4. CASE e = worker.now /\ MarkDelivered
      <3>1. entry'[e].status = "DELIVERED"
        BY <2>4 DEF MarkDelivered, TypeOK, EntryOK
      <3>2. ToCome(e)' = 0
        BY <3>1 DEF ToCome
      <3> QED BY <1>0, <2>1, <3>2 DEF Allowed
    <2>5. CASE e = worker.now /\ MarkFailed
      <3>1. entry'[e] = Failed(entry[e].attempts + 1) /\ entry[e].attempts \in Nat
        BY <2>5 DEF MarkFailed, TypeOK, EntryOK
      <3>2. \/ entry'[e].status = "DLQ"
            \/ /\ entry'[e].status = "PENDING"
               /\ Remaining(entry'[e].attempts) = Remaining(entry[e].attempts) - 1
        BY <3>1, FailedToCome
      <3>3. ToCome(e)' = 0 \/ ToCome(e)' = Remaining(entry[e].attempts) - 1
        BY <3>2 DEF ToCome
      <3>4. entry[e].status \in {"PENDING", "IN_FLIGHT"} /\ e \notin worker.todo
        BY <2>1, <2>2, <2>5 DEF SendingOpen, Sending, TypeOK, WorkerOK
      <3>5. ToCome(e) >= Remaining(entry[e].attempts) - 1
        BY <1>0, <2>5, <3>4 DEF ToCome
      <3> QED BY <1>0, <2>1, <3>3, <3>5 DEF Allowed
    <2> QED BY <1>4, <2>3, <2>4, <2>5
  <1>5. CASE PassEnds \/ Restart
    <2>1. UNCHANGED <<entry, sends, renewed>> /\ worker' = [now |-> NoEntry, todo |-> {}]
      BY <1>5 DEF PassEnds, Restart
    <2>2. ToCome(e)' <= ToCome(e)
      BY <1>0, <2>1, EntriesAssumption DEF ToCome
    <2> QED BY <1>0, <2>1, <2>2 DEF Allowed
  <1>6. ASSUME NEW k \in Threads, RetryWrites(k)
        PROVE  sends'[e] + ToCome(e)' <= Allowed(e)'
    <2>1. UNCHANGED <<worker, sends>> /\ thread[k].entry \in Entries
      BY <1>6 DEF RetryWrites, TypeOK, RecordsOK
    <2>2. CASE e = thread[k].entry
      <3>1. renewed'[e] = renewed[e] + 1 /\ renewed[e] \in Nat
        BY <1>6, <2>2 DEF RetryWrites, TypeOK, RecordsOK
      <3>2. Allowed(e)' = Allowed(e) + MaxAttempts
        BY <3>1, AllowedGrows DEF Allowed
      <3> QED BY <1>0, <2>1, <3>2
    <2>3. CASE e # thread[k].entry
      <3>1. entry'[e] = entry[e] /\ renewed'[e] = renewed[e]
        BY <1>6, <2>3 DEF RetryWrites, TypeOK, EntryOK, RecordsOK
      <3>2. ToCome(e)' = ToCome(e)
        BY <2>1, <3>1 DEF ToCome
      <3> QED BY <1>0, <2>1, <3>1, <3>2 DEF Allowed
    <2> QED BY <2>2, <2>3
  <1>7. CASE UNCHANGED <<entry, worker, sends, renewed>>
    <2>1. ToCome(e)' = ToCome(e)
      BY <1>7 DEF ToCome
    <2> QED BY <1>0, <1>7, <2>1 DEF Allowed
  <1> QED
    BY <1>1, <1>2, <1>3, <1>4, <1>5, <1>6, <1>7
       DEF Next, WorkerStep, vars, history, RetryReads

\* An entry is posted to Fabric at most one schedule's times for the sale and one
\* for each admin's retry, whatever fails, restarts or overlaps.
THEOREM ResendsBounded == Spec => []ResendsAreBounded
  <1>0. Init => SendingOpen
    BY DEF Init, SendingOpen, Sending
  <1>1. Init => SendsCovered
    <2> SUFFICES ASSUME Init, NEW e \in Entries
                 PROVE  sends[e] + ToCome(e) <= Allowed(e)
      BY DEF SendsCovered
    <2>1. sends[e] = 0 /\ renewed[e] = 0 /\ ToCome(e) = MaxAttempts
      BY DEF Init, ToCome
    <2> QED BY <2>1, AttemptsAssumption DEF Allowed
  <1>2. TypeOK /\ TypeOK' /\ SendingOpen /\ SendsCovered /\ [Next]_vars
          => SendingOpen' /\ SendsCovered'
    BY OpenNext, CoveredNext
  <1>3. TypeOK /\ SendsCovered => ResendsAreBounded
    <2> SUFFICES ASSUME TypeOK, SendsCovered, NEW e \in Entries
                 PROVE  sends[e] <= Allowed(e)
      BY DEF ResendsAreBounded
    <2>1. ToCome(e) \in 0 .. MaxAttempts /\ sends[e] \in Nat /\ Allowed(e) \in Nat
      BY ToComeBounds, AllowedGrows DEF TypeOK, RecordsOK, Allowed
    <2> QED BY <2>1, AttemptsAssumption DEF SendsCovered
  <1> QED BY <1>0, <1>1, <1>2, <1>3, TypeCorrect, PTL DEF Spec

=============================================================================
