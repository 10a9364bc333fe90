---------------------------- MODULE TillProofs ----------------------------
(***************************************************************************)
(* Proofs about Till.tla and TillReport.tla, for any cashiers,             *)
(* transactions, tills, threads and amounts.                               *)
(***************************************************************************)
EXTENDS TillReport, TLAPS

-----------------------------------------------------------------------------
(* Type correctness                                                          *)

\* Adding a transaction to tallies gives tallies.
LEMMA AddType ==
  ASSUME NEW tallies \in Tallies, NEW t \in Txns
  PROVE  Add(tallies, t) \in Tallies
  <1>1. t.cents \in Int
    BY TxnsAssumption
  <1> QED BY <1>1 DEF Add, Tallies

LEMMA NoTalliesType == NoTallies \in Tallies
  BY DEF NoTallies, Tallies

\* What a till's row says it should hold is a number of cents.
LEMMA ExpectedType ==
  ASSUME TillOK, NEW s \in Sessions
  PROVE  Expected(s) \in Int
  <1>1. till[s].float \in Nat /\ till[s].tallies.sales \in Int /\ till[s].tallies.refunds \in Int
    BY DEF TillOK, Tallies
  <1> QED BY <1>1 DEF Expected

LEMMA TypeInit == Init => TypeOK
  BY NoTalliesType
     DEF Init, TypeOK, TillOK, ThreadOK, LoopOK, HistoryOK, IdleThread, IdleLoop

TillRow ==
  [status : {"none", "OPEN", "CLOSED"}, cashier : Cashiers \cup {"none"}, float : Nat,
   tallies : Tallies, counted : Nat, expected : Int, variance : Int]

LEMMA TypeTill == ASSUME TypeOK, [Next]_vars PROVE TillOK'
  <1> USE DEF TypeOK
  <1>1. ASSUME NEW w \in Workers, InsertSession(w) PROVE TillOK'
    <2>1. thread[w].cashier \in Cashiers \cup {"none"} /\ thread[w].cents \in Nat
      BY DEF ThreadOK
    <2>2. CASE UNCHANGED till
      BY <2>2 DEF TillOK
    <2>3. CASE ~ UNCHANGED till
      <3>1. PICK s \in Sessions :
              till' = [till EXCEPT ![s].status = "OPEN", ![s].cashier = thread[w].cashier,
                                   ![s].float = thread[w].cents]
        BY <1>1, <2>3 DEF InsertSession
      <3>2. till[s] \in TillRow
        BY DEF TillOK, TillRow
      <3>3. [till[s] EXCEPT !.status = "OPEN", !.cashier = thread[w].cashier,
                            !.float = thread[w].cents] \in TillRow
        BY <2>1, <3>2 DEF TillRow
      <3>4. till' = [till EXCEPT ![s] = [till[s] EXCEPT !.status = "OPEN",
                       !.cashier = thread[w].cashier, !.float = thread[w].cents]]
        BY <3>1
      <3>5. till \in [Sessions -> TillRow]
        BY DEF TillOK, TillRow
      <3>6. till' \in [Sessions -> TillRow]
        BY <3>3, <3>4, <3>5
      <3> QED BY <3>6 DEF TillOK, TillRow
    <2> QED BY <2>2, <2>3
  <1>2. ASSUME NEW w \in Workers, CloseSession(w) PROVE TillOK'
    <2>1. thread[w].cents \in Nat /\ thread[w].expected \in Int
      BY DEF ThreadOK
    <2>2. thread[w].cents - thread[w].expected \in Int
      BY <2>1
    <2>3. till \in [Sessions -> TillRow]
      BY DEF TillOK, TillRow
    <2>4. \A s \in Sessions :
            [till[s] EXCEPT !.status = "CLOSED", !.counted = thread[w].cents,
                            !.expected = thread[w].expected,
                            !.variance = thread[w].cents - thread[w].expected] \in TillRow
      BY <2>1, <2>2, <2>3 DEF TillRow
    <2>5. till' = [till EXCEPT ![thread[w].sid] = [till[thread[w].sid] EXCEPT
                     !.status = "CLOSED", !.counted = thread[w].cents,
                     !.expected = thread[w].expected,
                     !.variance = thread[w].cents - thread[w].expected]]
      BY <1>2 DEF CloseSession
    <2>6. till' \in [Sessions -> TillRow]
      BY <2>3, <2>4, <2>5
    <2> QED BY <2>6 DEF TillOK, TillRow
  <1>3. CASE CommitAttribution
    <2>1. Add(loop.tallies, loop.txn) \in Tallies
      BY <1>3, AddType DEF CommitAttribution, LoopOK
    <2>2. till \in [Sessions -> TillRow]
      BY DEF TillOK, TillRow
    <2>3. \A s \in Sessions :
            [till[s] EXCEPT !.tallies = Add(loop.tallies, loop.txn)] \in TillRow
      BY <2>1, <2>2 DEF TillRow
    <2>4. till' = [till EXCEPT ![loop.sid] =
                     [till[loop.sid] EXCEPT !.tallies = Add(loop.tallies, loop.txn)]]
      BY <1>3 DEF CommitAttribution
    <2>5. till' \in [Sessions -> TillRow]
      BY <2>2, <2>3, <2>4
    <2> QED BY <2>5 DEF TillOK, TillRow
  <1>4. CASE UNCHANGED till
    BY <1>4 DEF TillOK
  <1> QED
    BY <1>1, <1>2, <1>3, <1>4
       DEF Next, vars, OpenTill, CloseTill, AttributeTransaction, Crash

LEMMA TypeThread == ASSUME TypeOK, [Next]_vars PROVE ThreadOK'
  <1> USE DEF TypeOK
  <1>1. ASSUME NEW w \in Workers, NEW c \in Cashiers, NEW cents \in Floats, OpenTill(w, c, cents)
        PROVE  ThreadOK'
    <2>1. cents \in Nat
      BY CentsAssumption
    <2> QED BY <1>1, <2>1 DEF OpenTill, ThreadOK
  <1>2. ASSUME NEW w \in Workers, NEW c \in Cashiers, NEW cents \in Counts, CloseTill(w, c, cents)
        PROVE  ThreadOK'
    <2>1. cents \in Nat
      BY CentsAssumption
    <2>2. PICK s \in OpenSessions(c) :
            thread' = [thread EXCEPT ![w] = [at |-> "close", sid |-> s, cashier |-> c,
                                             cents |-> cents, expected |-> Expected(s)]]
      BY <1>2 DEF CloseTill
    <2>3. s \in Sessions /\ Expected(s) \in Int
      BY ExpectedType DEF OpenSessions
    <2> QED BY <2>1, <2>2, <2>3 DEF ThreadOK
  <1>3. ASSUME NEW w \in Workers, thread' = [thread EXCEPT ![w] = IdleThread]
        PROVE  ThreadOK'
    BY <1>3 DEF ThreadOK, IdleThread
  <1>4. CASE Crash
    BY <1>4 DEF Crash, ThreadOK, IdleThread
  <1>5. CASE UNCHANGED thread
    BY <1>5 DEF ThreadOK
  <1> QED
    BY <1>1, <1>2, <1>3, <1>4, <1>5
       DEF Next, vars, InsertSession, CloseSession, AttributeTransaction, CommitAttribution

LEMMA TypeLoop == ASSUME TypeOK, [Next]_vars PROVE LoopOK'
  <1> USE DEF TypeOK
  <1>1. ASSUME NEW t \in Txns, AttributeTransaction(t) PROVE LoopOK'
    <2>1. PICK s \in OpenSessions(t.cashier) :
            loop' = [busy |-> TRUE, sid |-> s, txn |-> t, tallies |-> till[s].tallies]
      BY <1>1 DEF AttributeTransaction
    <2>2. s \in Sessions /\ till[s].tallies \in Tallies
      BY DEF OpenSessions, TillOK
    <2> QED BY <2>1, <2>2 DEF LoopOK
  <1>2. CASE loop' = IdleLoop
    BY <1>2, NoTalliesType DEF LoopOK, IdleLoop
  <1>3. CASE UNCHANGED loop
    BY <1>3 DEF LoopOK
  <1> QED
    BY <1>1, <1>2, <1>3
       DEF Next, vars, OpenTill, CloseTill, InsertSession, CloseSession, CommitAttribution, Crash

LEMMA TypeHistory == ASSUME TypeOK, [Next]_vars PROVE HistoryOK'
  <1> USE DEF TypeOK
  <1>1. CASE CommitAttribution
    <2>1. loop.sid \in Sessions /\ loop.txn \in Txns
      BY <1>1 DEF CommitAttribution, LoopOK
    <2>2. Add(booked[loop.sid], loop.txn) \in Tallies
      BY <2>1, AddType DEF HistoryOK
    <2> QED BY <1>1, <2>1, <2>2 DEF CommitAttribution, HistoryOK
  <1>2. CASE UNCHANGED <<stamp, booked, times, raced>>
    BY <1>2 DEF HistoryOK
  <1> QED
    BY <1>1, <1>2
       DEF Next, vars, OpenTill, CloseTill, InsertSession, CloseSession, AttributeTransaction,
           Crash

LEMMA TypeNext == TypeOK /\ [Next]_vars => TypeOK'
  BY TypeTill, TypeThread, TypeLoop, TypeHistory DEF TypeOK

\* Rows, threads and tallies keep their shape.
THEOREM TypeCorrect == Spec => []TypeOK
  BY TypeInit, TypeNext, PTL DEF Spec

-----------------------------------------------------------------------------
(* One open till per cashier: only the insert makes a till OPEN, and it      *)
(* looks at the rows in the same step.                                       *)

LEMMA OneOpenNext == TypeOK /\ OneOpenTill /\ [Next]_vars => OneOpenTill'
  <1> SUFFICES ASSUME TypeOK, OneOpenTill, [Next]_vars PROVE OneOpenTill'
    OBVIOUS
  <1> USE DEF TypeOK
  <1>1. ASSUME NEW w \in Workers, InsertSession(w) PROVE OneOpenTill'
    <2>1. CASE UNCHANGED till
      BY <2>1 DEF OneOpenTill
    <2>2. CASE ~ UNCHANGED till
      <3>1. OpenSessions(thread[w].cashier) = {}
        BY <1>1, <2>2 DEF InsertSession
      <3>2. PICK s \in Sessions :
              till' = [till EXCEPT ![s].status = "OPEN", ![s].cashier = thread[w].cashier,
                                   ![s].float = thread[w].cents]
        BY <1>1, <3>1 DEF InsertSession
      <3>3. /\ till'[s].cashier = thread[w].cashier
            /\ \A r \in Sessions \ {s} : till'[r] = till[r]
        BY <3>2 DEF TillOK
      <3>4. \A r \in Sessions \ {s} :
              till'[r].status = "OPEN" => till'[r].cashier # till'[s].cashier
        BY <3>1, <3>3 DEF OpenSessions
      <3> QED BY <3>3, <3>4 DEF OneOpenTill
    <2> QED BY <2>1, <2>2
  <1>2. ASSUME NEW w \in Workers, CloseSession(w) PROVE OneOpenTill'
    <2>1. \A r \in Sessions : till'[r].cashier = till[r].cashier
                              /\ (till'[r].status = "OPEN" => till[r].status = "OPEN")
      BY <1>2 DEF CloseSession, TillOK
    <2> QED BY <2>1 DEF OneOpenTill
  <1>3. CASE CommitAttribution
    <2>1. \A r \in Sessions : till'[r].cashier = till[r].cashier
                              /\ till'[r].status = till[r].status
      BY <1>3 DEF CommitAttribution, TillOK
    <2> QED BY <2>1 DEF OneOpenTill
  <1>4. CASE UNCHANGED till
    BY <1>4 DEF OneOpenTill
  <1> QED
    BY <1>1, <1>2, <1>3, <1>4
       DEF Next, vars, OpenTill, CloseTill, AttributeTransaction, Crash

\* A cashier never has two open tills.
THEOREM OneOpenTillAlways == Spec => []OneOpenTill
  <1>1. Init => OneOpenTill
    BY DEF Init, OneOpenTill
  <1> QED BY <1>1, OneOpenNext, TypeCorrect, PTL DEF Spec

-----------------------------------------------------------------------------
(* What the loop read stays true until it is used, so the tallies are        *)
(* complete.                                                                 *)

\* A step that leaves alone what the loop read, and the row it read it from.
LEMMA LoopKept ==
  ASSUME TypeOK, LoopCurrent, UNCHANGED loop,
         \A s \in Sessions : till[s].status # "none" =>
           /\ till'[s].status # "none"
           /\ till'[s].cashier = till[s].cashier
           /\ till'[s].tallies = till[s].tallies
  PROVE  LoopCurrent'
  BY DEF TypeOK, LoopOK, LoopCurrent

\* What each step does to the tills that exist.
LEMMA InsertKeeps ==
  ASSUME TypeOK, NEW w \in Workers, InsertSession(w)
  PROVE  \A s \in Sessions : till[s].status # "none" => till'[s] = till[s]
  BY DEF InsertSession, TypeOK, TillOK

LEMMA CloseKeeps ==
  ASSUME TypeOK, NEW w \in Workers, CloseSession(w)
  PROVE  \A s \in Sessions :
           /\ till'[s].cashier = till[s].cashier
           /\ till'[s].float = till[s].float
           /\ till'[s].tallies = till[s].tallies
           /\ till'[s].status \in {till[s].status, "CLOSED"}
  BY DEF CloseSession, TypeOK, TillOK

LEMMA CommitKeeps ==
  ASSUME TypeOK, CommitAttribution
  PROVE  /\ \A s \in Sessions \ {loop.sid} : till'[s] = till[s]
         /\ till'[loop.sid].status = till[loop.sid].status
         /\ till'[loop.sid].cashier = till[loop.sid].cashier
         /\ till'[loop.sid].tallies = Add(loop.tallies, loop.txn)
  BY DEF CommitAttribution, TypeOK, TillOK, LoopOK

LEMMA LoopNext == ASSUME TypeOK, LoopCurrent, [Next]_vars PROVE LoopCurrent'
  <1>1. ASSUME NEW t \in Txns, AttributeTransaction(t) PROVE LoopCurrent'
    <2>1. PICK s \in OpenSessions(t.cashier) :
            loop' = [busy |-> TRUE, sid |-> s, txn |-> t, tallies |-> till[s].tallies]
      BY <1>1 DEF AttributeTransaction
    <2>2. UNCHANGED till
      BY <1>1 DEF AttributeTransaction
    <2> QED BY <2>1, <2>2 DEF LoopCurrent, OpenSessions
  <1>2. CASE loop' = IdleLoop
    BY <1>2 DEF LoopCurrent, IdleLoop
  <1>3. ASSUME NEW w \in Workers, InsertSession(w) PROVE LoopCurrent'
    BY <1>3, InsertKeeps, LoopKept DEF InsertSession
  <1>4. ASSUME NEW w \in Workers, CloseSession(w) PROVE LoopCurrent'
    <2>1. UNCHANGED loop
      BY <1>4 DEF CloseSession
    <2>2. \A s \in Sessions : till[s].status # "none" => till'[s].status # "none"
      BY <1>4, CloseKeeps
    <2> QED BY <1>4, <2>1, <2>2, CloseKeeps, LoopKept
  <1>5. CASE UNCHANGED <<till, loop>>
    BY <1>5, LoopKept
  <1> QED
    BY <1>1, <1>2, <1>3, <1>4, <1>5
       DEF Next, vars, OpenTill, CloseTill, CommitAttribution, Crash

\* The books hold what the rows hold.
LEMMA TalliesNext ==
  ASSUME TypeOK, LoopCurrent, TalliesAreComplete, [Next]_vars
  PROVE  TalliesAreComplete'
  <1>1. CASE CommitAttribution
    <2>1. loop.sid \in Sessions /\ loop.tallies = booked[loop.sid]
      BY <1>1 DEF CommitAttribution, TypeOK, LoopOK, LoopCurrent, TalliesAreComplete
    <2>2. /\ booked'[loop.sid] = Add(booked[loop.sid], loop.txn)
          /\ \A s \in Sessions \ {loop.sid} : booked'[s] = booked[s]
      BY <1>1, <2>1 DEF CommitAttribution, TypeOK, HistoryOK
    <2> QED BY <1>1, <2>1, <2>2, CommitKeeps DEF TalliesAreComplete
  <1>2. ASSUME NEW w \in Workers, InsertSession(w) PROVE TalliesAreComplete'
    <2>1. CASE UNCHANGED till
      BY <1>2, <2>1 DEF InsertSession, TalliesAreComplete
    <2>2. CASE ~ UNCHANGED till
      <3>1. PICK s \in Sessions :
              till' = [till EXCEPT ![s].status = "OPEN", ![s].cashier = thread[w].cashier,
                                   ![s].float = thread[w].cents]
        BY <1>2, <2>2 DEF InsertSession
      <3>2. \A r \in Sessions : till'[r].tallies = till[r].tallies
        BY <3>1 DEF TypeOK, TillOK
      <3> QED BY <1>2, <3>2 DEF InsertSession, TalliesAreComplete
    <2> QED BY <2>1, <2>2
  <1>3. ASSUME NEW w \in Workers, CloseSession(w) PROVE TalliesAreComplete'
    BY <1>3, CloseKeeps DEF CloseSession, TalliesAreComplete
  <1>4. CASE UNCHANGED <<till, booked>>
    BY <1>4 DEF TalliesAreComplete
  <1> QED
    BY <1>1, <1>2, <1>3, <1>4
       DEF Next, vars, OpenTill, CloseTill, AttributeTransaction, Crash

\* No attribution is lost, whatever a close does at the same time.
THEOREM TalliesComplete == Spec => []TalliesAreComplete
  <1>1. Init => LoopCurrent /\ TalliesAreComplete
    BY DEF Init, LoopCurrent, IdleLoop, TalliesAreComplete
  <1>2. TypeOK /\ LoopCurrent /\ TalliesAreComplete /\ [Next]_vars
          => LoopCurrent' /\ TalliesAreComplete'
    BY LoopNext, TalliesNext
  <1> QED BY <1>1, <1>2, TypeCorrect, PTL DEF Spec

-----------------------------------------------------------------------------
(* A thread that is about to close a till still knows what the row says,     *)
(* unless an attribution raced it.                                           *)

\* A thread keeps what it read, over a step that keeps it and the row.
LEMMA ThreadKept ==
  ASSUME TypeOK, NEW w \in Workers, ThreadCurrent(w), thread'[w] = thread[w],
         \A s \in Sessions : till[s].status # "none" =>
           /\ till'[s].status # "none"
           /\ s \notin raced' => s \notin raced /\ Expected(s)' = Expected(s)
  PROVE  ThreadCurrent(w)'
  BY DEF ThreadCurrent

LEMMA ThreadNext ==
  ASSUME TypeOK, \A w \in Workers : ThreadCurrent(w), [Next]_vars, NEW w \in Workers
  PROVE  ThreadCurrent(w)'
  <1> USE DEF TypeOK
  <1>0. ThreadCurrent(w)
    OBVIOUS
  <1>1. CASE UNCHANGED <<till, raced>> /\ (thread'[w] = thread[w] \/ thread'[w].at # "close")
    BY <1>0, <1>1 DEF ThreadCurrent, Expected
  <1>2. ASSUME NEW k \in Workers, NEW c \in Cashiers, NEW cents \in Floats, OpenTill(k, c, cents)
        PROVE  ThreadCurrent(w)'
    <2>1. UNCHANGED <<till, raced>> /\ (thread'[w] = thread[w] \/ thread'[w].at # "close")
      BY <1>2 DEF OpenTill, ThreadOK
    <2> QED BY <1>1, <2>1
  <1>3. ASSUME NEW k \in Workers, NEW c \in Cashiers, NEW cents \in Counts, CloseTill(k, c, cents)
        PROVE  ThreadCurrent(w)'
    <2>0. UNCHANGED <<till, raced>>
      BY <1>3 DEF CloseTill
    <2>1. PICK s \in OpenSessions(c) :
            thread' = [thread EXCEPT ![k] = [at |-> "close", sid |-> s, cashier |-> c,
                                             cents |-> cents, expected |-> Expected(s)]]
      BY <1>3 DEF CloseTill
    <2>2. CASE k = w
      <3>1. thread'[w].sid = s /\ thread'[w].expected = Expected(s)
        BY <2>1, <2>2 DEF ThreadOK
      <3>2. s \in Sessions /\ till'[s].status # "none" /\ Expected(s)' = Expected(s)
        BY <2>0 DEF OpenSessions, Expected
      <3> QED BY <3>1, <3>2 DEF ThreadCurrent
    <2>3. CASE k # w
      <3>1. thread'[w] = thread[w]
        BY <2>1, <2>3 DEF ThreadOK
      <3> QED BY <1>1, <2>0, <3>1
    <2> QED BY <2>2, <2>3
  <1>4. ASSUME NEW k \in Workers, InsertSession(k) PROVE ThreadCurrent(w)'
    <2>1. thread'[w] = thread[w] \/ thread'[w].at # "close"
      BY <1>4 DEF InsertSession, ThreadOK, IdleThread
    <2>2. \A s \in Sessions : till[s].status # "none" =>
            till'[s].status # "none" /\ Expected(s)' = Expected(s)
      BY <1>4, InsertKeeps DEF Expected
    <2>3. UNCHANGED raced
      BY <1>4 DEF InsertSession
    <2> QED BY <1>0, <2>1, <2>2, <2>3, ThreadKept DEF ThreadCurrent
  <1>5. ASSUME NEW k \in Workers, CloseSession(k) PROVE ThreadCurrent(w)'
    <2>1. thread'[w] = thread[w] \/ thread'[w].at # "close"
      BY <1>5 DEF CloseSession, ThreadOK, IdleThread
    <2>2. \A s \in Sessions : till[s].status # "none" =>
            till'[s].status # "none" /\ Expected(s)' = Expected(s)
      BY <1>5, CloseKeeps DEF Expected
    <2>3. UNCHANGED raced
      BY <1>5 DEF CloseSession
    <2> QED BY <1>0, <2>1, <2>2, <2>3, ThreadKept DEF ThreadCurrent
  <1>6. ASSUME NEW t \in Txns, AttributeTransaction(t) PROVE ThreadCurrent(w)'
    <2>1. UNCHANGED <<till, raced, thread>>
      BY <1>6 DEF AttributeTransaction
    <2> QED BY <1>1, <2>1
  <1>7. CASE CommitAttribution
    <2>1. UNCHANGED thread
      BY <1>7 DEF CommitAttribution
    <2>2. CASE thread[w].at # "close"
      BY <2>1, <2>2 DEF ThreadCurrent
    <2>3. CASE thread[w].at = "close" /\ thread[w].sid = loop.sid
      <3>1. loop.sid \in raced'
        BY <1>7, <2>3 DEF CommitAttribution
      <3>2. till'[loop.sid].status = till[loop.sid].status
        BY <1>7, CommitKeeps
      <3> QED BY <1>0, <2>1, <2>3, <3>1, <3>2 DEF ThreadCurrent
    <2>4. CASE thread[w].at = "close" /\ thread[w].sid # loop.sid
      <3>1. till'[thread[w].sid] = till[thread[w].sid] /\ thread[w].sid \in Sessions
        BY <1>0, <1>7, <2>4, CommitKeeps DEF ThreadCurrent
      <3>2. Expected(thread[w].sid)' = till'[thread[w].sid].float
              + till'[thread[w].sid].tallies.sales - till'[thread[w].sid].tallies.refunds
        BY <2>1 DEF Expected
      <3>3. raced \subseteq raced'
        BY <1>7 DEF CommitAttribution
      <3> QED BY <1>0, <2>1, <3>1, <3>2, <3>3 DEF ThreadCurrent, Expected
    <2> QED BY <2>2, <2>3, <2>4
  <1>8. CASE Crash
    BY <1>8 DEF Crash, IdleThread, ThreadCurrent
  <1>9. CASE UNCHANGED vars
    BY <1>1, <1>9 DEF vars
  <1> QED
    BY <1>2, <1>3, <1>4, <1>5, <1>6, <1>7, <1>8, <1>9 DEF Next

-----------------------------------------------------------------------------
(* The close report                                                          *)

ReportAddsUp(s) ==
  till[s].status = "CLOSED" =>
    /\ till[s].variance = till[s].counted - till[s].expected
    /\ s \notin raced => till[s].expected = Expected(s)

LEMMA AddsUpNext ==
  ASSUME TypeOK, LoopCurrent, \A w \in Workers : ThreadCurrent(w), [Next]_vars,
         NEW s \in Sessions, ReportAddsUp(s)
  PROVE  ReportAddsUp(s)'
  <1> USE DEF TypeOK
  <1>1. CASE till'[s] = till[s] /\ UNCHANGED raced
    BY <1>1 DEF ReportAddsUp, Expected
  <1>2. ASSUME NEW w \in Workers, InsertSession(w) PROVE ReportAddsUp(s)'
    <2>1. till'[s] = till[s] \/ till'[s].status = "OPEN"
      <3>1. CASE UNCHANGED till
        BY <3>1
      <3>2. CASE ~ UNCHANGED till
        <4>1. PICK r \in Sessions :
                till' = [till EXCEPT ![r].status = "OPEN", ![r].cashier = thread[w].cashier,
                                     ![r].float = thread[w].cents]
          BY <1>2, <3>2 DEF InsertSession
        <4> QED BY <4>1 DEF TillOK
      <3> QED BY <3>1, <3>2
    <2>2. UNCHANGED raced
      BY <1>2 DEF InsertSession
    <2> QED BY <1>1, <2>1, <2>2 DEF ReportAddsUp
  <1>3. ASSUME NEW w \in Workers, CloseSession(w) PROVE ReportAddsUp(s)'
    <2>0. UNCHANGED raced
      BY <1>3 DEF CloseSession
    <2>1. CASE thread[w].sid = s
      <3>1. /\ till'[s].variance = thread[w].cents - thread[w].expected
            /\ till'[s].counted = thread[w].cents
            /\ till'[s].expected = thread[w].expected
        BY <1>3, <2>1 DEF CloseSession, TillOK
      <3>2. s \notin raced => thread[w].expected = Expected(s)
        BY <1>3, <2>1 DEF CloseSession, ThreadCurrent
      <3>3. Expected(s)' = Expected(s)
        BY <1>3, CloseKeeps DEF Expected
      <3> QED BY <2>0, <3>1, <3>2, <3>3 DEF ReportAddsUp
    <2>2. CASE thread[w].sid # s
      <3>1. till'[s] = till[s]
        BY <1>3, <2>2 DEF CloseSession, TillOK
      <3> QED BY <1>1, <2>0, <3>1
    <2> QED BY <2>1, <2>2
  <1>4. CASE CommitAttribution
    <2>1. CASE loop.sid = s
      <3>1. /\ till'[s].status = till[s].status
            /\ till'[s].variance = till[s].variance
            /\ till'[s].counted = till[s].counted
            /\ till'[s].expected = till[s].expected
        BY <1>4, <2>1 DEF CommitAttribution, TillOK
      <3>2. till[s].status = "CLOSED" => s \in raced'
        BY <1>4, <2>1 DEF CommitAttribution
      <3> QED BY <3>1, <3>2 DEF ReportAddsUp
    <2>2. CASE loop.sid # s
      <3>1. till'[s] = till[s] /\ raced \subseteq raced'
        BY <1>4, <2>2, CommitKeeps DEF CommitAttribution
      <3> QED BY <3>1 DEF ReportAddsUp, Expected
    <2> QED BY <2>1, <2>2
  <1>5. CASE UNCHANGED <<till, raced>>
    BY <1>1, <1>5
  <1> QED
    BY <1>2, <1>3, <1>4, <1>5
       DEF Next, vars, OpenTill, CloseTill, AttributeTransaction, Crash

LEMMA ReportIsParts == CloseReportAddsUp <=> \A s \in Sessions : ReportAddsUp(s)
  BY DEF CloseReportAddsUp, ReportAddsUp

\* A close report adds up: the variance always, the expectation unless an
\* attribution raced a close of that till.
THEOREM CloseReports == Spec => []CloseReportAddsUp
  <1> DEFINE Read == LoopCurrent /\ \A w \in Workers : ThreadCurrent(w)
             AllAddUp == \A s \in Sessions : ReportAddsUp(s)
  <1>1. Init => Read /\ AllAddUp
    BY DEF Init, LoopCurrent, IdleLoop, ThreadCurrent, IdleThread, ReportAddsUp
  <1>2. TypeOK /\ Read /\ AllAddUp /\ [Next]_vars => Read' /\ AllAddUp'
    <2> SUFFICES ASSUME TypeOK, Read, AllAddUp, [Next]_vars PROVE Read' /\ AllAddUp'
      OBVIOUS
    <2>1. LoopCurrent'
      BY LoopNext
    <2>2. \A w \in Workers : ThreadCurrent(w)'
      BY ThreadNext
    <2>3. \A s \in Sessions : ReportAddsUp(s)'
      BY AddsUpNext
    <2> QED BY <2>1, <2>2, <2>3
  <1>3. AllAddUp => CloseReportAddsUp
    BY ReportIsParts
  <1> HIDE DEF Read, AllAddUp
  <1> QED BY <1>1, <1>2, <1>3, TypeCorrect, PTL DEF Spec

-----------------------------------------------------------------------------
(* Stamps                                                                    *)

LEMMA StampNext ==
  ASSUME TypeOK, LoopCurrent, StampNamesOwnTill, [Next]_vars
  PROVE  StampNamesOwnTill'
  <1> USE DEF TypeOK
  <1>1. ASSUME UNCHANGED stamp,
               \A s \in Sessions : till[s].status # "none" =>
                 till'[s].status # "none" /\ till'[s].cashier = till[s].cashier
        PROVE  StampNamesOwnTill'
    BY <1>1 DEF StampNamesOwnTill, HistoryOK
  <1>2. ASSUME NEW w \in Workers, InsertSession(w) PROVE StampNamesOwnTill'
    BY <1>1, <1>2, InsertKeeps DEF InsertSession
  <1>3. ASSUME NEW w \in Workers, CloseSession(w) PROVE StampNamesOwnTill'
    <2>1. \A s \in Sessions : till[s].status # "none" =>
            till'[s].status # "none" /\ till'[s].cashier = till[s].cashier
      BY <1>3, CloseKeeps
    <2> QED BY <1>1, <1>3, <2>1 DEF CloseSession
  <1>4. CASE CommitAttribution
    <2>1. \A s \in Sessions : till'[s].status = till[s].status /\ till'[s].cashier = till[s].cashier
      BY <1>4, CommitKeeps
    <2>2. ASSUME NEW t \in Txns, stamp'[t] # NoSession
          PROVE  till'[stamp'[t]].status # "none" /\ till'[stamp'[t]].cashier = t.cashier
      <3>1. CASE t = loop.txn
        <4>1. stamp'[t] = loop.sid /\ loop.sid \in Sessions
          BY <1>4, <3>1 DEF CommitAttribution, HistoryOK, LoopOK
        <4> QED BY <1>4, <2>1, <3>1, <4>1 DEF CommitAttribution, LoopCurrent
      <3>2. CASE t # loop.txn
        <4>1. stamp'[t] = stamp[t] /\ stamp[t] \in Sessions
          BY <1>4, <2>2, <3>2 DEF CommitAttribution, HistoryOK
        <4> QED BY <2>1, <2>2, <4>1 DEF StampNamesOwnTill
      <3> QED BY <3>1, <3>2
    <2> QED BY <2>2 DEF StampNamesOwnTill
  <1>5. CASE UNCHANGED <<till, stamp>>
    BY <1>1, <1>5
  <1> QED
    BY <1>2, <1>3, <1>4, <1>5
       DEF Next, vars, OpenTill, CloseTill, AttributeTransaction, Crash

\* Every transaction is stamped with a till of its own cashier.
THEOREM StampsNameOwnTill == Spec => []StampNamesOwnTill
  <1>1. Init => LoopCurrent /\ StampNamesOwnTill
    BY DEF Init, LoopCurrent, IdleLoop, StampNamesOwnTill
  <1>2. TypeOK /\ LoopCurrent /\ StampNamesOwnTill /\ [Next]_vars
          => LoopCurrent' /\ StampNamesOwnTill'
    BY LoopNext, StampNext
  <1> QED BY <1>1, <1>2, TypeCorrect, PTL DEF Spec

-----------------------------------------------------------------------------
(* The close report: a step of TillReport is a step of Till or leaves it      *)
(* alone, so that what is proved of Till holds of TillReport.                 *)

LEMMA RenderLeavesTill ==
  ASSUME NEW w \in Workers,
         \/ Refresh(w) \/ OpenFile(w) \/ WriteFile(w) \/ StorePath(w) \/ RenderFails(w)
         \/ \E s \in Sessions : Download(w, s)
  PROVE  UNCHANGED vars
  BY DEF Refresh, OpenFile, WriteFile, StorePath, RenderFails, Download

LEMMA StepIsTillStep == [ReportNext]_allvars => [Next]_vars
  <1>1. ASSUME NEW w \in Workers, CloseAndRender(w) PROVE Next
    BY <1>1 DEF CloseAndRender, Next
  <1>2. CASE TillSteps
    BY <1>2 DEF TillSteps, Next
  <1>3. ASSUME NEW s \in Sessions, FileLost(s) PROVE UNCHANGED vars
    BY <1>3 DEF FileLost
  <1>4. CASE Stop
    BY <1>4 DEF Stop, Next
  <1>5. CASE UNCHANGED allvars
    BY <1>5 DEF allvars
  <1> QED
    BY <1>1, <1>2, <1>3, <1>4, <1>5, RenderLeavesTill DEF ReportNext

\* Rendering reports leaves the tills as they would be without it.
THEOREM ReportsLeaveTillsAlone == ReportSpec => Spec
  <1>1. ReportInit => Init
    BY DEF ReportInit
  <1> QED BY <1>1, StepIsTillStep, PTL DEF ReportSpec, Spec

-----------------------------------------------------------------------------
(* The pens of the threads                                                   *)

LEMMA ReportType == ASSUME TypeOK, NEW s \in Sessions PROVE Report(s) \in Reports
  BY DEF TypeOK, TillOK, Report, Reports

LEMMA NoReportType == NoReport \in Reports
  BY NoTalliesType DEF NoReport, Reports

Pens == [at : {"idle", "refresh", "render", "write", "store"}, sid : Sessions \cup {NoSession},
         report : Reports]

PenOK(w) == pen[w] \in Pens /\ (pen[w].at # "idle" => pen[w].sid \in Sessions)

LEMMA PenParts ==
  ReportTypeOK => pen \in [Workers -> Pens] /\ \A w \in Workers : PenOK(w)
  BY DEF ReportTypeOK, Pens, PenOK

\* A step of one thread leaves the pens of the others.
LEMMA OthersKeep ==
  ASSUME ReportTypeOK, NEW w \in Workers,
         \/ CloseAndRender(w) \/ Refresh(w) \/ OpenFile(w) \/ WriteFile(w) \/ StorePath(w)
         \/ RenderFails(w) \/ \E s \in Sessions : Download(w, s)
  PROVE  \A v \in Workers \ {w} : pen'[v] = pen[v]
  <1>1. pen \in [Workers -> Pens]
    BY PenParts
  <1> QED
    BY <1>1 DEF CloseAndRender, Refresh, OpenFile, WriteFile, StorePath, RenderFails, Download

\* What its own step makes of a thread's pen.
LEMMA CloseMoves ==
  ASSUME ReportTypeOK, NEW w \in Workers, CloseAndRender(w)
  PROVE  pen'[w] = [at |-> "refresh", sid |-> thread[w].sid, report |-> NoReport]
  BY PenParts DEF CloseAndRender, NoPen

LEMMA RefreshMoves ==
  ASSUME ReportTypeOK, NEW w \in Workers, Refresh(w)
  PROVE  pen'[w] = [at |-> "render", sid |-> pen[w].sid, report |-> Report(pen[w].sid)]
  BY PenParts DEF Refresh, Pens

LEMMA DownloadMoves ==
  ASSUME ReportTypeOK, NEW w \in Workers, NEW s \in Sessions, Download(w, s)
  PROVE  pen'[w] = [at |-> "render", sid |-> s, report |-> Report(s)]
  BY PenParts DEF Download

LEMMA OpenMoves ==
  ASSUME ReportTypeOK, NEW w \in Workers, OpenFile(w)
  PROVE  pen'[w] = [at |-> "write", sid |-> pen[w].sid, report |-> pen[w].report]
  BY PenParts DEF OpenFile, Pens

LEMMA WriteMoves ==
  ASSUME ReportTypeOK, NEW w \in Workers, WriteFile(w)
  PROVE  pen'[w] = [at |-> "store", sid |-> pen[w].sid, report |-> pen[w].report]
  BY PenParts DEF WriteFile, Pens

LEMMA EndMoves ==
  ASSUME ReportTypeOK, NEW w \in Workers, StorePath(w) \/ RenderFails(w)
  PROVE  pen'[w] = NoPen
  BY PenParts DEF StorePath, RenderFails

-----------------------------------------------------------------------------
(* Type correctness of the reports                                           *)

LEMMA ReportTypeInit == ReportInit => ReportTypeOK
  BY NoReportType, LossesAssumption DEF ReportInit, ReportTypeOK, NoPen

\* The pens, from what each thread's own step makes of its pen.
LEMMA PensNext ==
  ASSUME ReportTypeOK, TypeOK, ReadsAreCurrent, [ReportNext]_allvars
  PROVE  pen' \in [Workers -> Pens] /\ \A w \in Workers : PenOK(w)'
  <1>1. pen \in [Workers -> Pens] /\ \A w \in Workers : PenOK(w)
    BY PenParts
  <1>2. ASSUME NEW w \in Workers, pen'[w] \in Pens, pen'[w].at # "idle" => pen'[w].sid \in Sessions,
               \A v \in Workers \ {w} : pen'[v] = pen[v],
               \E p : pen' = [pen EXCEPT ![w] = p]
        PROVE  pen' \in [Workers -> Pens] /\ \A v \in Workers : PenOK(v)'
    BY <1>1, <1>2 DEF PenOK
  <1>3. ASSUME NEW w \in Workers, CloseAndRender(w)
        PROVE  pen' \in [Workers -> Pens] /\ \A v \in Workers : PenOK(v)'
    <2>1. thread[w].at = "close" /\ thread[w].sid \in Sessions
      BY <1>3 DEF CloseAndRender, CloseSession, ReadsAreCurrent, ThreadCurrent
    <2>2. pen'[w] = [at |-> "refresh", sid |-> thread[w].sid, report |-> NoReport]
      BY <1>3, CloseMoves
    <2>3. pen'[w] \in Pens /\ pen'[w].sid \in Sessions
      BY <2>1, <2>2, NoReportType DEF Pens
    <2> QED BY <1>2, <1>3, <2>3, OthersKeep DEF CloseAndRender
  <1>4. ASSUME NEW w \in Workers, Refresh(w)
        PROVE  pen' \in [Workers -> Pens] /\ \A v \in Workers : PenOK(v)'
    <2>1. pen[w].sid \in Sessions
      BY <1>1, <1>4 DEF Refresh, PenOK
    <2>2. pen'[w] = [at |-> "render", sid |-> pen[w].sid, report |-> Report(pen[w].sid)]
      BY <1>4, RefreshMoves
    <2>3. pen'[w] \in Pens /\ pen'[w].sid \in Sessions
      BY <2>1, <2>2, ReportType DEF Pens
    <2>4. pen' = [pen EXCEPT ![w] = pen'[w]]
      BY <1>1, <1>4 DEF Refresh
    <2> QED BY <1>2, <1>4, <2>3, <2>4, OthersKeep
  <1>5. ASSUME NEW w \in Workers, NEW s \in Sessions, Download(w, s)
        PROVE  pen' \in [Workers -> Pens] /\ \A v \in Workers : PenOK(v)'
    <2>1. pen'[w] = [at |-> "render", sid |-> s, report |-> Report(s)]
      BY <1>5, DownloadMoves
    <2>2. pen'[w] \in Pens /\ pen'[w].sid \in Sessions
      BY <2>1, ReportType DEF Pens
    <2> QED BY <1>2, <1>5, <2>2, OthersKeep DEF Download
  <1>6. ASSUME NEW w \in Workers, OpenFile(w)
        PROVE  pen' \in [Workers -> Pens] /\ \A v \in Workers : PenOK(v)'
    <2>1. pen[w].sid \in Sessions /\ pen[w].report \in Reports
      BY <1>1, <1>6 DEF OpenFile, PenOK, Pens
    <2>2. pen'[w] = [at |-> "write", sid |-> pen[w].sid, report |-> pen[w].report]
      BY <1>6, OpenMoves
    <2>3. pen'[w] \in Pens /\ pen'[w].sid \in Sessions
      BY <2>1, <2>2 DEF Pens
    <2>4. pen' = [pen EXCEPT ![w] = pen'[w]]
      BY <1>1, <1>6 DEF OpenFile
    <2> QED BY <1>2, <1>6, <2>3, <2>4, OthersKeep
  <1>7. ASSUME NEW w \in Workers, WriteFile(w)
        PROVE  pen' \in [Workers -> Pens] /\ \A v \in Workers : PenOK(v)'
    <2>1. pen[w].sid \in Sessions /\ pen[w].report \in Reports
      BY <1>1, <1>7 DEF WriteFile, PenOK, Pens
    <2>2. pen'[w] = [at |-> "store", sid |-> pen[w].sid, report |-> pen[w].report]
      BY <1>7, WriteMoves
    <2>3. pen'[w] \in Pens /\ pen'[w].sid \in Sessions
      BY <2>1, <2>2 DEF Pens
    <2>4. pen' = [pen EXCEPT ![w] = pen'[w]]
      BY <1>1, <1>7 DEF WriteFile
    <2> QED BY <1>2, <1>7, <2>3, <2>4, OthersKeep
  <1>8. ASSUME NEW w \in Workers, StorePath(w) \/ RenderFails(w)
        PROVE  pen' \in [Workers -> Pens] /\ \A v \in Workers : PenOK(v)'
    <2>1. pen'[w] \in Pens /\ pen'[w].at = "idle"
      BY <1>8, EndMoves, NoReportType DEF NoPen, Pens
    <2> QED BY <1>2, <1>8, <2>1, OthersKeep DEF StorePath, RenderFails
  <1>9. CASE Stop
    <2>1. pen' = [w \in Workers |-> NoPen]
      BY <1>9 DEF Stop
    <2>2. NoPen \in Pens /\ NoPen.at = "idle"
      BY NoReportType DEF NoPen, Pens
    <2> QED BY <2>1, <2>2 DEF PenOK
  <1>10. CASE UNCHANGED pen
    BY <1>1, <1>10 DEF PenOK
  <1> QED
    BY <1>3, <1>4, <1>5, <1>6, <1>7, <1>8, <1>9, <1>10
       DEF ReportNext, allvars, reports, FileLost

LEMMA ReportTypeNext ==
  ASSUME ReportTypeOK, TypeOK, ReadsAreCurrent, [ReportNext]_allvars
  PROVE  ReportTypeOK'
  <1>1. pen' \in [Workers -> Pens] /\ \A w \in Workers : PenOK(w)'
    BY PensNext
  <1>2. \A w \in Workers : pen[w].at # "idle" => pen[w].sid \in Sessions /\ pen[w].report \in Reports
    BY PenParts DEF PenOK, Pens
  <1>3. /\ file' \in [Sessions -> {"none", "partial", "whole"}]
        /\ shows' \in [Sessions -> Reports]
        /\ pdf_path' \subseteq Sessions
    <2>1. CASE UNCHANGED <<file, shows, pdf_path>>
      BY <2>1 DEF ReportTypeOK
    <2>2. ASSUME NEW w \in Workers,
                 OpenFile(w) \/ WriteFile(w) \/ StorePath(w) \/ RenderFails(w)
          PROVE  <1>3!1 /\ <1>3!2 /\ <1>3!3
      BY <1>2, <2>2 DEF ReportTypeOK, OpenFile, WriteFile, StorePath, RenderFails
    <2>3. ASSUME NEW s \in Sessions, FileLost(s) PROVE <1>3!1 /\ <1>3!2 /\ <1>3!3
      BY <2>3 DEF ReportTypeOK, FileLost
    <2> QED
      BY <2>1, <2>2, <2>3 DEF ReportNext, allvars, reports, CloseAndRender, Refresh, Download, Stop
  <1>4. reclosed' \subseteq Sessions
    <2>1. ASSUME NEW w \in Workers, CloseAndRender(w) PROVE reclosed' \subseteq Sessions
      <3>1. thread[w].sid \in Sessions
        BY <2>1 DEF CloseAndRender, CloseSession, ReadsAreCurrent, ThreadCurrent
      <3> QED BY <2>1, <3>1 DEF CloseAndRender, ReportTypeOK
    <2>2. CASE UNCHANGED reclosed
      BY <2>2 DEF ReportTypeOK
    <2> QED
      BY <2>1, <2>2 DEF ReportNext, allvars, reports, Refresh, Download, OpenFile, WriteFile,
                        StorePath, RenderFails, FileLost, Stop
  <1>5. spoiled' \subseteq Sessions
    <2>1. ASSUME NEW w \in Workers, RenderFails(w) PROVE spoiled' \subseteq Sessions
      BY <1>2, <2>1 DEF RenderFails, ReportTypeOK
    <2>2. CASE Stop
      BY <1>2, <2>2 DEF Stop, Spoils, ReportTypeOK
    <2>3. CASE UNCHANGED spoiled
      BY <2>3 DEF ReportTypeOK
    <2> QED
      BY <2>1, <2>2, <2>3 DEF ReportNext, allvars, reports, CloseAndRender, Refresh, Download,
                              OpenFile, WriteFile, StorePath, FileLost
  <1>6. losses' \in 0 .. MaxLosses
    <2>1. ASSUME NEW s \in Sessions, FileLost(s) PROVE losses' \in 0 .. MaxLosses
      BY <2>1, LossesAssumption DEF ReportTypeOK, FileLost
    <2>2. CASE UNCHANGED losses
      BY <2>2 DEF ReportTypeOK
    <2> QED
      BY <2>1, <2>2 DEF ReportNext, allvars, reports, CloseAndRender, Refresh, Download, OpenFile,
                        WriteFile, StorePath, RenderFails, Stop
  <1> QED BY <1>1, <1>3, <1>4, <1>5, <1>6 DEF ReportTypeOK, Pens, PenOK

-----------------------------------------------------------------------------
(* What a step may do to the row of a closed till                            *)

LEMMA ClosedKept ==
  ASSUME TypeOK, [ReportNext]_allvars, NEW s \in Sessions, till[s].status = "CLOSED"
  PROVE  /\ till'[s].status = "CLOSED"
         /\ s \notin raced' \cup reclosed' =>
              s \notin raced \cup reclosed /\ Report(s)' = Report(s)
  <1>1. CASE till'[s] = till[s] /\ raced \subseteq raced' /\ reclosed \subseteq reclosed'
    BY <1>1 DEF Report
  <1>2. CASE CommitAttribution /\ UNCHANGED reports
    <2>1. CASE s = loop.sid
      <3>1. s \in raced'
        BY <1>2, <2>1 DEF CommitAttribution, TypeOK, HistoryOK
      <3> QED BY <1>2, <2>1, <3>1, CommitKeeps
    <2>2. CASE s # loop.sid
      BY <1>1, <1>2, <2>2, CommitKeeps DEF CommitAttribution, reports
    <2> QED BY <2>1, <2>2
  <1>3. ASSUME NEW w \in Workers, InsertSession(w), UNCHANGED reports
        PROVE  till'[s] = till[s] /\ raced \subseteq raced' /\ reclosed \subseteq reclosed'
    BY <1>3, InsertKeeps DEF InsertSession, reports
  <1>4. ASSUME NEW w \in Workers, CloseAndRender(w)
        PROVE  /\ till'[s].status = "CLOSED"
               /\ s \notin raced' \cup reclosed' =>
                    s \notin raced \cup reclosed /\ Report(s)' = Report(s)
    <2>1. CloseSession(w) /\ raced' = raced
      BY <1>4 DEF CloseAndRender, CloseSession
    <2>2. CASE s = thread[w].sid
      <3>1. s \in reclosed'
        BY <1>4, <2>2 DEF CloseAndRender
      <3> QED BY <2>1, <3>1, CloseKeeps
    <2>3. CASE s # thread[w].sid
      <3>1. till'[s] = till[s]
        BY <2>1, <2>3 DEF CloseSession, TypeOK, TillOK
      <3>2. reclosed \subseteq reclosed'
        BY <1>4 DEF CloseAndRender
      <3> QED BY <1>1, <2>1, <3>1, <3>2
    <2> QED BY <2>2, <2>3
  <1>5. CASE UNCHANGED <<till, raced, reclosed>>
    BY <1>1, <1>5
  <1>6. CASE TillSteps /\ UNCHANGED reports
    <2>1. CASE UNCHANGED <<till, raced>>
      BY <1>5, <1>6, <2>1 DEF reports
    <2> QED
      BY <1>1, <1>2, <1>3, <1>6, <2>1 DEF TillSteps, OpenTill, CloseTill, AttributeTransaction
  <1>7. ASSUME NEW w \in Workers,
               \/ Refresh(w) \/ OpenFile(w) \/ WriteFile(w) \/ StorePath(w) \/ RenderFails(w)
               \/ \E r \in Sessions : Download(w, r)
        PROVE  UNCHANGED <<till, raced, reclosed>>
    BY <1>7 DEF Refresh, OpenFile, WriteFile, StorePath, RenderFails, Download, vars
  <1>8. CASE (\E r \in Sessions : FileLost(r)) \/ Stop \/ UNCHANGED allvars
    BY <1>5, <1>8 DEF FileLost, Stop, Crash, allvars, vars, reports
  <1> QED BY <1>4, <1>5, <1>6, <1>7, <1>8 DEF ReportNext

-----------------------------------------------------------------------------
(* One thing at a time, and only closed tills                                *)

LEMMA OneAtATimeNext ==
  ASSUME ReportTypeOK, TypeOK, OneAtATime, [ReportNext]_allvars
  PROVE  OneAtATime'
  <1>1. ASSUME NEW w \in Workers, CloseAndRender(w) PROVE OneAtATime'
    <2>1. thread'[w].at = "idle" /\ \A v \in Workers \ {w} : thread'[v] = thread[v]
      BY <1>1 DEF CloseAndRender, CloseSession, TypeOK, ThreadOK, IdleThread
    <2> QED BY <1>1, <2>1, OthersKeep DEF OneAtATime
  <1>2. ASSUME NEW w \in Workers, UNCHANGED thread,
               \A v \in Workers \ {w} : pen'[v] = pen[v],
               pen[w].at # "idle" \/ pen'[w].at = "idle" \/ thread[w].at = "idle"
        PROVE  OneAtATime'
    BY <1>2 DEF OneAtATime
  <1>3. ASSUME NEW w \in Workers,
               Refresh(w) \/ OpenFile(w) \/ WriteFile(w) \/ StorePath(w) \/ RenderFails(w)
        PROVE  OneAtATime'
    <2>1. UNCHANGED thread /\ pen[w].at # "idle"
      BY <1>3 DEF Refresh, OpenFile, WriteFile, StorePath, RenderFails, vars
    <2> QED BY <1>2, <1>3, <2>1, OthersKeep
  <1>4. ASSUME NEW w \in Workers, NEW s \in Sessions, Download(w, s) PROVE OneAtATime'
    <2>1. UNCHANGED thread /\ thread[w].at = "idle"
      BY <1>4 DEF Download, vars
    <2> QED BY <1>2, <1>4, <2>1, OthersKeep
  <1>5. ASSUME UNCHANGED pen, NEW w \in Workers, \A v \in Workers \ {w} : thread'[v] = thread[v],
               thread'[w].at = "idle" \/ pen[w].at = "idle"
        PROVE  OneAtATime'
    BY <1>5 DEF OneAtATime
  <1>6. CASE TillSteps /\ UNCHANGED reports
    <2>1. UNCHANGED pen
      BY <1>6 DEF reports
    <2>2. ASSUME NEW w \in Workers, NEW c \in Cashiers, NEW cents, pen[w].at = "idle",
                 OpenTill(w, c, cents) \/ CloseTill(w, c, cents)
          PROVE  \A v \in Workers \ {w} : thread'[v] = thread[v]
      BY <2>2 DEF OpenTill, CloseTill, TypeOK, ThreadOK
    <2>3. ASSUME NEW w \in Workers, InsertSession(w)
          PROVE  thread'[w].at = "idle" /\ \A v \in Workers \ {w} : thread'[v] = thread[v]
      BY <2>3 DEF InsertSession, TypeOK, ThreadOK, IdleThread
    <2>4. CASE UNCHANGED thread
      BY <2>1, <2>4 DEF OneAtATime
    <2> QED
      BY <1>5, <1>6, <2>1, <2>2, <2>3, <2>4 DEF TillSteps, AttributeTransaction, CommitAttribution
  <1>7. CASE Stop
    BY <1>7 DEF Stop, Crash, OneAtATime, IdleThread
  <1>8. CASE UNCHANGED <<thread, pen>>
    BY <1>8 DEF OneAtATime
  <1> QED
    BY <1>1, <1>3, <1>4, <1>6, <1>7, <1>8 DEF ReportNext, FileLost, allvars, vars, reports

\* Every report and every rendering is of a closed till.
LEMMA OnlyClosedNext ==
  ASSUME ReportTypeOK, TypeOK, ReadsAreCurrent, OnlyClosed, [ReportNext]_allvars
  PROVE  OnlyClosed'
  <1>1. \A s \in Sessions : till[s].status = "CLOSED" => till'[s].status = "CLOSED"
    BY ClosedKept
  <1>2. \A w \in Workers : pen[w].at # "idle" => pen[w].sid \in Sessions
    BY PenParts DEF PenOK
  <1>3. \A s \in Sessions : file'[s] # "none" => till'[s].status = "CLOSED"
    <2>1. ASSUME NEW w \in Workers, OpenFile(w) \/ WriteFile(w) \/ RenderFails(w), NEW s \in Sessions
          PROVE  file'[s] = file[s] \/ till[s].status = "CLOSED"
      BY <1>2, <2>1 DEF OpenFile, WriteFile, RenderFails, ReportTypeOK, OnlyClosed
    <2>2. ASSUME NEW r \in Sessions, FileLost(r), NEW s \in Sessions
          PROVE  file'[s] = file[s] \/ file'[s] = "none"
      BY <2>2 DEF FileLost, ReportTypeOK
    <2>3. CASE UNCHANGED file
      BY <1>1, <2>3 DEF OnlyClosed
    <2> QED
      BY <1>1, <2>1, <2>2, <2>3
         DEF OnlyClosed, ReportNext, allvars, reports, CloseAndRender, Refresh, Download, StorePath,
             Stop
  <1>4. ASSUME NEW v \in Workers, pen'[v].at # "idle" PROVE till'[pen'[v].sid].status = "CLOSED"
    <2>1. CASE pen'[v].at # "idle" /\ pen[v].at # "idle" /\ pen'[v].sid = pen[v].sid
      BY <1>1, <1>2, <2>1 DEF OnlyClosed
    <2>2. CASE pen'[v] = pen[v]
      BY <1>4, <2>1, <2>2
    <2>3. ASSUME NEW w \in Workers, CloseAndRender(w) PROVE till'[pen'[v].sid].status = "CLOSED"
      <3>1. CASE v = w
        <4>1. pen'[v] = [at |-> "refresh", sid |-> thread[w].sid, report |-> NoReport]
          BY <2>3, <3>1, CloseMoves
        <4>2. pen'[v].sid = thread[w].sid /\ thread[w].sid \in Sessions
          BY <2>3, <4>1 DEF CloseAndRender, CloseSession, ReadsAreCurrent, ThreadCurrent
        <4> QED BY <2>3, <4>2 DEF CloseAndRender, CloseSession, TypeOK, TillOK
      <3> QED BY <2>2, <2>3, <3>1, OthersKeep
    <2>4. ASSUME NEW w \in Workers, Refresh(w) \/ OpenFile(w) \/ WriteFile(w)
          PROVE  till'[pen'[v].sid].status = "CLOSED"
      <3>1. CASE v = w
        <4>1. pen'[v].sid = pen[v].sid
          <5>1. CASE Refresh(w)
            <6>1. pen'[v] = [at |-> "render", sid |-> pen[v].sid, report |-> Report(pen[v].sid)]
              BY <3>1, <5>1, RefreshMoves
            <6> QED BY <6>1
          <5>2. CASE OpenFile(w)
            <6>1. pen'[v] = [at |-> "write", sid |-> pen[v].sid, report |-> pen[v].report]
              BY <3>1, <5>2, OpenMoves
            <6> QED BY <6>1
          <5>3. CASE WriteFile(w)
            <6>1. pen'[v] = [at |-> "store", sid |-> pen[v].sid, report |-> pen[v].report]
              BY <3>1, <5>3, WriteMoves
            <6> QED BY <6>1
          <5> QED BY <2>4, <5>1, <5>2, <5>3
        <4>2. pen[v].at # "idle"
          BY <2>4, <3>1 DEF Refresh, OpenFile, WriteFile
        <4> QED BY <1>4, <2>1, <4>1, <4>2
      <3> QED BY <2>2, <2>4, <3>1, OthersKeep
    <2>5. ASSUME NEW w \in Workers, StorePath(w) \/ RenderFails(w)
          PROVE  till'[pen'[v].sid].status = "CLOSED"
      <3>1. CASE v = w
        BY <1>4, <2>5, <3>1, EndMoves DEF NoPen
      <3> QED BY <2>2, <2>5, <3>1, OthersKeep
    <2>6. ASSUME NEW w \in Workers, NEW s \in Sessions, Download(w, s)
          PROVE  till'[pen'[v].sid].status = "CLOSED"
      <3>1. CASE v = w
        <4>1. pen'[v] = [at |-> "render", sid |-> s, report |-> Report(s)]
          BY <2>6, <3>1, DownloadMoves
        <4>2. till[s].status = "CLOSED"
          BY <2>6 DEF Download
        <4> QED BY <1>1, <4>1, <4>2
      <3> QED BY <2>2, <2>6, <3>1, OthersKeep
    <2>7. CASE Stop
      BY <1>4, <2>7 DEF Stop, NoPen
    <2>8. CASE UNCHANGED pen
      BY <2>2, <2>8
    <2> QED
      BY <2>3, <2>4, <2>5, <2>6, <2>7, <2>8 DEF ReportNext, FileLost, allvars, reports
  <1> QED BY <1>3, <1>4 DEF OnlyClosed

-----------------------------------------------------------------------------
(* What a thread is about to write is what the row says                      *)

LEMMA PensCurrentNext ==
  ASSUME ReportTypeOK, TypeOK, OnlyClosed, PensCurrent, [ReportNext]_allvars
  PROVE  PensCurrent'
  <1> SUFFICES ASSUME NEW v \in Workers, NEW s \in Sessions,
                      pen'[v].at \in {"render", "write"}, pen'[v].sid = s,
                      s \notin raced' \cup reclosed'
               PROVE  pen'[v].report = Report(s)'
    BY DEF PensCurrent, PenCurrent
  <1>1. ASSUME pen[v].at \in {"render", "write"}, pen'[v].sid = pen[v].sid,
               pen'[v].report = pen[v].report
        PROVE  pen'[v].report = Report(s)'
    <2>1. till[s].status = "CLOSED"
      BY <1>1 DEF OnlyClosed
    <2>2. s \notin raced \cup reclosed /\ Report(s)' = Report(s)
      BY <2>1, ClosedKept
    <2>3. pen[v].report = Report(s)
      BY <1>1, <2>2 DEF PensCurrent, PenCurrent
    <2> QED BY <1>1, <2>2, <2>3
  <1>2. CASE pen'[v] = pen[v]
    BY <1>1, <1>2
  <1>3. ASSUME NEW w \in Workers, CloseAndRender(w) PROVE pen'[v].report = Report(s)'
    <2>1. CASE v = w
      <3>1. pen'[v] = [at |-> "refresh", sid |-> thread[w].sid, report |-> NoReport]
        BY <1>3, <2>1, CloseMoves
      <3> QED BY <3>1
    <2> QED BY <1>2, <1>3, <2>1, OthersKeep
  <1>4. ASSUME UNCHANGED vars PROVE Report(s)' = Report(s)
    BY <1>4 DEF vars, Report
  <1>5. ASSUME NEW w \in Workers, Refresh(w) PROVE pen'[v].report = Report(s)'
    <2>1. CASE v = w
      <3>1. pen'[v] = [at |-> "render", sid |-> pen[v].sid, report |-> Report(pen[v].sid)]
        BY <1>5, <2>1, RefreshMoves
      <3>2. pen'[v].report = Report(s)
        BY <3>1
      <3> QED BY <1>4, <1>5, <3>2 DEF Refresh
    <2> QED BY <1>2, <1>5, <2>1, OthersKeep
  <1>6. ASSUME NEW w \in Workers, NEW r \in Sessions, Download(w, r)
        PROVE  pen'[v].report = Report(s)'
    <2>1. CASE v = w
      <3>1. pen'[v] = [at |-> "render", sid |-> r, report |-> Report(r)]
        BY <1>6, <2>1, DownloadMoves
      <3>2. pen'[v].report = Report(s)
        BY <3>1
      <3> QED BY <1>4, <1>6, <3>2 DEF Download
    <2> QED BY <1>2, <1>6, <2>1, OthersKeep
  <1>7. ASSUME NEW w \in Workers, OpenFile(w) PROVE pen'[v].report = Report(s)'
    <2>1. CASE v = w
      <3>1. pen'[v] = [at |-> "write", sid |-> pen[v].sid, report |-> pen[v].report]
        BY <1>7, <2>1, OpenMoves
      <3>2. pen[v].at = "render"
        BY <1>7, <2>1 DEF OpenFile
      <3> QED BY <1>1, <3>1, <3>2
    <2> QED BY <1>2, <1>7, <2>1, OthersKeep
  <1>8. ASSUME NEW w \in Workers, WriteFile(w) PROVE pen'[v].report = Report(s)'
    <2>1. CASE v = w
      <3>1. pen'[v] = [at |-> "store", sid |-> pen[v].sid, report |-> pen[v].report]
        BY <1>8, <2>1, WriteMoves
      <3> QED BY <3>1
    <2> QED BY <1>2, <1>8, <2>1, OthersKeep
  <1>9. ASSUME NEW w \in Workers, StorePath(w) \/ RenderFails(w) PROVE pen'[v].report = Report(s)'
    <2>1. CASE v = w
      <3>1. pen'[v].at = "idle"
        BY <1>9, <2>1, EndMoves DEF NoPen
      <3> QED BY <3>1
    <2> QED BY <1>2, <1>9, <2>1, OthersKeep
  <1>10. CASE Stop
    BY <1>10 DEF Stop, NoPen
  <1>11. CASE UNCHANGED pen
    BY <1>2, <1>11
  <1> QED
    BY <1>3, <1>5, <1>6, <1>7, <1>8, <1>9, <1>10, <1>11 DEF ReportNext, FileLost, allvars, reports

-----------------------------------------------------------------------------
(* What a report says                                                        *)

LEMMA ReportIsCurrentNext ==
  ASSUME ReportTypeOK, TypeOK, OnlyClosed, PensCurrent, ReportIsCurrent, [ReportNext]_allvars
  PROVE  ReportIsCurrent'
  <1> SUFFICES ASSUME NEW s \in Sessions, s \notin raced' \cup reclosed', file'[s] = "whole"
               PROVE  shows'[s] = Report(s)'
    BY DEF ReportIsCurrent
  <1>1. ASSUME file[s] = "whole", shows'[s] = shows[s] PROVE shows'[s] = Report(s)'
    <2>1. till[s].status = "CLOSED"
      BY <1>1 DEF OnlyClosed
    <2>2. s \notin raced \cup reclosed /\ Report(s)' = Report(s)
      BY <2>1, ClosedKept
    <2> QED BY <1>1, <2>2 DEF ReportIsCurrent
  <1>2. ASSUME NEW w \in Workers, WriteFile(w) PROVE shows'[s] = Report(s)'
    <2>1. CASE s = pen[w].sid
      <3>1. shows'[s] = pen[w].report
        BY <1>2, <2>1 DEF WriteFile, ReportTypeOK
      <3>2. s \notin raced \cup reclosed /\ Report(s)' = Report(s)
        BY <1>2 DEF WriteFile, vars, Report
      <3>3. pen[w].report = Report(s)
        BY <1>2, <2>1, <3>2 DEF WriteFile, PensCurrent, PenCurrent
      <3> QED BY <3>1, <3>2, <3>3
    <2>2. CASE s # pen[w].sid
      <3>1. file'[s] = file[s] /\ shows'[s] = shows[s]
        BY <1>2, <2>2 DEF WriteFile, ReportTypeOK
      <3> QED BY <1>1, <3>1
    <2> QED BY <2>1, <2>2
  <1>3. ASSUME NEW w \in Workers, OpenFile(w) \/ RenderFails(w) PROVE shows'[s] = Report(s)'
    <2>1. file[s] = "whole" /\ shows'[s] = shows[s]
      BY <1>3 DEF OpenFile, RenderFails, ReportTypeOK
    <2> QED BY <1>1, <2>1
  <1>4. ASSUME NEW r \in Sessions, FileLost(r) PROVE shows'[s] = Report(s)'
    <2>1. file[s] = "whole" /\ shows'[s] = shows[s]
      BY <1>4 DEF FileLost, ReportTypeOK
    <2> QED BY <1>1, <2>1
  <1>5. CASE UNCHANGED <<file, shows>>
    BY <1>1, <1>5
  <1> QED
    BY <1>2, <1>3, <1>4, <1>5
       DEF ReportNext, CloseAndRender, Refresh, Download, StorePath, Stop, allvars, reports

\* The books of a rendering: a report written to the end is cut short only by a
\* rendering that is still at it, or that is known to have failed.
LEMMA RenderedWholeNext ==
  ASSUME ReportTypeOK, TypeOK, OneAtATime, RenderedWhole, [ReportNext]_allvars
  PROVE  RenderedWhole'
  <1> DEFINE Writes(w, s) == pen[w].at = "write" /\ pen[w].sid = s
             Stores(w, s) == pen[w].at = "store" /\ pen[w].sid = s
  <1> SUFFICES ASSUME NEW s \in Sessions, Rendered(s)', file'[s] = "partial", s \notin spoiled'
               PROVE  \E v \in Workers : Writes(v, s)'
    BY DEF RenderedWhole
  <1>1. spoiled \subseteq spoiled'
    BY DEF ReportNext, CloseAndRender, Refresh, Download, OpenFile, WriteFile, StorePath,
           RenderFails, FileLost, Stop, allvars, reports
  <1>2. ASSUME Rendered(s), file[s] = "partial" PROVE \E v \in Workers : Writes(v, s)
    BY <1>1, <1>2 DEF RenderedWhole
  <1>3. s \in pdf_path' \/ \E v \in Workers : Stores(v, s)'
    BY DEF Rendered
  <1>4. ASSUME NEW w \in Workers, \A v \in Workers \ {w} : pen'[v] = pen[v],
               Writes(w, s) => Writes(w, s)', Stores(w, s)' => Stores(w, s),
               pdf_path' = pdf_path, file[s] = "partial"
        PROVE  \E v \in Workers : Writes(v, s)'
    <2>1. Rendered(s)
      BY <1>3, <1>4 DEF Rendered
    <2>2. PICK v \in Workers : Writes(v, s)
      BY <1>2, <1>4, <2>1
    <2> QED BY <1>4, <2>2
  <1>5. ASSUME NEW w \in Workers, CloseAndRender(w) PROVE \E v \in Workers : Writes(v, s)'
    <2>1. pen[w].at = "idle"
      BY <1>5 DEF CloseAndRender, CloseSession, OneAtATime
    <2>2. pen'[w] = [at |-> "refresh", sid |-> thread[w].sid, report |-> NoReport]
      BY <1>5, CloseMoves
    <2>3. pdf_path' = pdf_path /\ file' = file
      BY <1>5 DEF CloseAndRender
    <2> QED BY <1>4, <1>5, <2>1, <2>2, <2>3, OthersKeep
  <1>6. ASSUME NEW w \in Workers, Refresh(w) PROVE \E v \in Workers : Writes(v, s)'
    <2>1. pen'[w] = [at |-> "render", sid |-> pen[w].sid, report |-> Report(pen[w].sid)]
      BY <1>6, RefreshMoves
    <2>2. pdf_path' = pdf_path /\ file' = file /\ pen[w].at = "refresh"
      BY <1>6 DEF Refresh
    <2> QED BY <1>4, <1>6, <2>1, <2>2, OthersKeep
  <1>7. ASSUME NEW w \in Workers, NEW r \in Sessions, Download(w, r)
        PROVE  \E v \in Workers : Writes(v, s)'
    <2>1. pen'[w] = [at |-> "render", sid |-> r, report |-> Report(r)]
      BY <1>7, DownloadMoves
    <2>2. pdf_path' = pdf_path /\ file' = file /\ pen[w].at = "idle"
      BY <1>7 DEF Download
    <2> QED BY <1>4, <1>7, <2>1, <2>2, OthersKeep
  <1>8. ASSUME NEW w \in Workers, OpenFile(w) PROVE \E v \in Workers : Writes(v, s)'
    <2>1. pen'[w] = [at |-> "write", sid |-> pen[w].sid, report |-> pen[w].report]
      BY <1>8, OpenMoves
    <2>2. CASE s = pen[w].sid
      BY <2>1, <2>2
    <2>3. CASE s # pen[w].sid
      <3>1. pdf_path' = pdf_path /\ file'[s] = file[s]
        BY <1>8, <2>3 DEF OpenFile, ReportTypeOK
      <3> QED BY <1>4, <1>8, <2>1, <2>3, <3>1, OthersKeep
    <2> QED BY <2>2, <2>3
  <1>9. ASSUME NEW w \in Workers, WriteFile(w) PROVE \E v \in Workers : Writes(v, s)'
    <2>1. pen'[w] = [at |-> "store", sid |-> pen[w].sid, report |-> pen[w].report]
      BY <1>9, WriteMoves
    <2>2. s # pen[w].sid /\ file'[s] = file[s] /\ pdf_path' = pdf_path
      BY <1>9 DEF WriteFile, ReportTypeOK
    <2> QED BY <1>4, <1>9, <2>1, <2>2, OthersKeep
  <1>10. ASSUME NEW w \in Workers, StorePath(w) PROVE \E v \in Workers : Writes(v, s)'
    <2>1. pen'[w] = NoPen
      BY <1>10, EndMoves
    <2>2. pen[w].at = "store" /\ pdf_path' = pdf_path \cup {pen[w].sid} /\ file' = file
      BY <1>10 DEF StorePath
    <2>3. \A v \in Workers \ {w} : pen'[v] = pen[v]
      BY <1>10, OthersKeep
    <2>4. Rendered(s)
      BY <1>3, <2>1, <2>2, <2>3 DEF Rendered, NoPen
    <2>5. PICK v \in Workers : Writes(v, s)
      BY <1>2, <2>2, <2>4
    <2> QED BY <2>2, <2>3, <2>5
  <1>11. ASSUME NEW w \in Workers, RenderFails(w) PROVE \E v \in Workers : Writes(v, s)'
    <2>1. pen'[w] = NoPen
      BY <1>11, EndMoves
    <2>2. pen[w].at \in {"render", "write"} /\ pdf_path' = pdf_path
      BY <1>11 DEF RenderFails
    <2>3. \A v \in Workers \ {w} : pen'[v] = pen[v]
      BY <1>11, OthersKeep
    <2>4. Rendered(s)
      BY <1>3, <2>1, <2>2, <2>3 DEF Rendered, NoPen
    <2>5. ~ Writes(w, s)
      BY <1>11, <2>4 DEF RenderFails, Spoils
    <2>6. file[s] = "partial"
      <3>1. file' = file \/ (pen[w].at = "write" /\ file' = [file EXCEPT ![pen[w].sid] = "partial"])
        BY <1>11 DEF RenderFails
      <3> QED BY <2>5, <3>1 DEF ReportTypeOK
    <2> QED BY <1>4, <2>1, <2>2, <2>3, <2>5, <2>6 DEF NoPen
  <1>12. ASSUME NEW r \in Sessions, FileLost(r) PROVE \E v \in Workers : Writes(v, s)'
    <2>1. file[s] = "partial" /\ UNCHANGED <<pen, pdf_path>>
      BY <1>12 DEF FileLost, ReportTypeOK
    <2> QED BY <1>2, <2>1 DEF Rendered
  <1>13. CASE Stop
    <2>1. pdf_path' = pdf_path /\ file' = file /\ pen' = [w \in Workers |-> NoPen]
      BY <1>13 DEF Stop
    <2>2. s \in pdf_path
      BY <1>3, <2>1 DEF NoPen
    <2>3. PICK v \in Workers : Writes(v, s)
      BY <1>2, <2>1, <2>2 DEF Rendered
    <2>4. Spoils(v)
      BY <2>2, <2>3 DEF Spoils, Rendered
    <2>5. s \in spoiled'
      BY <1>13, <2>3, <2>4 DEF Stop
    <2> QED BY <2>5
  <1>14. CASE UNCHANGED reports
    BY <1>2, <1>14 DEF reports, Rendered
  <1> QED
    BY <1>5, <1>6, <1>7, <1>8, <1>9, <1>10, <1>11, <1>12, <1>13, <1>14 DEF ReportNext, allvars

-----------------------------------------------------------------------------
(* The theorems                                                              *)

\* What holds of a thread's and the loop's reads in Till holds in TillReport.
LEMMA ReadsStayCurrent == Spec => []ReadsAreCurrent
  <1>1. Init => ReadsAreCurrent
    BY DEF Init, ReadsAreCurrent, LoopCurrent, IdleLoop, ThreadCurrent, IdleThread
  <1>2. TypeOK /\ ReadsAreCurrent /\ [Next]_vars => ReadsAreCurrent'
    BY LoopNext, ThreadNext DEF ReadsAreCurrent
  <1> QED BY <1>1, <1>2, TypeCorrect, PTL DEF Spec

LEMMA ReportInvInit == ReportInit => ReportInv
  <1>1. ReportInit => ReportTypeOK
    BY ReportTypeInit
  <1>2. ReportInit => OneAtATime /\ OnlyClosed /\ PensCurrent /\ RenderedWhole /\ ReportIsCurrent
    BY DEF ReportInit, NoPen, OneAtATime, OnlyClosed, PensCurrent, PenCurrent, RenderedWhole,
           Rendered, ReportIsCurrent
  <1> QED BY <1>1, <1>2 DEF ReportInv

LEMMA ReportInvNext == TypeOK /\ ReadsAreCurrent /\ ReportInv /\ [ReportNext]_allvars => ReportInv'
  BY ReportTypeNext, OneAtATimeNext, OnlyClosedNext, PensCurrentNext, RenderedWholeNext,
     ReportIsCurrentNext
     DEF ReportInv

LEMMA ReportInvAlways == ReportSpec => []ReportInv
  <1>1. ReportSpec => [](TypeOK /\ ReadsAreCurrent)
    BY ReportsLeaveTillsAlone, TypeCorrect, ReadsStayCurrent, PTL
  <1> QED BY <1>1, ReportInvInit, ReportInvNext, PTL DEF ReportSpec

\* A report says what its till's row says, unless an attribution raced the close
\* or a second close came after it.
THEOREM ReportsAreCurrent == ReportSpec => []ReportIsCurrent
  <1>1. ReportInv => ReportIsCurrent
    BY DEF ReportInv
  <1> QED BY <1>1, ReportInvAlways, PTL

\* A row never names a half-written report, except while a rendering has the file
\* open or after one failed over a report that was whole.
THEOREM ReportsAreWhole == ReportSpec => []ReportIsWhole
  <1>1. ReportInv => ReportIsWhole
    BY DEF ReportInv, RenderedWhole, Rendered, ReportIsWhole, ReportTypeOK
  <1> QED BY <1>1, ReportInvAlways, PTL
=============================================================================
