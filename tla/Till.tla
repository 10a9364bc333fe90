------------------------------- MODULE Till -------------------------------
(***************************************************************************)
(* Till sessions (pos_service/services/till.py and the till routes).       *)
(*                                                                         *)
(* Opening and closing a till are plain "def" routes: they run in the      *)
(* server's thread pool and may interleave anywhere between their query    *)
(* and their commit.  Attribution runs on the event loop, one at a time,   *)
(* but the pool's threads run beside it.  Each of the three is therefore a *)
(* read and a write.  A commit writes the columns that were assigned, from *)
(* the values read before, whatever the row holds by then.                 *)
(*                                                                         *)
(* The database lets one OPEN row per cashier in (the partial unique index *)
(* of migration 0004).  Money is in cents; a refund row has a negative     *)
(* total (start_refund negates it).                                        *)
(***************************************************************************)
EXTENDS Integers

CONSTANTS
  Cashiers,
  Txns,       \* sales and refunds that complete: records, see TxnsAssumption
  Sessions,   \* ids of till_sessions rows; a bound on how many tills are opened
  NoSession,  \* till_session_id NULL
  Floats,     \* opening counts, in cents
  Counts,     \* closing counts, in cents
  Workers,    \* threads of the pool
  MaxTimes    \* bound: how often one transaction is attributed (Checkout.tla
              \* shows that two jobs can complete one card sale)

ASSUME TxnsAssumption ==
  /\ \A t \in Txns :
       /\ t.cashier \in Cashiers
       /\ t.method \in {"cash", "card"}
       /\ t.refund \in BOOLEAN
       /\ t.cents \in Int
       /\ t.refund <=> t.cents < 0
ASSUME SessionsAssumption == NoSession \notin Sessions
ASSUME CentsAssumption == Floats \subseteq Nat /\ Counts \subseteq Nat
ASSUME TimesAssumption == MaxTimes \in Nat

VARIABLES
  till,     \* the till_sessions rows
  stamp,    \* till_session_id of each transaction
  thread,   \* what each pool thread has read and will commit
  loop,     \* what attribute_transaction has read and will commit
  booked,   \* history: the attributions committed to each till, added up
  times,    \* history: attributions of each transaction
  raced     \* history: tills that got an attribution while a close of them was
            \* under way or done

vars == <<till, stamp, thread, loop, booked, times, raced>>

NoTallies == [sales |-> 0, refunds |-> 0, txns |-> 0, cashTxns |-> 0]

IdleThread == [at |-> "idle", sid |-> NoSession, cashier |-> "none", cents |-> 0, expected |-> 0]
IdleLoop == [busy |-> FALSE, sid |-> NoSession, txn |-> NoSession, tallies |-> NoTallies]

Init ==
  /\ till = [s \in Sessions |-> [status |-> "none", cashier |-> "none", float |-> 0,
                                 tallies |-> NoTallies, counted |-> 0, expected |-> 0,
                                 variance |-> 0]]
  /\ stamp = [t \in Txns |-> NoSession]
  /\ thread = [w \in Workers |-> IdleThread]
  /\ loop = IdleLoop
  /\ booked = [s \in Sessions |-> NoTallies]
  /\ times = [t \in Txns |-> 0]
  /\ raced = {}

\* get_open_session: the index leaves at most one.
OpenSessions(c) == {s \in Sessions : till[s].status = "OPEN" /\ till[s].cashier = c}

\* The float and the cash movements a till's row shows.
Expected(s) == till[s].float + till[s].tallies.sales - till[s].tallies.refunds

-----------------------------------------------------------------------------
(* open_session: refused with 409 when the query finds an open till.         *)

OpenTill(w, c, cents) ==
  /\ thread[w].at = "idle"
  /\ OpenSessions(c) = {}
  /\ thread' = [thread EXCEPT ![w] = [at |-> "insert", sid |-> NoSession, cashier |-> c,
                                      cents |-> cents, expected |-> 0]]
  /\ UNCHANGED <<till, stamp, loop, booked, times, raced>>

\* Mutant of InsertSession: no partial unique index.
InsertUnindexed(w) ==
  /\ thread[w].at = "insert"
  /\ \E s \in Sessions :
       /\ till[s].status = "none"
       /\ till' = [till EXCEPT ![s].status = "OPEN", ![s].cashier = thread[w].cashier,
                               ![s].float = thread[w].cents]
  /\ thread' = [thread EXCEPT ![w] = IdleThread]
  /\ UNCHANGED <<stamp, loop, booked, times, raced>>

\* The insert; the index refuses a second open till, and the request fails.
InsertSession(w) ==
  /\ thread[w].at = "insert"
  /\ IF OpenSessions(thread[w].cashier) = {}
       THEN \E s \in Sessions :
              /\ till[s].status = "none"
              /\ till' = [till EXCEPT ![s].status = "OPEN", ![s].cashier = thread[w].cashier,
                                      ![s].float = thread[w].cents]
       ELSE UNCHANGED till
  /\ thread' = [thread EXCEPT ![w] = IdleThread]
  /\ UNCHANGED <<stamp, loop, booked, times, raced>>

(* close_session: expected is computed from the row as it was read.          *)

\* Mutant of CloseTill: refunds are added to what is expected.
CloseTillAddsRefunds(w, c, cents) ==
  /\ thread[w].at = "idle"
  /\ \E s \in OpenSessions(c) :
       thread' = [thread EXCEPT ![w] = [at |-> "close", sid |-> s, cashier |-> c, cents |-> cents,
         expected |-> till[s].float + till[s].tallies.sales + till[s].tallies.refunds]]
  /\ UNCHANGED <<till, stamp, loop, booked, times, raced>>

CloseTill(w, c, cents) ==
  /\ thread[w].at = "idle"
  /\ \E s \in OpenSessions(c) :
       thread' = [thread EXCEPT ![w] = [at |-> "close", sid |-> s, cashier |-> c,
                                        cents |-> cents, expected |-> Expected(s)]]
  /\ UNCHANGED <<till, stamp, loop, booked, times, raced>>

\* Mutant of CloseSession: the close also clears the running tallies.
CloseClearsTallies(w) ==
  /\ thread[w].at = "close"
  /\ till' = [till EXCEPT ![thread[w].sid].status = "CLOSED",
                          ![thread[w].sid].tallies = NoTallies,
                          ![thread[w].sid].counted = thread[w].cents,
                          ![thread[w].sid].expected = thread[w].expected,
                          ![thread[w].sid].variance = thread[w].cents - thread[w].expected]
  /\ thread' = [thread EXCEPT ![w] = IdleThread]
  /\ UNCHANGED <<stamp, loop, booked, times, raced>>

CloseSession(w) ==
  /\ thread[w].at = "close"
  /\ till' = [till EXCEPT ![thread[w].sid].status = "CLOSED",
                          ![thread[w].sid].counted = thread[w].cents,
                          ![thread[w].sid].expected = thread[w].expected,
                          ![thread[w].sid].variance = thread[w].cents - thread[w].expected]
  /\ thread' = [thread EXCEPT ![w] = IdleThread]
  /\ UNCHANGED <<stamp, loop, booked, times, raced>>

-----------------------------------------------------------------------------
(* attribute_transaction and the commit of its caller.  With no open till it *)
(* logs an error and changes nothing.                                        *)

\* What t adds to a till's tallies.  A cash refund adds its total as the row
\* has it, so a negative number.
Add(tallies, t) ==
  [sales    |-> tallies.sales + (IF t.method = "cash" /\ ~ t.refund THEN t.cents ELSE 0),
   refunds  |-> tallies.refunds + (IF t.method = "cash" /\ t.refund THEN t.cents ELSE 0),
   txns     |-> tallies.txns + 1,
   cashTxns |-> tallies.cashTxns + (IF t.method = "cash" THEN 1 ELSE 0)]

AttributeTransaction(t) ==
  /\ ~ loop.busy
  /\ times[t] < MaxTimes
  /\ \E s \in OpenSessions(t.cashier) :
       loop' = [busy |-> TRUE, sid |-> s, txn |-> t, tallies |-> till[s].tallies]
  /\ UNCHANGED <<till, stamp, thread, booked, times, raced>>

CommitAttribution ==
  /\ loop.busy
  /\ till' = [till EXCEPT ![loop.sid].tallies = Add(loop.tallies, loop.txn)]
  /\ stamp' = [stamp EXCEPT ![loop.txn] = loop.sid]
  /\ booked' = [booked EXCEPT ![loop.sid] = Add(@, loop.txn)]
  /\ times' = [times EXCEPT ![loop.txn] = @ + 1]
  /\ raced' = IF \/ till[loop.sid].status = "CLOSED"
                 \/ \E w \in Workers : thread[w].at = "close" /\ thread[w].sid = loop.sid
                THEN raced \cup {loop.sid} ELSE raced
  /\ loop' = IdleLoop
  /\ UNCHANGED thread

\* The process stops; what was not committed is lost.
Crash ==
  /\ thread' = [w \in Workers |-> IdleThread]
  /\ loop' = IdleLoop
  /\ UNCHANGED <<till, stamp, booked, times, raced>>

Next ==
  \/ \E w \in Workers, c \in Cashiers :
       \/ \E cents \in Floats : OpenTill(w, c, cents)
       \/ \E cents \in Counts : CloseTill(w, c, cents)
  \/ \E w \in Workers : InsertSession(w) \/ CloseSession(w)
  \/ \E t \in Txns : AttributeTransaction(t)
  \/ CommitAttribution
  \/ Crash

Spec == Init /\ [][Next]_vars

-----------------------------------------------------------------------------
(* Properties                                                                *)

Tallies == [sales : Int, refunds : Int, txns : Nat, cashTxns : Nat]

TillOK ==
  till \in [Sessions -> [status : {"none", "OPEN", "CLOSED"}, cashier : Cashiers \cup {"none"},
                         float : Nat, tallies : Tallies, counted : Nat, expected : Int,
                         variance : Int]]

ThreadOK ==
  thread \in [Workers -> [at : {"idle", "insert", "close"}, sid : Sessions \cup {NoSession},
                          cashier : Cashiers \cup {"none"}, cents : Nat, expected : Int]]

LoopOK ==
  /\ loop \in [busy : BOOLEAN, sid : Sessions \cup {NoSession}, txn : Txns \cup {NoSession},
               tallies : Tallies]
  /\ loop.busy => loop.sid \in Sessions /\ loop.txn \in Txns

HistoryOK ==
  /\ stamp \in [Txns -> Sessions \cup {NoSession}]
  /\ booked \in [Sessions -> Tallies]
  /\ times \in [Txns -> Nat]
  /\ raced \subseteq Sessions

TypeOK == TillOK /\ ThreadOK /\ LoopOK /\ HistoryOK

\* A cashier has at most one open till, however two requests to open one overlap:
\* both may see none and go on, and the index refuses the second.
OneOpenTill ==
  \A s, r \in Sessions :
    till[s].status = "OPEN" /\ till[r].status = "OPEN" /\ till[s].cashier = till[r].cashier
      => s = r

\* No attribution is lost: a till's running tallies are what was attributed to
\* it, even when a close commits between an attribution's query and its commit.
\* Only the event loop writes the tallies, and a close leaves them out.
TalliesAreComplete == \A s \in Sessions : till[s].tallies = booked[s]

\* Every transaction stamped with a till belongs to that till's cashier.
StampNamesOwnTill ==
  \A t \in Txns : stamp[t] # NoSession =>
    /\ till[stamp[t]].status # "none"
    /\ till[stamp[t]].cashier = t.cashier

\* The close report adds up: unless an attribution raced a close of that till,
\* what it expected is the float plus sales minus refunds of the row, and always
\* its variance is what was counted minus what was expected, also when two
\* closes of it overlap.
CloseReportAddsUp ==
  \A s \in Sessions : till[s].status = "CLOSED" =>
    /\ till[s].variance = till[s].counted - till[s].expected
    /\ s \notin raced => till[s].expected = Expected(s)

-----------------------------------------------------------------------------
(* Why they hold, for an induction: what the loop and the threads have read  *)
(* is still what the row holds, and a till under one of their hands exists.  *)

LoopCurrent ==
  loop.busy =>
    /\ till[loop.sid].status # "none"
    /\ till[loop.sid].cashier = loop.txn.cashier
    /\ loop.tallies = till[loop.sid].tallies

ThreadCurrent(w) ==
  thread[w].at = "close" =>
    /\ thread[w].sid \in Sessions
    /\ till[thread[w].sid].status # "none"
    /\ thread[w].sid \notin raced => thread[w].expected = Expected(thread[w].sid)

ReadsAreCurrent == LoopCurrent /\ \A w \in Workers : ThreadCurrent(w)

-----------------------------------------------------------------------------
(* What the repository says and the code does not do                         *)

\* "A refund for yesterday's $50 sale, processed today, decrements today's
\* expected closing by $50" (cashier runbook).
RefundLowersExpected ==
  [][\A t \in Txns, s \in Sessions :
       /\ t.refund /\ t.method = "cash"
       /\ loop.busy /\ loop.txn = t /\ loop.sid = s
       /\ times'[t] # times[t]
       => till'[s].float + till'[s].tallies.sales - till'[s].tallies.refunds < Expected(s)]_vars
=============================================================================
