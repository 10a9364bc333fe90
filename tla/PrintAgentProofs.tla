-------------------------- MODULE PrintAgentProofs --------------------------
(***************************************************************************)
(* The print agent keeps its types, its receipts whole, its answers true   *)
(* and its work in order, for any requests and any number of replacements  *)
(* of the printer, whatever the device does.                               *)
(***************************************************************************)
EXTENDS PrintAgent, TLAPS

(* A failed driver call leaves a lock and a state of their types. *)
LEMMA CallFailsTypes ==
  ASSUME TypeOK, NEW r \in Requests, NEW repair \in States, CallFails(r, repair)
  PROVE lock' \in [Handles -> Requests \cup {None}] /\ at' \in [Requests -> States]
  <1>1. CASE attempt[r] = 1 /\ at' = [at EXCEPT ![r] = repair] /\ UNCHANGED lock
    BY <1>1 DEF TypeOK
  <1>2. CASE attempt[r] = 2 /\ at' = [at EXCEPT ![r] = "error"] /\ Unlock(r)
    BY <1>2 DEF Unlock, States, TypeOK
  <1>3. CASE at' = [at EXCEPT ![r] = "hung"] /\ UNCHANGED lock
    BY <1>3 DEF States, TypeOK
  <1> QED BY <1>1, <1>2, <1>3 DEF CallFails, Hangs

(* Every step keeps the types. *)
LEMMA TypeStep ==
  ASSUME TypeOK, [Next]_vars
  PROVE TypeOK'
  <1> USE HandlesAssumption, NoneAssumption DEF Handles, Kinds, States
  <1>1. ASSUME NEW r \in Requests, NEW k \in Kinds, Arrive(r, k)
        PROVE TypeOK'
    BY <1>1 DEF Arrive, TypeOK, paper
  <1>2. ASSUME NEW r \in Requests, TakeLock(r)
        PROVE TypeOK'
    BY <1>2 DEF TakeLock, TypeOK, request, paper
  <1>3. ASSUME NEW r \in Requests, TextWritten(r)
        PROVE TypeOK'
    BY <1>3 DEF TextWritten, TypeOK, request
  <1>4. ASSUME NEW r \in Requests, TextFails(r)
        PROVE TypeOK'
    <2>1. strip' \subseteq Requests /\ copies' \in [Requests -> Nat]
      <3>1. CASE UNCHANGED <<strip, copies>>
        BY <3>1 DEF TypeOK
      <3>2. CASE strip' = strip \cup {r} /\ copies' = [copies EXCEPT ![r] = @ + 1]
        BY <3>2 DEF TypeOK
      <3> QED BY <1>4, <3>1, <3>2 DEF TextFails
    <2>2. lock' \in [Handles -> Requests \cup {None}] /\ at' \in [Requests -> States]
      BY <1>4, CallFailsTypes DEF TextFails, States
    <2> QED BY <1>4, <2>1, <2>2 DEF TextFails, TypeOK, request
  <1>5. ASSUME NEW r \in Requests, CutDone(r)
        PROVE TypeOK'
    BY <1>5 DEF CutDone, Unlock, TypeOK, request
  <1>6. ASSUME NEW r \in Requests, CutFails(r)
        PROVE TypeOK'
    <2>1. strip' \subseteq Requests /\ slips' \subseteq SUBSET Requests
      BY <1>6 DEF CutFails, TypeOK
    <2>2. lock' \in [Handles -> Requests \cup {None}] /\ at' \in [Requests -> States]
      BY <1>6, CallFailsTypes DEF CutFails, States
    <2> QED BY <1>6, <2>1, <2>2 DEF CutFails, TypeOK, request
  <1>7. ASSUME NEW r \in Requests, DrawerOpened(r)
        PROVE TypeOK'
    BY <1>7 DEF DrawerOpened, Unlock, TypeOK, request
  <1>8. ASSUME NEW r \in Requests, DrawerFails(r)
        PROVE TypeOK'
    <2>1. kicks' \in [Requests -> Nat]
      <3>1. CASE kicks' = kicks
        BY <3>1 DEF TypeOK
      <3>2. CASE kicks' = [kicks EXCEPT ![r] = @ + 1]
        BY <3>2 DEF TypeOK
      <3> QED BY <1>8, <3>1, <3>2 DEF DrawerFails
    <2>2. lock' \in [Handles -> Requests \cup {None}] /\ at' \in [Requests -> States]
      BY <1>8 DEF DrawerFails, CallFails, Hangs, Unlock, TypeOK
    <2> QED BY <1>8, <2>1, <2>2 DEF DrawerFails, TypeOK, request
  <1>9. ASSUME NEW r \in Requests, Reconnect(r)
        PROVE TypeOK'
    BY <1>9 DEF Reconnect, TypeOK, request, paper
  <1>10. ASSUME NEW r \in Requests, ReconnectFails(r)
        PROVE TypeOK'
    BY <1>10 DEF ReconnectFails, Unlock, TypeOK, request, paper
  <1>11. ASSUME NEW r \in Requests, ReconnectHangs(r)
        PROVE TypeOK'
    BY <1>11 DEF ReconnectHangs, Hangs, TypeOK, request, paper
  <1>12. CASE TrayReconnects
    BY <1>12 DEF TrayReconnects, TypeOK, request, paper, InProgress, Holding, Printing
  <1>13. CASE Restart
    BY <1>13 DEF Restart, TypeOK, request, paper, InProgress, Holding, Printing
  <1>14. CASE UNCHANGED vars
    BY <1>14 DEF vars, request, paper, TypeOK
  <1> QED
    BY <1>1, <1>2, <1>3, <1>4, <1>5, <1>6, <1>7, <1>8, <1>9, <1>10, <1>11, <1>12, <1>13, <1>14
    DEF Next, Step

(* Every step keeps the handles and their locks. *)
LEMMA LocksStep ==
  ASSUME TypeOK, LocksHeld, [Next]_vars
  PROVE LocksHeld'
  <1> USE HandlesAssumption, NoneAssumption DEF Handles, Kinds, States
  <1>1. ASSUME NEW r \in Requests, NEW k \in Kinds, Arrive(r, k)
        PROVE LocksHeld'
    BY <1>1 DEF Arrive, LocksHeld, TypeOK, InProgress, Holding, Printing, paper
  <1>2. ASSUME NEW r \in Requests, TakeLock(r)
        PROVE LocksHeld'
    BY <1>2 DEF TakeLock, LocksHeld, TypeOK, InProgress, Holding, Printing, request, paper
  <1>3. ASSUME NEW r \in Requests, TextWritten(r)
        PROVE LocksHeld'
    BY <1>3 DEF TextWritten, LocksHeld, TypeOK, InProgress, Holding, Printing, request
  <1>4. ASSUME NEW r \in Requests, TextFails(r)
        PROVE LocksHeld'
    <2>1. CASE attempt[r] = 1 /\ at' = [at EXCEPT ![r] = "reprint"] /\ UNCHANGED lock
      BY <1>4, <2>1 DEF TextFails, LocksHeld, TypeOK, request, InProgress, Holding, Printing, Failed
    <2>2. CASE attempt[r] = 2 /\ at' = [at EXCEPT ![r] = "error"] /\ Unlock(r)
      BY <1>4, <2>2 DEF TextFails, Unlock, LocksHeld, TypeOK, request, InProgress, Holding, Printing, Failed
    <2>3. CASE at' = [at EXCEPT ![r] = "hung"] /\ UNCHANGED lock
      BY <1>4, <2>3 DEF TextFails, LocksHeld, TypeOK, request, InProgress, Holding, Printing, Failed
    <2> QED BY <1>4, <2>1, <2>2, <2>3 DEF TextFails, CallFails, Hangs
  <1>5. ASSUME NEW r \in Requests, CutDone(r)
        PROVE LocksHeld'
    BY <1>5 DEF CutDone, Unlock, LocksHeld, TypeOK, InProgress, Holding, Printing, request
  <1>6. ASSUME NEW r \in Requests, CutFails(r)
        PROVE LocksHeld'
    BY <1>6 DEF CutFails, CallFails, Hangs, Unlock, LocksHeld, TypeOK, InProgress, Holding, Printing, request
  <1>7. ASSUME NEW r \in Requests, DrawerOpened(r)
        PROVE LocksHeld'
    BY <1>7 DEF DrawerOpened, Unlock, LocksHeld, TypeOK, InProgress, Holding, Printing, request
  <1>8. ASSUME NEW r \in Requests, DrawerFails(r)
        PROVE LocksHeld'
    BY <1>8 DEF DrawerFails, CallFails, Hangs, Unlock, LocksHeld, TypeOK, InProgress, Holding, Printing, request
  <1>9. ASSUME NEW r \in Requests, Reconnect(r)
        PROVE LocksHeld'
    BY <1>9 DEF Reconnect, LocksHeld, TypeOK, InProgress, Holding, Printing, request, paper
  <1>10. ASSUME NEW r \in Requests, ReconnectFails(r)
        PROVE LocksHeld'
    BY <1>10 DEF ReconnectFails, Unlock, LocksHeld, TypeOK, InProgress, Holding, Printing, request, paper
  <1>11. ASSUME NEW r \in Requests, ReconnectHangs(r)
        PROVE LocksHeld'
    BY <1>11 DEF ReconnectHangs, Hangs, LocksHeld, TypeOK, InProgress, Holding, Printing, request, paper
  <1>12. CASE TrayReconnects
    BY <1>12 DEF TrayReconnects, LocksHeld, TypeOK, InProgress, Holding, Printing, request, paper
  <1>13. CASE Restart
    BY <1>13 DEF Restart, LocksHeld, TypeOK, InProgress, Holding, Printing, request, paper
  <1>14. CASE UNCHANGED vars
    BY <1>14 DEF vars, request, paper, LocksHeld, TypeOK, InProgress, Holding, Printing
  <1> QED
    BY <1>1, <1>2, <1>3, <1>4, <1>5, <1>6, <1>7, <1>8, <1>9, <1>10, <1>11, <1>12, <1>13, <1>14
    DEF Next, Step

(* Every step accounts for the text on the strip. *)
LEMMA StripStep ==
  ASSUME TypeOK, StripOwned, [Next]_vars
  PROVE StripOwned'
  <1> USE HandlesAssumption, NoneAssumption DEF Handles, Kinds, States
  <1>1. ASSUME NEW r \in Requests, NEW k \in Kinds, Arrive(r, k)
        PROVE StripOwned'
    BY <1>1 DEF Arrive, StripOwned, TypeOK, Printing, Failed, paper
  <1>2. ASSUME NEW r \in Requests, TakeLock(r)
        PROVE StripOwned'
    BY <1>2 DEF TakeLock, StripOwned, TypeOK, Printing, Failed, request, paper
  <1>3. ASSUME NEW r \in Requests, TextWritten(r)
        PROVE StripOwned'
    BY <1>3 DEF TextWritten, StripOwned, TypeOK, Printing, Failed, request
  <1>4. ASSUME NEW r \in Requests, TextFails(r)
        PROVE StripOwned'
    <2>1. CASE attempt[r] = 1 /\ at' = [at EXCEPT ![r] = "reprint"] /\ UNCHANGED lock
      BY <1>4, <2>1 DEF TextFails, StripOwned, TypeOK, request, InProgress, Holding, Printing, Failed
    <2>2. CASE attempt[r] = 2 /\ at' = [at EXCEPT ![r] = "error"] /\ Unlock(r)
      BY <1>4, <2>2 DEF TextFails, Unlock, StripOwned, TypeOK, request, InProgress, Holding, Printing, Failed
    <2>3. CASE at' = [at EXCEPT ![r] = "hung"] /\ UNCHANGED lock
      BY <1>4, <2>3 DEF TextFails, StripOwned, TypeOK, request, InProgress, Holding, Printing, Failed
    <2> QED BY <1>4, <2>1, <2>2, <2>3 DEF TextFails, CallFails, Hangs
  <1>5. ASSUME NEW r \in Requests, CutDone(r)
        PROVE StripOwned'
    BY <1>5 DEF CutDone, Unlock, StripOwned, TypeOK, Printing, Failed, request
  <1>6. ASSUME NEW r \in Requests, CutFails(r)
        PROVE StripOwned'
    <2>1. CASE attempt[r] = 1 /\ at' = [at EXCEPT ![r] = "reprint"] /\ UNCHANGED lock
      BY <1>6, <2>1 DEF CutFails, StripOwned, TypeOK, request, InProgress, Holding, Printing, Failed
    <2>2. CASE attempt[r] = 2 /\ at' = [at EXCEPT ![r] = "error"] /\ Unlock(r)
      BY <1>6, <2>2 DEF CutFails, Unlock, StripOwned, TypeOK, request, InProgress, Holding, Printing, Failed
    <2>3. CASE at' = [at EXCEPT ![r] = "hung"] /\ UNCHANGED lock
      BY <1>6, <2>3 DEF CutFails, StripOwned, TypeOK, request, InProgress, Holding, Printing, Failed
    <2> QED BY <1>6, <2>1, <2>2, <2>3 DEF CutFails, CallFails, Hangs
  <1>7. ASSUME NEW r \in Requests, DrawerOpened(r)
        PROVE StripOwned'
    BY <1>7 DEF DrawerOpened, Unlock, StripOwned, TypeOK, Printing, Failed, request
  <1>8. ASSUME NEW r \in Requests, DrawerFails(r)
        PROVE StripOwned'
    BY <1>8 DEF DrawerFails, CallFails, Hangs, Unlock, StripOwned, TypeOK, Printing, Failed, request
  <1>9. ASSUME NEW r \in Requests, Reconnect(r)
        PROVE StripOwned'
    BY <1>9 DEF Reconnect, StripOwned, TypeOK, Printing, Failed, request, paper
  <1>10. ASSUME NEW r \in Requests, ReconnectFails(r)
        PROVE StripOwned'
    BY <1>10 DEF ReconnectFails, Unlock, StripOwned, TypeOK, Printing, Failed, request, paper
  <1>11. ASSUME NEW r \in Requests, ReconnectHangs(r)
        PROVE StripOwned'
    BY <1>11 DEF ReconnectHangs, Hangs, StripOwned, TypeOK, Printing, Failed, request, paper
  <1>12. CASE TrayReconnects
    BY <1>12 DEF TrayReconnects, StripOwned, TypeOK, Printing, Failed, request, paper, InProgress, Holding
  <1>13. CASE Restart
    BY <1>13 DEF Restart, StripOwned, TypeOK, Printing, Failed, request, paper, InProgress, Holding
  <1>14. CASE UNCHANGED vars
    BY <1>14 DEF vars, request, paper, StripOwned, TypeOK, Printing, Failed
  <1> QED
    BY <1>1, <1>2, <1>3, <1>4, <1>5, <1>6, <1>7, <1>8, <1>9, <1>10, <1>11, <1>12, <1>13, <1>14
    DEF Next, Step

(* Every step keeps the order of the work. *)
LEMMA OrderStep ==
  ASSUME TypeOK, WorkInOrder, [Next]_vars
  PROVE WorkInOrder'
  <1> USE HandlesAssumption, NoneAssumption DEF Handles, Kinds, States
  <1>1. ASSUME NEW r \in Requests, NEW k \in Kinds, Arrive(r, k)
        PROVE WorkInOrder'
    BY <1>1 DEF Arrive, WorkInOrder, CutOff, TypeOK, Printing, paper
  <1>2. ASSUME NEW r \in Requests, TakeLock(r)
        PROVE WorkInOrder'
    BY <1>2 DEF TakeLock, WorkInOrder, CutOff, TypeOK, Printing, request, paper
  <1>3. ASSUME NEW r \in Requests, TextWritten(r)
        PROVE WorkInOrder'
    BY <1>3 DEF TextWritten, WorkInOrder, CutOff, TypeOK, Printing, request
  <1>4. ASSUME NEW r \in Requests, TextFails(r)
        PROVE WorkInOrder'
    BY <1>4 DEF TextFails, CallFails, Hangs, Unlock, WorkInOrder, CutOff, TypeOK, Printing, request
  <1>5. ASSUME NEW r \in Requests, CutDone(r)
        PROVE WorkInOrder'
    BY <1>5 DEF CutDone, Unlock, WorkInOrder, CutOff, TypeOK, Printing, request
  <1>6. ASSUME NEW r \in Requests, CutFails(r)
        PROVE WorkInOrder'
    BY <1>6 DEF CutFails, CallFails, Hangs, Unlock, WorkInOrder, CutOff, TypeOK, Printing, request
  <1>7. ASSUME NEW r \in Requests, DrawerOpened(r)
        PROVE WorkInOrder'
    BY <1>7 DEF DrawerOpened, Unlock, WorkInOrder, CutOff, TypeOK, Printing, request
  <1>8. ASSUME NEW r \in Requests, DrawerFails(r)
        PROVE WorkInOrder'
    BY <1>8 DEF DrawerFails, CallFails, Hangs, Unlock, WorkInOrder, CutOff, TypeOK, Printing, request
  <1>9. ASSUME NEW r \in Requests, Reconnect(r)
        PROVE WorkInOrder'
    BY <1>9 DEF Reconnect, WorkInOrder, CutOff, TypeOK, Printing, request, paper
  <1>10. ASSUME NEW r \in Requests, ReconnectFails(r)
        PROVE WorkInOrder'
    BY <1>10 DEF ReconnectFails, Unlock, WorkInOrder, CutOff, TypeOK, Printing, request, paper
  <1>11. ASSUME NEW r \in Requests, ReconnectHangs(r)
        PROVE WorkInOrder'
    BY <1>11 DEF ReconnectHangs, Hangs, WorkInOrder, CutOff, TypeOK, Printing, request, paper
  <1>12. CASE TrayReconnects
    BY <1>12 DEF TrayReconnects, WorkInOrder, CutOff, TypeOK, Printing, request, paper, InProgress, Holding
  <1>13. CASE Restart
    BY <1>13 DEF Restart, WorkInOrder, CutOff, TypeOK, Printing, request, paper, InProgress, Holding
  <1>14. CASE UNCHANGED vars
    BY <1>14 DEF vars, request, paper, WorkInOrder, CutOff, TypeOK, Printing
  <1> QED
    BY <1>1, <1>2, <1>3, <1>4, <1>5, <1>6, <1>7, <1>8, <1>9, <1>10, <1>11, <1>12, <1>13, <1>14
    DEF Next, Step

(* Every step prints and pulses as its attempt allows. *)
LEMMA CountStep ==
  ASSUME TypeOK, Counted, AtMostTwice, [Next]_vars
  PROVE Counted' /\ AtMostTwice'
  <1> USE HandlesAssumption, NoneAssumption DEF Handles, Kinds, States
  <1>1. ASSUME NEW r \in Requests, NEW k \in Kinds, Arrive(r, k)
        PROVE Counted' /\ AtMostTwice'
    BY <1>1 DEF Arrive, Counted, AtMostTwice, TypeOK, Printing, paper
  <1>2. ASSUME NEW r \in Requests, TakeLock(r)
        PROVE Counted' /\ AtMostTwice'
    BY <1>2 DEF TakeLock, Counted, AtMostTwice, TypeOK, Printing, request, paper
  <1>3. ASSUME NEW r \in Requests, TextWritten(r)
        PROVE Counted' /\ AtMostTwice'
    <2>1. \A q \in Requests : copies'[q] = IF q = r THEN copies[r] + 1 ELSE copies[q]
      BY <1>3 DEF TextWritten, TypeOK
    <2>2. \A q \in Requests : at'[q] = IF q = r THEN "cut" ELSE at[q]
      BY <1>3 DEF TextWritten, TypeOK
    <2>3. copies[r] <= attempt[r] - 1 /\ attempt[r] \in {1, 2} /\ copies[r] \in Nat /\ kicks[r] = 0
      BY <1>3 DEF TextWritten, Counted, TypeOK, Printing
    <2> QED BY <1>3, <2>1, <2>2, <2>3 DEF TextWritten, Counted, AtMostTwice, TypeOK, request, Printing
  <1>4. ASSUME NEW r \in Requests, TextFails(r)
        PROVE Counted' /\ AtMostTwice'
    <2>1. \A q \in Requests : copies'[q] = copies[q] \/ (q = r /\ copies'[q] = copies[r] + 1)
      BY <1>4 DEF TextFails, TypeOK
    <2>2. /\ at'[r] \in {"reprint", "error", "hung"} /\ (at'[r] = "reprint" => attempt[r] = 1)
          /\ \A q \in Requests : q # r => at'[q] = at[q]
      BY <1>4 DEF TextFails, CallFails, Hangs, TypeOK
    <2>3. /\ copies[r] <= attempt[r] - 1 /\ attempt[r] \in {1, 2} /\ copies[r] \in Nat
          /\ kicks[r] = 0
      BY <1>4 DEF TextFails, Counted, TypeOK, Printing
    <2>4. at[r] = "text" /\ UNCHANGED <<kicks, attempt>>
      BY <1>4 DEF TextFails
    <2>5. ASSUME NEW q \in Requests, q # r
          PROVE copies'[q] = copies[q] /\ at'[q] = at[q]
      BY <2>1, <2>2, <2>5
    <2>6. copies'[r] <= 2 /\ (at'[r] = "reprint" => copies'[r] <= 1)
      BY <2>1, <2>2, <2>3
    <2> QED BY <2>2, <2>3, <2>4, <2>5, <2>6 DEF Counted, AtMostTwice, TypeOK, Printing
  <1>5. ASSUME NEW r \in Requests, CutDone(r)
        PROVE Counted' /\ AtMostTwice'
    BY <1>5 DEF CutDone, Unlock, Counted, AtMostTwice, TypeOK, Printing, request
  <1>6. ASSUME NEW r \in Requests, CutFails(r)
        PROVE Counted' /\ AtMostTwice'
    BY <1>6 DEF CutFails, CallFails, Hangs, Unlock, Counted, AtMostTwice, TypeOK, Printing, request
  <1>7. ASSUME NEW r \in Requests, DrawerOpened(r)
        PROVE Counted' /\ AtMostTwice'
    <2>1. \A q \in Requests : kicks'[q] = IF q = r THEN kicks[r] + 1 ELSE kicks[q]
      BY <1>7 DEF DrawerOpened, TypeOK
    <2>2. \A q \in Requests : at'[q] = IF q = r THEN "ok" ELSE at[q]
      BY <1>7 DEF DrawerOpened, TypeOK
    <2>3. kicks[r] <= attempt[r] - 1 /\ attempt[r] \in {1, 2} /\ kicks[r] \in Nat
      BY <1>7 DEF DrawerOpened, Counted, TypeOK, Printing
    <2> QED BY <1>7, <2>1, <2>2, <2>3 DEF DrawerOpened, Counted, AtMostTwice, TypeOK, request, Printing
  <1>8. ASSUME NEW r \in Requests, DrawerFails(r)
        PROVE Counted' /\ AtMostTwice'
    <2>1. \A q \in Requests : kicks'[q] = kicks[q] \/ (q = r /\ kicks'[q] = kicks[r] + 1)
      BY <1>8 DEF DrawerFails, TypeOK
    <2>2. /\ at'[r] \in {"rekick", "error", "hung"} /\ (at'[r] = "rekick" => attempt[r] = 1)
          /\ \A q \in Requests : q # r => at'[q] = at[q]
      BY <1>8 DEF DrawerFails, CallFails, Hangs, TypeOK
    <2>3. kicks[r] <= attempt[r] - 1 /\ attempt[r] \in {1, 2} /\ kicks[r] \in Nat
      BY <1>8 DEF DrawerFails, Counted, TypeOK
    <2>4. at[r] = "drawer" /\ UNCHANGED <<copies, attempt>>
      BY <1>8 DEF DrawerFails
    <2>5. ASSUME NEW q \in Requests, q # r
          PROVE kicks'[q] = kicks[q] /\ at'[q] = at[q]
      BY <2>1, <2>2, <2>5
    <2>6. kicks'[r] <= 2 /\ (at'[r] = "rekick" => kicks'[r] <= 1)
      BY <2>1, <2>2, <2>3
    <2> QED BY <2>2, <2>4, <2>5, <2>6 DEF Counted, AtMostTwice, TypeOK, Printing
  <1>9. ASSUME NEW r \in Requests, Reconnect(r)
        PROVE Counted' /\ AtMostTwice'
    BY <1>9 DEF Reconnect, Counted, AtMostTwice, TypeOK, Printing, request, paper
  <1>10. ASSUME NEW r \in Requests, ReconnectFails(r)
        PROVE Counted' /\ AtMostTwice'
    BY <1>10 DEF ReconnectFails, Unlock, Counted, AtMostTwice, TypeOK, Printing, request, paper
  <1>11. ASSUME NEW r \in Requests, ReconnectHangs(r)
        PROVE Counted' /\ AtMostTwice'
    BY <1>11 DEF ReconnectHangs, Hangs, Counted, AtMostTwice, TypeOK, Printing, request, paper
  <1>12. CASE TrayReconnects
    BY <1>12 DEF TrayReconnects, Counted, AtMostTwice, TypeOK, Printing, request, paper, InProgress, Holding
  <1>13. CASE Restart
    BY <1>13 DEF Restart, Counted, AtMostTwice, TypeOK, Printing, request, paper, InProgress, Holding
  <1>14. CASE UNCHANGED vars
    BY <1>14 DEF vars, request, paper, Counted, AtMostTwice, TypeOK, Printing
  <1> QED
    BY <1>1, <1>2, <1>3, <1>4, <1>5, <1>6, <1>7, <1>8, <1>9, <1>10, <1>11, <1>12, <1>13, <1>14
    DEF Next, Step

(* Every step keeps the answers true. *)
LEMMA DoneStep ==
  ASSUME TypeOK, WorkInOrder, OkMeansDone, [Next]_vars
  PROVE OkMeansDone'
  <1> USE HandlesAssumption, NoneAssumption DEF Handles, Kinds, States
  <1>1. ASSUME NEW r \in Requests, NEW k \in Kinds, Arrive(r, k)
        PROVE OkMeansDone'
    BY <1>1 DEF Arrive, OkMeansDone, WorkInOrder, CutOff, TypeOK, Printing, paper
  <1>2. ASSUME NEW r \in Requests, TakeLock(r)
        PROVE OkMeansDone'
    BY <1>2 DEF TakeLock, OkMeansDone, WorkInOrder, CutOff, TypeOK, Printing, request, paper
  <1>3. ASSUME NEW r \in Requests, TextWritten(r)
        PROVE OkMeansDone'
    BY <1>3 DEF TextWritten, OkMeansDone, WorkInOrder, CutOff, TypeOK, Printing, request
  <1>4. ASSUME NEW r \in Requests, TextFails(r)
        PROVE OkMeansDone'
    BY <1>4 DEF TextFails, CallFails, Hangs, Unlock, OkMeansDone, WorkInOrder, CutOff, TypeOK, Printing, request
  <1>5. ASSUME NEW r \in Requests, CutDone(r)
        PROVE OkMeansDone'
    BY <1>5 DEF CutDone, Unlock, OkMeansDone, WorkInOrder, CutOff, TypeOK, Printing, request
  <1>6. ASSUME NEW r \in Requests, CutFails(r)
        PROVE OkMeansDone'
    BY <1>6 DEF CutFails, CallFails, Hangs, Unlock, OkMeansDone, WorkInOrder, CutOff, TypeOK, Printing, request
  <1>7. ASSUME NEW r \in Requests, DrawerOpened(r)
        PROVE OkMeansDone'
    BY <1>7 DEF DrawerOpened, Unlock, OkMeansDone, WorkInOrder, CutOff, TypeOK, Printing, request
  <1>8. ASSUME NEW r \in Requests, DrawerFails(r)
        PROVE OkMeansDone'
    BY <1>8 DEF DrawerFails, CallFails, Hangs, Unlock, OkMeansDone, WorkInOrder, CutOff, TypeOK, Printing, request
  <1>9. ASSUME NEW r \in Requests, Reconnect(r)
        PROVE OkMeansDone'
    BY <1>9 DEF Reconnect, OkMeansDone, WorkInOrder, CutOff, TypeOK, Printing, request, paper
  <1>10. ASSUME NEW r \in Requests, ReconnectFails(r)
        PROVE OkMeansDone'
    BY <1>10 DEF ReconnectFails, Unlock, OkMeansDone, WorkInOrder, CutOff, TypeOK, Printing, request, paper
  <1>11. ASSUME NEW r \in Requests, ReconnectHangs(r)
        PROVE OkMeansDone'
    BY <1>11 DEF ReconnectHangs, Hangs, OkMeansDone, WorkInOrder, CutOff, TypeOK, Printing, request, paper
  <1>12. CASE TrayReconnects
    BY <1>12 DEF TrayReconnects, OkMeansDone, WorkInOrder, CutOff, TypeOK, Printing, request, paper, InProgress, Holding
  <1>13. CASE Restart
    BY <1>13 DEF Restart, OkMeansDone, WorkInOrder, CutOff, TypeOK, Printing, request, paper, InProgress, Holding
  <1>14. CASE UNCHANGED vars
    BY <1>14 DEF vars, request, paper, OkMeansDone, WorkInOrder, CutOff, TypeOK, Printing
  <1> QED
    BY <1>1, <1>2, <1>3, <1>4, <1>5, <1>6, <1>7, <1>8, <1>9, <1>10, <1>11, <1>12, <1>13, <1>14
    DEF Next, Step

(* Every step keeps receipt before drawer. *)
LEMMA DrawerStep ==
  ASSUME TypeOK, WorkInOrder, Counted, DrawerAfterReceipt, [Next]_vars
  PROVE DrawerAfterReceipt'
  <1> USE HandlesAssumption, NoneAssumption DEF Handles, Kinds, States
  <1>1. ASSUME NEW r \in Requests, NEW k \in Kinds, Arrive(r, k)
        PROVE DrawerAfterReceipt'
    BY <1>1 DEF Arrive, DrawerAfterReceipt, Counted, WorkInOrder, CutOff, TypeOK, Printing, paper
  <1>2. ASSUME NEW r \in Requests, TakeLock(r)
        PROVE DrawerAfterReceipt'
    BY <1>2 DEF TakeLock, DrawerAfterReceipt, Counted, WorkInOrder, CutOff, TypeOK, Printing, request, paper
  <1>3. ASSUME NEW r \in Requests, TextWritten(r)
        PROVE DrawerAfterReceipt'
    BY <1>3 DEF TextWritten, DrawerAfterReceipt, Counted, WorkInOrder, CutOff, TypeOK, Printing, request
  <1>4. ASSUME NEW r \in Requests, TextFails(r)
        PROVE DrawerAfterReceipt'
    BY <1>4 DEF TextFails, CallFails, Hangs, Unlock, DrawerAfterReceipt, Counted, WorkInOrder, CutOff, TypeOK, Printing, request
  <1>5. ASSUME NEW r \in Requests, CutDone(r)
        PROVE DrawerAfterReceipt'
    BY <1>5 DEF CutDone, Unlock, DrawerAfterReceipt, Counted, WorkInOrder, CutOff, TypeOK, Printing, request
  <1>6. ASSUME NEW r \in Requests, CutFails(r)
        PROVE DrawerAfterReceipt'
    BY <1>6 DEF CutFails, CallFails, Hangs, Unlock, DrawerAfterReceipt, Counted, WorkInOrder, CutOff, TypeOK, Printing, request
  <1>7. ASSUME NEW r \in Requests, DrawerOpened(r)
        PROVE DrawerAfterReceipt'
    <2>1. UNCHANGED <<kind, slips>> /\ \A q \in Requests : q # r => kicks'[q] = kicks[q]
      BY <1>7 DEF DrawerOpened, TypeOK, request
    <2>2. kind[r] = "cash" => CutOff(r)
      BY <1>7 DEF DrawerOpened, WorkInOrder, TypeOK
    <2>3. \A q \in Requests : kind[q] = "cash" /\ kicks'[q] > 0 => CutOff(q)
      BY <2>1, <2>2 DEF DrawerAfterReceipt, CutOff
    <2> QED BY <2>1, <2>3 DEF DrawerAfterReceipt, CutOff
  <1>8. ASSUME NEW r \in Requests, DrawerFails(r)
        PROVE DrawerAfterReceipt'
    <2>1. UNCHANGED <<kind, slips>> /\ \A q \in Requests : q # r => kicks'[q] = kicks[q]
      BY <1>8 DEF DrawerFails, TypeOK, request
    <2>2. kind[r] = "cash" => CutOff(r)
      BY <1>8 DEF DrawerFails, WorkInOrder, TypeOK
    <2>3. \A q \in Requests : kind[q] = "cash" /\ kicks'[q] > 0 => CutOff(q)
      BY <2>1, <2>2 DEF DrawerAfterReceipt, CutOff
    <2> QED BY <2>1, <2>3 DEF DrawerAfterReceipt, CutOff
  <1>9. ASSUME NEW r \in Requests, Reconnect(r)
        PROVE DrawerAfterReceipt'
    BY <1>9 DEF Reconnect, DrawerAfterReceipt, Counted, WorkInOrder, CutOff, TypeOK, Printing, request, paper
  <1>10. ASSUME NEW r \in Requests, ReconnectFails(r)
        PROVE DrawerAfterReceipt'
    BY <1>10 DEF ReconnectFails, Unlock, DrawerAfterReceipt, Counted, WorkInOrder, CutOff, TypeOK, Printing, request, paper
  <1>11. ASSUME NEW r \in Requests, ReconnectHangs(r)
        PROVE DrawerAfterReceipt'
    BY <1>11 DEF ReconnectHangs, Hangs, DrawerAfterReceipt, Counted, WorkInOrder, CutOff, TypeOK, Printing, request, paper
  <1>12. CASE TrayReconnects
    BY <1>12 DEF TrayReconnects, DrawerAfterReceipt, Counted, WorkInOrder, CutOff, TypeOK, Printing, request, paper, InProgress, Holding
  <1>13. CASE Restart
    BY <1>13 DEF Restart, DrawerAfterReceipt, Counted, WorkInOrder, CutOff, TypeOK, Printing, request, paper, InProgress, Holding
  <1>14. CASE UNCHANGED vars
    BY <1>14 DEF vars, request, paper, DrawerAfterReceipt, Counted, WorkInOrder, CutOff, TypeOK, Printing
  <1> QED
    BY <1>1, <1>2, <1>3, <1>4, <1>5, <1>6, <1>7, <1>8, <1>9, <1>10, <1>11, <1>12, <1>13, <1>14
    DEF Next, Step

(* Every step keeps the slips whole: the lock says whose text is on the strip. *)
LEMMA SlipsStep ==
  ASSUME TypeOK, LocksHeld, StripOwned, SlipsAreWhole, [Next]_vars
  PROVE SlipsAreWhole'
  <1> USE HandlesAssumption, NoneAssumption DEF Handles, Kinds, States
  <1>1. ASSUME NEW r \in Requests, NEW k \in Kinds, Arrive(r, k)
        PROVE SlipsAreWhole'
    BY <1>1 DEF Arrive, SlipsAreWhole, LocksHeld, StripOwned, TypeOK, InProgress, Holding, Printing, Failed, paper
  <1>2. ASSUME NEW r \in Requests, TakeLock(r)
        PROVE SlipsAreWhole'
    BY <1>2 DEF TakeLock, SlipsAreWhole, LocksHeld, StripOwned, TypeOK, InProgress, Holding, Printing, Failed, request, paper
  <1>3. ASSUME NEW r \in Requests, TextWritten(r)
        PROVE SlipsAreWhole'
    BY <1>3 DEF TextWritten, SlipsAreWhole, LocksHeld, StripOwned, TypeOK, InProgress, Holding, Printing, Failed, request
  <1>4. ASSUME NEW r \in Requests, TextFails(r)
        PROVE SlipsAreWhole'
    <2>1. CASE attempt[r] = 1 /\ at' = [at EXCEPT ![r] = "reprint"] /\ UNCHANGED lock
      BY <1>4, <2>1 DEF TextFails, SlipsAreWhole, LocksHeld, StripOwned, TypeOK, request, InProgress, Holding, Printing, Failed
    <2>2. CASE attempt[r] = 2 /\ at' = [at EXCEPT ![r] = "error"] /\ Unlock(r)
      BY <1>4, <2>2 DEF TextFails, Unlock, SlipsAreWhole, LocksHeld, StripOwned, TypeOK, request, InProgress, Holding, Printing, Failed
    <2>3. CASE at' = [at EXCEPT ![r] = "hung"] /\ UNCHANGED lock
      BY <1>4, <2>3 DEF TextFails, SlipsAreWhole, LocksHeld, StripOwned, TypeOK, request, InProgress, Holding, Printing, Failed
    <2> QED BY <1>4, <2>1, <2>2, <2>3 DEF TextFails, CallFails, Hangs
  <1>5. ASSUME NEW r \in Requests, CutDone(r)
        PROVE SlipsAreWhole'
    BY <1>5 DEF CutDone, Unlock, SlipsAreWhole, LocksHeld, StripOwned, TypeOK, InProgress, Holding, Printing, Failed, request
  <1>6. ASSUME NEW r \in Requests, CutFails(r)
        PROVE SlipsAreWhole'
    <2>1. CASE attempt[r] = 1 /\ at' = [at EXCEPT ![r] = "reprint"] /\ UNCHANGED lock
      BY <1>6, <2>1 DEF CutFails, SlipsAreWhole, LocksHeld, StripOwned, TypeOK, request, InProgress, Holding, Printing, Failed
    <2>2. CASE attempt[r] = 2 /\ at' = [at EXCEPT ![r] = "error"] /\ Unlock(r)
      BY <1>6, <2>2 DEF CutFails, Unlock, SlipsAreWhole, LocksHeld, StripOwned, TypeOK, request, InProgress, Holding, Printing, Failed
    <2>3. CASE at' = [at EXCEPT ![r] = "hung"] /\ UNCHANGED lock
      BY <1>6, <2>3 DEF CutFails, SlipsAreWhole, LocksHeld, StripOwned, TypeOK, request, InProgress, Holding, Printing, Failed
    <2> QED BY <1>6, <2>1, <2>2, <2>3 DEF CutFails, CallFails, Hangs
  <1>7. ASSUME NEW r \in Requests, DrawerOpened(r)
        PROVE SlipsAreWhole'
    BY <1>7 DEF DrawerOpened, Unlock, SlipsAreWhole, LocksHeld, StripOwned, TypeOK, InProgress, Holding, Printing, Failed, request
  <1>8. ASSUME NEW r \in Requests, DrawerFails(r)
        PROVE SlipsAreWhole'
    <2>1. CASE attempt[r] = 1 /\ at' = [at EXCEPT ![r] = "rekick"] /\ UNCHANGED lock
      BY <1>8, <2>1 DEF DrawerFails, SlipsAreWhole, LocksHeld, StripOwned, TypeOK, request, InProgress, Holding, Printing, Failed
    <2>2. CASE attempt[r] = 2 /\ at' = [at EXCEPT ![r] = "error"] /\ Unlock(r)
      BY <1>8, <2>2 DEF DrawerFails, Unlock, SlipsAreWhole, LocksHeld, StripOwned, TypeOK, request, InProgress, Holding, Printing, Failed
    <2>3. CASE at' = [at EXCEPT ![r] = "hung"] /\ UNCHANGED lock
      BY <1>8, <2>3 DEF DrawerFails, SlipsAreWhole, LocksHeld, StripOwned, TypeOK, request, InProgress, Holding, Printing, Failed
    <2> QED BY <1>8, <2>1, <2>2, <2>3 DEF DrawerFails, CallFails, Hangs
  <1>9. ASSUME NEW r \in Requests, Reconnect(r)
        PROVE SlipsAreWhole'
    BY <1>9 DEF Reconnect, SlipsAreWhole, LocksHeld, StripOwned, TypeOK, InProgress, Holding, Printing, Failed, request, paper
  <1>10. ASSUME NEW r \in Requests, ReconnectFails(r)
        PROVE SlipsAreWhole'
    BY <1>10 DEF ReconnectFails, Unlock, SlipsAreWhole, LocksHeld, StripOwned, TypeOK, InProgress, Holding, Printing, Failed, request, paper
  <1>11. ASSUME NEW r \in Requests, ReconnectHangs(r)
        PROVE SlipsAreWhole'
    BY <1>11 DEF ReconnectHangs, Hangs, SlipsAreWhole, LocksHeld, StripOwned, TypeOK, InProgress, Holding, Printing, Failed, request, paper
  <1>12. CASE TrayReconnects
    BY <1>12 DEF TrayReconnects, SlipsAreWhole, LocksHeld, StripOwned, TypeOK, InProgress, Holding, Printing, Failed, request, paper
  <1>13. CASE Restart
    BY <1>13 DEF Restart, SlipsAreWhole, LocksHeld, StripOwned, TypeOK, InProgress, Holding, Printing, Failed, request, paper
  <1>14. CASE UNCHANGED vars
    BY <1>14 DEF vars, request, paper, SlipsAreWhole, LocksHeld, StripOwned, TypeOK, InProgress, Holding, Printing, Failed
  <1> QED
    BY <1>1, <1>2, <1>3, <1>4, <1>5, <1>6, <1>7, <1>8, <1>9, <1>10, <1>11, <1>12, <1>13, <1>14
    DEF Next, Step

-----------------------------------------------------------------------------
(* The theorems                                                              *)

(* The invariant holds in the initial state. *)
LEMMA InitHolds ==
  ASSUME Init
  PROVE IInv
  <1> USE HandlesAssumption DEF Init, Handles, Kinds, States
  <1>1. TypeOK
    BY DEF TypeOK
  <1>2. LocksHeld /\ StripOwned /\ SlipsAreWhole
    BY DEF LocksHeld, StripOwned, SlipsAreWhole, InProgress, Holding, Printing
  <1>3. WorkInOrder /\ OkMeansDone /\ DrawerAfterReceipt
    BY DEF WorkInOrder, OkMeansDone, DrawerAfterReceipt, Printing
  <1>4. Counted /\ AtMostTwice
    BY DEF Counted, AtMostTwice, Printing
  <1> QED BY <1>1, <1>2, <1>3, <1>4 DEF IInv

(* IInv is an invariant: every part is kept by every step. *)
THEOREM InvariantHolds == Spec => []IInv
  <1>1. Init => IInv
    BY InitHolds
  <1>2. IInv /\ [Next]_vars => IInv'
    BY TypeStep, LocksStep, StripStep, SlipsStep, OrderStep, DoneStep, DrawerStep, CountStep
       DEF IInv
  <1> QED BY <1>1, <1>2, PTL DEF Spec

(* The variables keep their types. *)
THEOREM TypeCorrect == Spec => []TypeOK
  <1>1. IInv => TypeOK
    BY DEF IInv
  <1> QED BY <1>1, InvariantHolds, PTL

(* Receipts share a slip only if one of them failed or was overtaken by the
   tray's new printer (escpos_client.py: the lock). *)
THEOREM ReceiptsAreWhole == Spec => []SlipsAreWhole
  <1>1. IInv => SlipsAreWhole
    BY DEF IInv
  <1> QED BY <1>1, InvariantHolds, PTL

(* A request answered ok has printed, cut and kicked what it asked (agent.py). *)
THEOREM AnswersAreTrue == Spec => []OkMeansDone
  <1>1. IInv => OkMeansDone
    BY DEF IInv
  <1> QED BY <1>1, InvariantHolds, PTL

(* A cash sale's drawer opens after its receipt has been cut off (agent.py
   print_endpoint). *)
THEOREM DrawerOpensLast == Spec => []DrawerAfterReceipt
  <1>1. IInv => DrawerAfterReceipt
    BY DEF IInv
  <1> QED BY <1>1, InvariantHolds, PTL

(* No text or drawer pulse comes a third time (escpos_client.py: one reconnect). *)
THEOREM PrintedAtMostTwice == Spec => []AtMostTwice
  <1>1. IInv => AtMostTwice
    BY DEF IInv
  <1> QED BY <1>1, InvariantHolds, PTL

=============================================================================
