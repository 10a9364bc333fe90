---------------------------- MODULE UsersProofs ----------------------------
(***************************************************************************)
(* Users keeps its types, keeps somebody able to log in, brings no user    *)
(* back and forces issued passwords to be changed, within the limits the   *)
(* properties state, for any users, tokens and threads.                    *)
(***************************************************************************)
EXTENDS Users, FiniteSetTheorems, TLAPS

Rows == [exists : BOOLEAN, active : BOOLEAN, must : BOOLEAN, pw : {"none", "temp", "own"}]
Notes == [op : Ops, target : Usernames \cup {Nobody}, must : BOOLEAN, active : Nat]

LEMMA CountIsNat == Cardinality(Active) \in Nat
  <1>1. IsFiniteSet(Active)
    BY FiniteAssumption, FS_Subset DEF Active
  <1> QED BY <1>1, FS_CardinalityType

(* A read takes a note and changes nothing else.                             *)
LEMMA ReadStep ==
  ASSUME NEW k \in Threads, NEW u \in Usernames,
         \/ LoginReads(k, u) \/ CreateReads(k, u) \/ ChangeReads(k, u)
         \/ \E a \in Usernames : DeactivateReads(k, a, u) \/ ResetReads(k, a, u),
         TypeOK
  PROVE /\ UNCHANGED <<user, session, outdated, crossed>>
        /\ \E note \in Notes :
             /\ note.op # "free" /\ note.target # Nobody
             /\ note.op = "deactivate" => note.active > 1
             /\ thread' = [thread EXCEPT ![k] = note]
  <1>1. user[u].must \in BOOLEAN
    BY DEF TypeOK
  <1>2. ASSUME NEW op \in Ops \ {"free", "deactivate"}, NEW must \in BOOLEAN,
               Reads(k, op, u, must, 0)
        PROVE /\ UNCHANGED <<user, session, outdated, crossed>>
              /\ \E note \in Notes :
                   /\ note.op # "free" /\ note.target # Nobody
                   /\ note.op = "deactivate" => note.active > 1
                   /\ thread' = [thread EXCEPT ![k] = note]
    <2> DEFINE note == [op |-> op, target |-> u, must |-> must, active |-> 0]
    <2>1. note \in Notes /\ note.op # "free" /\ note.op # "deactivate" /\ note.target # Nobody
      BY UsersAssumption DEF Notes
    <2> QED BY <1>2, <2>1 DEF Reads
  <1>3. CASE LoginReads(k, u)
    BY <1>2, <1>3 DEF LoginReads, Ops
  <1>4. CASE CreateReads(k, u)
    BY <1>2, <1>4 DEF CreateReads, Ops
  <1>5. CASE ChangeReads(k, u)
    BY <1>1, <1>2, <1>5 DEF ChangeReads, Ops
  <1>6. CASE \E a \in Usernames : ResetReads(k, a, u)
    BY <1>1, <1>2, <1>6 DEF ResetReads, Ops
  <1>7. CASE \E a \in Usernames : DeactivateReads(k, a, u)
    BY <1>2, <1>7 DEF DeactivateReads, Ops
  <1> QED BY <1>3, <1>4, <1>5, <1>6, <1>7

(* A count is noted if it exceeds one, and the request refused otherwise.     *)
LEMMA CountStep ==
  ASSUME NEW k \in Threads, CountActive(k), TypeOK
  PROVE \/ Dies(k)
        \/ /\ UNCHANGED <<user, session, outdated, crossed>>
           /\ \E note \in Notes :
                /\ note.op # "free" /\ note.target # Nobody
                /\ note.op = "deactivate" => note.active > 1
                /\ thread' = [thread EXCEPT ![k] = note]
  <1>1. Busy(k, "count") /\ ~ Busy(k, "free")
    BY DEF CountActive, Busy
  <1>2. CASE Cardinality(Active) > 1 /\ Counts(k)
    <2> DEFINE note == [op |-> "deactivate", target |-> thread[k].target,
                        must |-> FALSE, active |-> Cardinality(Active)]
    <2>1. note \in Notes
      BY CountIsNat DEF Notes, Ops, TypeOK
    <2>2. note.op # "free" /\ note.target # Nobody /\ note.active > 1
      BY <1>1, <1>2 DEF TypeOK
    <2>3. thread' = [thread EXCEPT ![k] = note]
      BY <1>2 DEF Counts
    <2> HIDE DEF note
    <2> QED BY <1>2, <2>1, <2>2, <2>3 DEF Counts
  <1>3. CASE Finishes(k) /\ UNCHANGED <<user, session, outdated, crossed>>
    BY <1>1, <1>3 DEF Dies
  <1> QED BY <1>2, <1>3 DEF CountActive

(* Each step takes a note, or is a commit, a login, a logout or a death.              *)
LEMMA StepCases ==
  ASSUME TypeOK, [Next]_vars
  PROVE \/ \E k \in Threads : Writes(k) \/ Dies(k)
        \/ \E k \in Threads, t \in Tokens : CreateSession(k, t)
        \/ \E t \in Tokens : RevokeSession(t)
        \/ /\ UNCHANGED <<user, session, outdated, crossed>>
           /\ \E k \in Threads, note \in Notes :
                /\ note.op # "free" /\ note.target # Nobody
                /\ note.op = "deactivate" => note.active > 1
                /\ thread' = [thread EXCEPT ![k] = note]
        \/ UNCHANGED vars
  BY ReadStep, CountStep DEF Next

-----------------------------------------------------------------------------
(* Types                                                                     *)

LEMMA TypeInit == Init => TypeOK
  <1> SUFFICES ASSUME Init PROVE TypeOK
    OBVIOUS
  <1>1. user \in [Usernames -> Rows]
    BY DEF Init, NewRow, NoRow, Rows
  <1>2. Free \in Notes
    BY DEF Free, Notes, Ops
  <1> QED BY <1>1, <1>2 DEF Init, TypeOK, Rows, Notes, Busy, Free

LEMMA FinishOK ==
  ASSUME TypeOK, NEW k \in Threads, Finishes(k)
  PROVE /\ thread' \in [Threads -> Notes]
        /\ \A j \in Threads : Busy(j, "free")' <=> thread'[j].target = Nobody
  <1>1. Free \in Notes
    BY DEF Free, Notes, Ops
  <1> QED BY <1>1 DEF Finishes, TypeOK, Notes, Busy, Free

LEMMA BusyTarget ==
  ASSUME TypeOK, NEW k \in Threads, ~ Busy(k, "free")
  PROVE thread[k].target \in Usernames
  BY DEF TypeOK

LEMMA CommitOK ==
  ASSUME TypeOK, NEW k \in Threads, Writes(k)
  PROVE /\ Finishes(k) /\ UNCHANGED session
        /\ thread[k].target \in Usernames
        /\ user' \in [Usernames -> Rows]
        /\ outdated' \in BOOLEAN
        /\ crossed' \subseteq Usernames
  <1>1. ~ Busy(k, "free")
    BY DEF Writes, InsertUser, Deactivate, ChangePassword, ResetPassword, Busy
  <1>2. thread[k].target \in Usernames
    BY <1>1, BusyTarget
  <1>3. NewRow(thread[k].op # "command") \in Rows
    BY DEF NewRow, Rows
  <1>4. user \in [Usernames -> Rows]
    BY DEF TypeOK, Rows
  <1>5. \A b \in BOOLEAN : WritesMust(k, b, thread[k].target) \in BOOLEAN
    BY <1>2 DEF TypeOK, WritesMust
  <1>6. user' \in [Usernames -> Rows]
    <2>1. CASE InsertUser(k)
      BY <2>1, <1>2, <1>3, <1>4 DEF InsertUser
    <2>2. CASE Deactivate(k)
      BY <2>2, <1>2, <1>4 DEF Deactivate, Rows
    <2>3. CASE ChangePassword(k)
      BY <2>3, <1>2, <1>4, <1>5 DEF ChangePassword, Rows
    <2>4. CASE ResetPassword(k)
      BY <2>4, <1>2, <1>4, <1>5 DEF ResetPassword, Rows
    <2> QED BY <2>1, <2>2, <2>3, <2>4 DEF Writes
  <1>7. outdated' \in BOOLEAN
    BY DEF TypeOK, Writes, InsertUser, Deactivate, ChangePassword, ResetPassword
  <1>8. crossed' \subseteq Usernames
    BY <1>2 DEF TypeOK, Writes, InsertUser, Deactivate, ChangePassword, ResetPassword
  <1>9. Finishes(k) /\ UNCHANGED session
    BY DEF Writes, InsertUser, Deactivate, ChangePassword, ResetPassword
  <1> QED BY <1>2, <1>6, <1>7, <1>8, <1>9

LEMMA TypeStep == TypeOK /\ [Next]_vars => TypeOK'
  <1> SUFFICES ASSUME TypeOK, [Next]_vars PROVE TypeOK'
    OBVIOUS
  <1>1. ASSUME NEW k \in Threads, Writes(k) PROVE TypeOK'
    BY <1>1, CommitOK, FinishOK DEF TypeOK, Rows, Notes
  <1>2. ASSUME NEW k \in Threads, Dies(k) PROVE TypeOK'
    BY <1>2, FinishOK DEF Dies, TypeOK, Notes
  <1>3. ASSUME NEW k \in Threads, NEW t \in Tokens, CreateSession(k, t) PROVE TypeOK'
    <2>1. thread[k].target \in Usernames
      BY <1>3, BusyTarget DEF CreateSession, Busy
    <2> QED BY <1>3, <2>1, FinishOK DEF CreateSession, TypeOK, Notes
  <1>4. ASSUME NEW t \in Tokens, RevokeSession(t) PROVE TypeOK'
    BY <1>4 DEF RevokeSession, TypeOK, Busy
  <1>5. ASSUME UNCHANGED <<user, session, outdated, crossed>>,
               NEW k \in Threads, NEW note \in Notes, note.op # "free", note.target # Nobody,
               thread' = [thread EXCEPT ![k] = note]
        PROVE TypeOK'
    BY <1>5 DEF TypeOK, Notes, Busy
  <1>6. CASE UNCHANGED vars
    BY <1>6 DEF vars, TypeOK, Busy
  <1> QED BY <1>1, <1>2, <1>3, <1>4, <1>5, <1>6, StepCases

(* The user tables keep their types.                                         *)
THEOREM TypeCorrect == Spec => []TypeOK
  <1> QED BY TypeInit, TypeStep, PTL DEF Spec

-----------------------------------------------------------------------------
(* Somebody can log in                                                       *)

Kept == Counted /\ SomeoneCanLogIn

LEMMA CountedStep == TypeOK /\ Counted /\ [Next]_vars => Counted'
  <1> SUFFICES ASSUME TypeOK, Counted, [Next]_vars,
                      NEW j \in Threads, thread'[j].op = "deactivate"
               PROVE thread'[j].active > 1
    BY DEF Counted, Busy
  <1>1. ASSUME NEW k \in Threads, Finishes(k) PROVE thread'[j].active > 1
    BY <1>1 DEF Finishes, Free, Counted, Busy, TypeOK
  <1>2. ASSUME NEW k \in Threads, Writes(k) \/ Dies(k) PROVE thread'[j].active > 1
    BY <1>1, <1>2, CommitOK DEF Dies
  <1>3. ASSUME NEW k \in Threads, NEW t \in Tokens, CreateSession(k, t)
        PROVE thread'[j].active > 1
    BY <1>1, <1>3 DEF CreateSession
  <1>4. ASSUME UNCHANGED thread PROVE thread'[j].active > 1
    BY <1>4 DEF Counted, Busy
  <1>5. ASSUME NEW k \in Threads, NEW note \in Notes,
               note.op = "deactivate" => note.active > 1,
               thread' = [thread EXCEPT ![k] = note]
        PROVE thread'[j].active > 1
    BY <1>5 DEF Counted, Busy, TypeOK
  <1> QED BY <1>2, <1>3, <1>4, <1>5, StepCases DEF RevokeSession, vars

(* Who deactivates one of several active users leaves one.                   *)
LEMMA OneLeft ==
  ASSUME NEW u, Cardinality(Active) > 1 PROVE Active \ {u} # {}
  <1> SUFFICES ASSUME Active \ {u} = {} PROVE FALSE
    OBVIOUS
  <1>1. Active = {} \/ Active = {u}
    OBVIOUS
  <1>2. Cardinality({}) = 0
    BY FS_EmptySet
  <1>3. Cardinality({u}) = 1
    BY FS_Singleton
  <1>4. CASE Active = {}
    BY <1>2, <1>4, SMT
  <1>5. CASE Active = {u}
    BY <1>3, <1>5, SMT
  <1> QED BY <1>1, <1>4, <1>5

LEMMA SomeoneStep == TypeOK /\ Kept /\ [Next]_vars => SomeoneCanLogIn'
  <1> SUFFICES ASSUME TypeOK, Kept, [Next]_vars PROVE SomeoneCanLogIn'
    OBVIOUS
  <1>1. ASSUME UNCHANGED <<user, outdated>> PROVE SomeoneCanLogIn'
    BY <1>1 DEF Kept, SomeoneCanLogIn, Active
  <1>2. ASSUME NEW k \in Threads, InsertUser(k) \/ ChangePassword(k) \/ ResetPassword(k)
        PROVE SomeoneCanLogIn'
    <2>1. Writes(k)
      BY <1>2 DEF Writes
    <2>2. thread[k].target \in Usernames /\ UNCHANGED outdated
      BY <1>2, <2>1, CommitOK DEF InsertUser, ChangePassword, ResetPassword
    <2>3. \A u \in Usernames : user[u].active => user'[u].active
      BY <1>2, <2>2 DEF InsertUser, ChangePassword, ResetPassword, NewRow, TypeOK
    <2> QED BY <2>2, <2>3 DEF Kept, SomeoneCanLogIn, Active
  <1>3. ASSUME NEW k \in Threads, Deactivate(k) PROVE SomeoneCanLogIn'
    <2>1. thread[k].active > 1 /\ thread[k].active \in Nat
      BY <1>3 DEF Deactivate, Kept, Counted, TypeOK
    <2>2. CASE Cardinality(Active) < thread[k].active
      BY <1>3, <2>2 DEF Deactivate, SomeoneCanLogIn
    <2>3. CASE ~ (Cardinality(Active) < thread[k].active)
      <3>1. Cardinality(Active) > 1
        BY <2>1, <2>3, CountIsNat
      <3>2. PICK u \in Active : u # thread[k].target
        BY <3>1, OneLeft
      <3>3. u \in Usernames /\ user'[u].active
        BY <1>3, <3>2 DEF Deactivate, Active, TypeOK
      <3> QED BY <3>3 DEF SomeoneCanLogIn, Active
    <2> QED BY <2>2, <2>3
  <1>4. \/ UNCHANGED <<user, outdated>>
        \/ \E k \in Threads : Writes(k)
    BY StepCases DEF Dies, CreateSession, RevokeSession, vars
  <1> QED BY <1>1, <1>2, <1>3, <1>4 DEF Writes

(* Only a deactivation counted before another one's commit locks all out.    *)
THEOREM SomeoneAlwaysCanLogIn == Spec => []SomeoneCanLogIn
  <1>1. Init => Kept
    BY UsersAssumption
       DEF Init, Kept, Counted, SomeoneCanLogIn, Active, Busy, Free, NewRow
  <1>2. TypeOK /\ Kept /\ [Next]_vars => Kept'
    BY CountedStep, SomeoneStep DEF Kept
  <1>3. Kept => SomeoneCanLogIn
    BY DEF Kept
  <1> QED BY <1>1, <1>2, <1>3, TypeCorrect, PTL DEF Spec

-----------------------------------------------------------------------------
(* Deactivation is for good, and issued passwords are changed                *)

(* No step brings a deactivated user back.                                   *)
THEOREM NobodyComesBack == Spec => DeactivatedForGood
  <1>1. ASSUME TypeOK, [Next]_vars, NEW u \in Usernames, user[u].exists, ~ user[u].active
        PROVE ~ user'[u].active
    <2>1. ASSUME NEW k \in Threads, Writes(k) PROVE ~ user'[u].active
      <3>1. thread[k].target \in Usernames
        BY <1>1, <2>1, CommitOK
      <3>2. CASE InsertUser(k)
        BY <1>1, <3>1, <3>2 DEF InsertUser, TypeOK
      <3>3. CASE Deactivate(k)
        BY <1>1, <3>1, <3>3 DEF Deactivate, TypeOK
      <3>4. CASE ChangePassword(k)
        BY <1>1, <3>1, <3>4 DEF ChangePassword, TypeOK
      <3>5. CASE ResetPassword(k)
        BY <1>1, <3>1, <3>5 DEF ResetPassword, TypeOK
      <3> QED BY <2>1, <3>2, <3>3, <3>4, <3>5 DEF Writes
    <2>2. CASE UNCHANGED user
      BY <1>1, <2>2
    <2> QED BY <1>1, <2>1, <2>2, StepCases DEF Dies, CreateSession, RevokeSession, vars
  <1>2. TypeOK /\ [Next]_vars =>
          [\A u \in Usernames : user[u].exists /\ ~ user[u].active => ~ user'[u].active]_vars
    BY <1>1
  <1> QED BY <1>2, TypeCorrect, PTL DEF Spec, DeactivatedForGood

LEMMA ForcedStep == TypeOK /\ TempPasswordIsForced /\ [Next]_vars => TempPasswordIsForced'
  <1> SUFFICES ASSUME TypeOK, TempPasswordIsForced, [Next]_vars,
                      NEW u \in Usernames, user'[u].pw = "temp", u \notin crossed'
               PROVE user'[u].must
    BY DEF TempPasswordIsForced
  <1>1. CASE user'[u] = user[u] /\ crossed \subseteq crossed'
    BY <1>1 DEF TempPasswordIsForced
  <1>2. ASSUME NEW k \in Threads, Writes(k) PROVE user'[u].must
    <2>1. thread[k].target \in Usernames
      BY <1>2, CommitOK
    <2>2. crossed \subseteq crossed'
      BY <1>2 DEF Writes, InsertUser, Deactivate, ChangePassword, ResetPassword
    <2>3. CASE thread[k].target # u
      <3>1. user'[u] = user[u]
        BY <1>2, <2>1, <2>3
           DEF Writes, InsertUser, Deactivate, ChangePassword, ResetPassword, TypeOK
      <3> QED BY <3>1, <2>2, <1>1
    <2>4. CASE InsertUser(k) /\ thread[k].target = u
      <3>1. user'[u] = user[u] \/ user'[u] = NewRow(thread[k].op # "command")
        BY <2>1, <2>4 DEF InsertUser, TypeOK
      <3>2. CASE user'[u] = NewRow(thread[k].op # "command")
        <4>1. CASE thread[k].op = "command"
          <5>1. user'[u].pw = "own"
            BY <3>2, <4>1 DEF NewRow
          <5> QED BY <5>1
        <4>2. CASE thread[k].op # "command"
          <5>1. (thread[k].op # "command") = TRUE
            BY <4>2
          <5>2. user'[u].must = (thread[k].op # "command")
            BY <3>2 DEF NewRow
          <5> QED BY <5>1, <5>2
        <4> QED BY <4>1, <4>2
      <3> QED BY <3>1, <3>2, <2>2, <1>1
    <2>5. CASE Deactivate(k) /\ thread[k].target = u
      <3>1. user'[u].must = user[u].must /\ user'[u].pw = user[u].pw
        BY <2>1, <2>5 DEF Deactivate, TypeOK
      <3> QED BY <3>1, <2>2 DEF TempPasswordIsForced
    <2>6. CASE ChangePassword(k) /\ thread[k].target = u
      <3>1. user'[u].pw = "own"
        BY <2>1, <2>6 DEF ChangePassword, TypeOK
      <3> QED BY <3>1
    <2>7. CASE ResetPassword(k) /\ thread[k].target = u
      <3>1. user[u].must = thread[k].must
        BY <2>7 DEF ResetPassword
      <3>2. user'[u].must = WritesMust(k, TRUE, u)
        BY <2>7 DEF ResetPassword, TypeOK
      <3>3. thread[k].must \in BOOLEAN
        BY DEF TypeOK
      <3> QED BY <3>1, <3>2, <3>3 DEF WritesMust
    <2> QED BY <1>2, <2>3, <2>4, <2>5, <2>6, <2>7 DEF Writes
  <1>3. CASE UNCHANGED <<user, crossed>>
    BY <1>1, <1>3
  <1> QED BY <1>2, <1>3, StepCases DEF Dies, CreateSession, RevokeSession, vars

(* Only a reset written over the user's own change leaves a password that    *)
(* need not be changed.                                                      *)
THEOREM TempPasswordsAreForced == Spec => []TempPasswordIsForced
  <1>1. Init => TempPasswordIsForced
    BY DEF Init, TempPasswordIsForced, NewRow, NoRow
  <1> QED BY <1>1, TypeCorrect, ForcedStep, PTL DEF Spec
=============================================================================
