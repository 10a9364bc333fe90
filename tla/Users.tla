------------------------------- MODULE Users ------------------------------
(***************************************************************************)
(* Users and their sessions: pos_service/auth.py, routes/auth.py,          *)
(* routes/admin_users.py and the create-user command.                      *)
(*                                                                         *)
(* These handlers are plain functions on the thread pool.  Each loads its  *)
(* rows, hashes or verifies a password, which takes a fraction of a        *)
(* second, and commits.  The commit updates only the columns whose value   *)
(* differs from the loaded one, so it can mix with a commit that came      *)
(* between: reading and writing are two actions here.                      *)
(***************************************************************************)
EXTENDS Naturals, FiniteSets

CONSTANTS
  Usernames,
  Seeded,    \* the user the migration creates
  Nobody,
  Tokens,    \* session tokens that may be live at the same time
  Threads    \* pool threads, and the create-user command

ASSUME UsersAssumption == Seeded \in Usernames /\ Nobody \notin Usernames
ASSUME FiniteAssumption == IsFiniteSet(Usernames)

VARIABLES
  user,      \* pos_users: the row of each username
  session,   \* pos_sessions: the username of each live token
  thread,    \* what each thread has read and is about to write
  outdated,  \* history: was a user deactivated on a count that had gone down?
  crossed    \* history: users whose reset was written over a changed row

vars == <<user, session, thread, outdated, crossed>>

Free == [op |-> "free", target |-> Nobody, must |-> FALSE, active |-> 0]

\* Passwords are told apart by who chose them: an admin for the user ("temp"),
\* or the user ("own").
NoRow == [exists |-> FALSE, active |-> FALSE, must |-> FALSE, pw |-> "none"]
NewRow(force) ==
  [exists |-> TRUE, active |-> TRUE, must |-> force, pw |-> IF force THEN "temp" ELSE "own"]

Init ==
  /\ user = [u \in Usernames |-> IF u = Seeded THEN NewRow(TRUE) ELSE NoRow]
  /\ session = [t \in Tokens |-> Nobody]
  /\ thread = [k \in Threads |-> Free]
  /\ outdated = FALSE
  /\ crossed = {}

Active == {u \in Usernames : user[u].active}

Busy(k, op) == thread[k].op = op

\* A handler has loaded u's row, or counted the active users, and gone on to
\* its password work or its commit.
Reads(k, op, u, must, active) ==
  /\ Busy(k, "free")
  /\ thread' = [thread EXCEPT ![k] =
       [op |-> op, target |-> u, must |-> must, active |-> active]]
  /\ UNCHANGED <<user, session, outdated, crossed>>

Finishes(k) == thread' = [thread EXCEPT ![k] = Free]

\* get_auth: the request carries a live token of an active user.  The user
\* routes do not ask for get_current_user, so must_change_password is no bar.
Authenticated(u) == u \in Active /\ \E t \in Tokens : session[t] = u

-----------------------------------------------------------------------------
(* Sessions                                                                  *)

LoginReads(k, u) == u \in Active /\ Reads(k, "login", u, FALSE, 0)

CreateSession(k, t) ==
  /\ Busy(k, "login")
  /\ session[t] = Nobody
  /\ session' = [session EXCEPT ![t] = thread[k].target]
  /\ Finishes(k)
  /\ UNCHANGED <<user, outdated, crossed>>

\* logout deletes the token's row; an expired one is as good as deleted.
RevokeSession(t) ==
  /\ session[t] # Nobody
  /\ session' = [session EXCEPT ![t] = Nobody]
  /\ UNCHANGED <<user, thread, outdated, crossed>>

-----------------------------------------------------------------------------
(* create_user and the create-user command                                   *)

\* The command is told whether the password must be changed; the route, which
\* needs an authenticated user, forces it.
CreateReads(k, u) ==
  /\ ~ user[u].exists
  /\ \/ \E a \in Usernames : Authenticated(a) /\ Reads(k, "create", u, FALSE, 0)
     \/ \E op \in {"command", "command_forced"} : Reads(k, op, u, FALSE, 0)

\* Mutant of InsertUser: the row is merged into one that is there.
MergeUser(k) ==
  /\ thread[k].op \in {"create", "command", "command_forced"}
  /\ user' = [user EXCEPT ![thread[k].target] = NewRow(thread[k].op # "command")]
  /\ Finishes(k)
  /\ UNCHANGED <<session, outdated, crossed>>

\* The primary key refuses a row that came between (IntegrityError).
InsertUser(k) ==
  /\ thread[k].op \in {"create", "command", "command_forced"}
  /\ user' = IF user[thread[k].target].exists
               THEN user
               ELSE [user EXCEPT ![thread[k].target] = NewRow(thread[k].op # "command")]
  /\ Finishes(k)
  /\ UNCHANGED <<session, outdated, crossed>>

-----------------------------------------------------------------------------
(* deactivate_user: never oneself, never the last one counted                *)

\* The session was checked and the row loaded: active, or there is nothing to do.
DeactivateReads(k, a, u) ==
  /\ Authenticated(a) /\ a # u
  /\ u \in Active
  /\ Reads(k, "count", u, FALSE, 0)

Counts(k) ==
  /\ thread' = [thread EXCEPT ![k] =
       [op |-> "deactivate", target |-> thread[k].target, must |-> FALSE,
        active |-> Cardinality(Active)]]
  /\ UNCHANGED <<user, session, outdated, crossed>>

\* Mutant of CountActive: any count will do, since the caller is active too.
CountAnyActive(k) == Busy(k, "count") /\ Counts(k)

\* Refused if that user is the last, as when the caller is deactivated by now.
CountActive(k) ==
  /\ Busy(k, "count")
  /\ \/ Cardinality(Active) > 1 /\ Counts(k)
     \/ /\ Cardinality(Active) <= 1
        /\ Finishes(k)
        /\ UNCHANGED <<user, session, outdated, crossed>>

Deactivate(k) ==
  /\ Busy(k, "deactivate")
  /\ user' = [user EXCEPT ![thread[k].target].active = FALSE]
  /\ outdated' = (outdated \/ Cardinality(Active) < thread[k].active)
  /\ Finishes(k)
  /\ UNCHANGED <<session, crossed>>

-----------------------------------------------------------------------------
(* Passwords                                                                 *)

\* A commit writes must_change_password only when it differs from what was read.
WritesMust(k, b, u) == IF thread[k].must = b THEN user[u].must ELSE b

ChangeReads(k, u) == Authenticated(u) /\ Reads(k, "change", u, user[u].must, 0)

ChangePassword(k) ==
  /\ Busy(k, "change")
  /\ LET u == thread[k].target IN
       user' = [user EXCEPT ![u].pw = "own", ![u].must = WritesMust(k, FALSE, u)]
  /\ Finishes(k)
  /\ UNCHANGED <<session, outdated, crossed>>

ResetReads(k, a, u) ==
  /\ Authenticated(a) /\ a # u
  /\ user[u].exists
  /\ Reads(k, "reset", u, user[u].must, 0)

\* Mutant of ResetPassword: the flag is left as it is.
ResetUnforced(k) ==
  /\ Busy(k, "reset")
  /\ user' = [user EXCEPT ![thread[k].target].pw = "temp"]
  /\ Finishes(k)
  /\ UNCHANGED <<session, outdated, crossed>>

ResetPassword(k) ==
  /\ Busy(k, "reset")
  /\ LET u == thread[k].target IN
       /\ user' = [user EXCEPT ![u].pw = "temp", ![u].must = WritesMust(k, TRUE, u)]
       /\ crossed' = IF user[u].must # thread[k].must THEN crossed \cup {u} ELSE crossed
  /\ Finishes(k)
  /\ UNCHANGED <<session, outdated>>

-----------------------------------------------------------------------------
\* The process stops: nothing of a handler's work is committed.
Dies(k) ==
  /\ ~ Busy(k, "free")
  /\ Finishes(k)
  /\ UNCHANGED <<user, session, outdated, crossed>>

Writes(k) == InsertUser(k) \/ Deactivate(k) \/ ChangePassword(k) \/ ResetPassword(k)

Next ==
  \/ \E k \in Threads : CountActive(k) \/ Writes(k) \/ Dies(k)
  \/ \E k \in Threads, t \in Tokens : CreateSession(k, t)
  \/ \E t \in Tokens : RevokeSession(t)
  \/ \E k \in Threads, u \in Usernames :
       LoginReads(k, u) \/ CreateReads(k, u) \/ ChangeReads(k, u)
  \/ \E k \in Threads, a, u \in Usernames : DeactivateReads(k, a, u) \/ ResetReads(k, a, u)

Spec == Init /\ [][Next]_vars

-----------------------------------------------------------------------------
(* Properties                                                                *)

Ops == {"free", "login", "create", "command", "command_forced", "count", "deactivate", "change", "reset"}

TypeOK ==
  /\ user \in [Usernames -> [exists : BOOLEAN, active : BOOLEAN, must : BOOLEAN,
                             pw : {"none", "temp", "own"}]]
  /\ session \in [Tokens -> Usernames \cup {Nobody}]
  /\ thread \in [Threads -> [op : Ops, target : Usernames \cup {Nobody}, must : BOOLEAN,
                             active : Nat]]
  /\ \A k \in Threads : Busy(k, "free") <=> thread[k].target = Nobody
  /\ outdated \in BOOLEAN
  /\ crossed \subseteq Usernames

\* What keeps somebody in: a deactivation under way has counted two users.
Counted ==
  \A k \in Threads : Busy(k, "deactivate") => thread[k].active > 1

\* Somebody can always log in, but for deactivations that were counted before
\* and written after another one: the guard on the last user is a read.
SomeoneCanLogIn == Active # {} \/ outdated

\* A deactivated username stays deactivated: no creation, however it overlaps
\* with others of the same name, brings it back.
DeactivatedForGood ==
  [][\A u \in Usernames : user[u].exists /\ ~ user[u].active => ~ user'[u].active]_vars

\* A password somebody else chose must be changed before it sells anything, but
\* for a reset that was read before and written after the user's own change.
TempPasswordIsForced ==
  \A u \in Usernames : user[u].pw = "temp" => user[u].must \/ u \in crossed

=============================================================================
