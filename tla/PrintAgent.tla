----------------------------- MODULE PrintAgent -----------------------------
(***************************************************************************)
(* The print agent on the cashier's desktop (print_agent/agent.py and      *)
(* escpos_client.py).                                                      *)
(*                                                                         *)
(* The endpoints are plain "def" routes on a thread pool.  A request takes *)
(* the printer object (a handle: driver and lock) when it arrives and      *)
(* keeps it.  print_text and open_drawer hold the handle's lock over their *)
(* driver calls and reconnect once.  The tray's "Reconnect printer" closes *)
(* the driver without the lock and installs a new handle, with a lock of   *)
(* its own, on the same device.  Any driver call works, raises or never    *)
(* returns: one on a closed driver too, since python-escpos opens it again *)
(* and open_usb sets no timeout.                                           *)
(*                                                                         *)
(* What the device did is kept as well: the texts on the strip of paper    *)
(* since the last cut, the slips cut off, and the drawer.                  *)
(***************************************************************************)
EXTENDS Integers

CONSTANTS
  Requests,    \* requests to the agent; each is made once
  MaxHandles,  \* bound: printer objects, that is, reconnects and restarts
  None

\* POST /print with open_drawer_after; POST /print without it, and test prints;
\* POST /open-drawer.
Kinds == {"cash", "slip", "drawer"}

\* Where a request is: waiting for a lock, in a driver call, in a reconnect, in one
\* of these for ever, ended.
States == {"new", "print", "text", "cut", "reprint", "kick", "drawer", "rekick",
           "hung", "ok", "error", "lost"}

\* Printer objects, numbered as they are made.
Handles == 1 .. MaxHandles

ASSUME HandlesAssumption == MaxHandles \in Nat \ {0}
ASSUME NoneAssumption == None \notin Requests

VARIABLES
  printer,   \* the global _printer
  lock,      \* who holds the lock of each handle
  kind,      \* what each request asks
  at,        \* where it is
  handle,    \* the printer object it works on
  attempt,   \* 2 after a reconnect
  strip,     \* the requests with text on the paper since the last cut
  slips,     \* the pieces cut off: the requests with text on each
  copies,    \* how often each text has reached the paper, if only in part
  kicks,     \* how often each request has opened the drawer
  replaced   \* history: requests whose handle was replaced under them

request == <<kind, handle>>
paper == <<strip, slips, copies, kicks>>
vars == <<printer, lock, request, at, attempt, paper, replaced>>

\* _bootstrap_printer opened the device; without it the process does not start.
Init ==
  /\ printer = 1
  /\ lock = [p \in Handles |-> None]
  /\ kind = [r \in Requests |-> "slip"]
  /\ at = [r \in Requests |-> "new"]
  /\ handle = [r \in Requests |-> 1]
  /\ attempt = [r \in Requests |-> 1]
  /\ strip = {}
  /\ slips = {}
  /\ copies = [r \in Requests |-> 0]
  /\ kicks = [r \in Requests |-> 0]
  /\ replaced = {}

Printing(r) == at[r] \in {"text", "cut", "reprint"}
Holding(r) == Printing(r) \/ at[r] \in {"drawer", "rekick", "hung"}
InProgress(r) == Holding(r) \/ at[r] \in {"print", "kick"}
Failed(r) == at[r] \in {"error", "lost"}

Unlock(r) == lock' = [lock EXCEPT ![handle[r]] = None]

-----------------------------------------------------------------------------
(* A request                                                                 *)

\* Mutant of Arrive: the drawer is opened before the receipt is printed.
ArriveDrawerFirst(r, k) ==
  /\ at[r] = "new"
  /\ kind' = [kind EXCEPT ![r] = k]
  /\ at' = [at EXCEPT ![r] = IF k = "slip" THEN "print" ELSE "kick"]
  /\ handle' = [handle EXCEPT ![r] = printer]
  /\ UNCHANGED <<printer, lock, attempt, paper, replaced>>

\* get_printer is a dependency: the handle is taken before the lock is waited for.
Arrive(r, k) ==
  /\ at[r] = "new"
  /\ kind' = [kind EXCEPT ![r] = k]
  /\ at' = [at EXCEPT ![r] = IF k = "drawer" THEN "kick" ELSE "print"]
  /\ handle' = [handle EXCEPT ![r] = printer]
  /\ UNCHANGED <<printer, lock, attempt, paper, replaced>>

\* Mutant of TakeLock: nobody waits.
TakeLockAtOnce(r) ==
  /\ at[r] \in {"print", "kick"}
  /\ lock' = [lock EXCEPT ![handle[r]] = r]
  /\ at' = [at EXCEPT ![r] = IF at[r] = "print" THEN "text" ELSE "drawer"]
  /\ attempt' = [attempt EXCEPT ![r] = 1]
  /\ UNCHANGED <<request, printer, paper, replaced>>

\* print_text and open_drawer: "with self._lock".
TakeLock(r) ==
  /\ at[r] \in {"print", "kick"}
  /\ lock[handle[r]] = None
  /\ lock' = [lock EXCEPT ![handle[r]] = r]
  /\ at' = [at EXCEPT ![r] = IF at[r] = "print" THEN "text" ELSE "drawer"]
  /\ attempt' = [attempt EXCEPT ![r] = 1]
  /\ UNCHANGED <<request, printer, paper, replaced>>

TextWritten(r) ==
  /\ at[r] = "text"
  /\ strip' = strip \cup {r}
  /\ copies' = [copies EXCEPT ![r] = @ + 1]
  /\ at' = [at EXCEPT ![r] = "cut"]
  /\ UNCHANGED <<request, attempt, printer, lock, slips, kicks, replaced>>

\* The print is done; a cash receipt goes on to open_drawer.
CutDone(r) ==
  /\ at[r] = "cut"
  /\ slips' = slips \cup {strip}
  /\ strip' = {}
  /\ at' = [at EXCEPT ![r] = IF kind[r] = "cash" THEN "kick" ELSE "ok"]
  /\ Unlock(r)
  /\ UNCHANGED <<request, attempt, printer, copies, kicks, replaced>>

DrawerOpened(r) ==
  /\ at[r] = "drawer"
  /\ kicks' = [kicks EXCEPT ![r] = @ + 1]
  /\ at' = [at EXCEPT ![r] = "ok"]
  /\ Unlock(r)
  /\ UNCHANGED <<request, attempt, printer, strip, slips, copies, replaced>>

\* The call, or the reconnect, never returns; "with self._lock" never ends.
Hangs(r) == at' = [at EXCEPT ![r] = "hung"] /\ UNCHANGED lock

\* Mutant of CallFails: the second failure is logged and swallowed.
CallFailsOnce(r, repair) ==
  \/ attempt[r] = 1 /\ at' = [at EXCEPT ![r] = repair] /\ UNCHANGED lock
  \/ attempt[r] = 2 /\ at' = [at EXCEPT ![r] = "ok"] /\ Unlock(r)
  \/ Hangs(r)

\* A driver call raises, which leads to a reconnect after the first and to 503 after
\* the second, or it hangs.
CallFails(r, repair) ==
  \/ attempt[r] = 1 /\ at' = [at EXCEPT ![r] = repair] /\ UNCHANGED lock
  \/ attempt[r] = 2 /\ at' = [at EXCEPT ![r] = "error"] /\ Unlock(r)
  \/ Hangs(r)

\* A call that fails may have done its work, or for a text some of it.
TextFails(r) ==
  /\ at[r] = "text"
  /\ \/ UNCHANGED <<strip, copies>>
     \/ /\ strip' = strip \cup {r}
        /\ copies' = [copies EXCEPT ![r] = @ + 1]
  /\ CallFails(r, "reprint")
  /\ UNCHANGED <<request, attempt, printer, slips, kicks, replaced>>

CutFails(r) ==
  /\ at[r] = "cut"
  /\ \/ UNCHANGED <<strip, slips>>
     \/ strip' = {} /\ slips' = slips \cup {strip}
  /\ CallFails(r, "reprint")
  /\ UNCHANGED <<request, attempt, printer, copies, kicks, replaced>>

DrawerFails(r) ==
  /\ at[r] = "drawer"
  /\ \/ UNCHANGED kicks
     \/ kicks' = [kicks EXCEPT ![r] = @ + 1]
  /\ CallFails(r, "rekick")
  /\ UNCHANGED <<request, attempt, printer, strip, slips, copies, replaced>>

\* Mutant of Reconnect: the attempt is not counted.
ReconnectAgain(r) ==
  /\ at[r] \in {"reprint", "rekick"}
  /\ at' = [at EXCEPT ![r] = IF at[r] = "reprint" THEN "text" ELSE "drawer"]
  /\ UNCHANGED <<request, attempt, printer, lock, paper, replaced>>

\* _try_reconnect, under the lock; then the whole text is written again.
Reconnect(r) ==
  /\ at[r] \in {"reprint", "rekick"}
  /\ at' = [at EXCEPT ![r] = IF at[r] = "reprint" THEN "text" ELSE "drawer"]
  /\ attempt' = [attempt EXCEPT ![r] = 2]
  /\ UNCHANGED <<request, printer, lock, paper, replaced>>

\* Mutant of ReconnectFails: the lock is not released on this way out.
ReconnectFailsLocked(r) ==
  /\ at[r] \in {"reprint", "rekick"}
  /\ at' = [at EXCEPT ![r] = "error"]
  /\ UNCHANGED <<request, attempt, printer, lock, paper, replaced>>

\* The device cannot be opened: no second attempt.
ReconnectFails(r) ==
  /\ at[r] \in {"reprint", "rekick"}
  /\ at' = [at EXCEPT ![r] = "error"]
  /\ Unlock(r)
  /\ UNCHANGED <<request, attempt, printer, paper, replaced>>

ReconnectHangs(r) ==
  /\ at[r] \in {"reprint", "rekick"}
  /\ Hangs(r)
  /\ UNCHANGED <<request, attempt, printer, paper, replaced>>

-----------------------------------------------------------------------------
(* The tray                                                                  *)

\* _on_reconnect installs a new printer; if the device cannot be opened, the old
\* one stays.
TrayReconnects ==
  /\ printer < MaxHandles
  /\ printer' = printer + 1
  /\ replaced' = replaced \cup {r \in Requests : InProgress(r)}
  /\ UNCHANGED <<request, at, attempt, lock, paper>>

\* _on_quit ends the process; it is started again at the next logon.  The paper
\* keeps what is on it.
Restart ==
  /\ printer < MaxHandles
  /\ printer' = printer + 1
  /\ lock' = [p \in Handles |-> None]
  /\ at' = [r \in Requests |-> IF InProgress(r) THEN "lost" ELSE at[r]]
  /\ UNCHANGED <<request, attempt, paper, replaced>>

-----------------------------------------------------------------------------

\* A request that has arrived goes on until it ends or hangs.
Step(r) ==
  \/ TakeLock(r)
  \/ TextWritten(r) \/ TextFails(r)
  \/ CutDone(r) \/ CutFails(r)
  \/ DrawerOpened(r) \/ DrawerFails(r)
  \/ Reconnect(r) \/ ReconnectFails(r) \/ ReconnectHangs(r)

Next ==
  \/ \E r \in Requests : Step(r) \/ \E k \in Kinds : Arrive(r, k)
  \/ TrayReconnects
  \/ Restart

Spec == Init /\ [][Next]_vars

\* The pool runs its threads; a call that returns does so in the end.  That calls
\* return is not assumed.
FairSpec == Spec /\ \A r \in Requests : WF_vars(Step(r))

-----------------------------------------------------------------------------

TypeOK ==
  /\ printer \in Handles
  /\ lock \in [Handles -> Requests \cup {None}]
  /\ kind \in [Requests -> Kinds]
  /\ at \in [Requests -> States]
  /\ handle \in [Requests -> Handles]
  /\ attempt \in [Requests -> {1, 2}]
  /\ strip \subseteq Requests
  /\ slips \subseteq SUBSET Requests
  /\ copies \in [Requests -> Nat]
  /\ kicks \in [Requests -> Nat]
  /\ replaced \subseteq Requests

\* "serializes access behind a lock so concurrent requests don't interleave"
\* (escpos_client.py StarTSP100): two receipts share a slip only if one of them
\* was answered with an error or lost with the process, or was on its way while
\* the tray replaced the printer.  (The query of is_online, sent without the lock,
\* is no text.)
SlipsAreWhole ==
  \A slip \in slips : \A a, b \in slip :
    a # b => \E r \in {a, b} : Failed(r) \/ r \in replaced

\* The answer to a request is true as far as the driver can tell: ok means that the
\* calls that print its receipt, cut it off and open its drawer have returned,
\* whatever failed on the way (agent.py).
OkMeansDone ==
  \A r \in Requests : at[r] = "ok" =>
    /\ kind[r] # "drawer" => \E slip \in slips : r \in slip
    /\ kind[r] # "slip" => kicks[r] > 0

\* The drawer opens for a cash sale only after its receipt has been cut off
\* (agent.py print_endpoint), also on a retry or behind another request.
DrawerAfterReceipt ==
  \A r \in Requests : kind[r] = "cash" /\ kicks[r] > 0 => \E slip \in slips : r \in slip

\* "reconnects once": no text and no drawer pulse comes a third time, whatever
\* the tray and the device do meanwhile (escpos_client.py print_text, open_drawer).
AtMostTwice == \A r \in Requests : copies[r] <= 2 /\ kicks[r] <= 2

\* A call on the printer object of this request has hung: its own, or that of the
\* request that holds the lock.
Stuck(r) == \E q \in Requests : at[q] = "hung" /\ handle[q] = handle[r]

\* Every request is answered or lost with the process, unless a call hung on its
\* printer object: nobody else keeps a lock, and one on an object that the tray
\* has replaced holds up no request that comes after (agent.py _on_reconnect).
RequestEnds == \A r \in Requests : InProgress(r) ~> ~ InProgress(r) \/ Stuck(r)

-----------------------------------------------------------------------------
(* Why the safety properties hold: an induction over the steps.              *)

\* A request that no reconnect overtook uses the current printer, and a request
\* that works on a printer has its lock: so there is one of those at a time.
LocksHeld ==
  /\ \A r \in Requests : InProgress(r) /\ r \notin replaced => handle[r] = printer
  /\ \A r \in Requests : Holding(r) => lock[handle[r]] = r

\* Text on the strip is that request's, or was left by one that hangs, failed or
\* was overtaken.
StripOwned ==
  \A r \in strip : Printing(r) \/ at[r] = "hung" \/ Failed(r) \/ r \in replaced

CutOff(r) == \E slip \in slips : r \in slip

\* The order of a request's work, and what it has done by then.
WorkInOrder ==
  \A r \in Requests :
    /\ at[r] = "print" \/ Printing(r) => kind[r] # "drawer"
    /\ at[r] \in {"kick", "drawer", "rekick"} => kind[r] # "slip"
    /\ at[r] = "cut" => r \in strip \/ CutOff(r)
    /\ at[r] \in {"kick", "drawer", "rekick", "ok"} /\ kind[r] # "drawer" => CutOff(r)

\* At most one text and one pulse in each attempt.
Counted ==
  \A r \in Requests :
    /\ at[r] \in {"new", "print"} => copies[r] = 0
    /\ at[r] = "text" => copies[r] <= attempt[r] - 1
    /\ at[r] = "cut" => copies[r] <= attempt[r]
    /\ at[r] = "reprint" => copies[r] <= 1
    /\ at[r] \in {"new", "print", "kick"} \/ Printing(r) => kicks[r] = 0
    /\ at[r] = "drawer" => kicks[r] <= attempt[r] - 1
    /\ at[r] = "rekick" => kicks[r] <= 1

IInv ==
  /\ TypeOK
  /\ LocksHeld /\ StripOwned /\ SlipsAreWhole
  /\ WorkInOrder /\ OkMeansDone /\ DrawerAfterReceipt
  /\ Counted /\ AtMostTwice

=============================================================================
