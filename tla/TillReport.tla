----------------------------- MODULE TillReport -----------------------------
(***************************************************************************)
(* The close report of a till: a PDF that is rendered from the row after   *)
(* a close, and once more by a download that does not find it (till.py     *)
(* _try_render_pdf, till_pdf.py, routes/till.py session_pdf).              *)
(*                                                                         *)
(* A step of Till may come between any two steps of a rendering, and so    *)
(* may another rendering of the same report.  The file is not written in   *)
(* one go: the canvas opens it, which empties it, builds the document and  *)
(* then writes it.  What the report looks like is left out; what it says   *)
(* is the till's row as it was read.                                       *)
(***************************************************************************)
EXTENDS Till

CONSTANT MaxLosses  \* bound: report files deleted by somebody

ASSUME LossesAssumption == MaxLosses \in Nat

VARIABLES
  pdf_path,  \* the tills whose row names a report file
  file,      \* the file of each till: "none", "partial" or "whole"
  shows,     \* what a whole file says
  pen,       \* the rendering each pool thread is at
  reclosed,  \* history: tills that were closed twice
  spoiled,   \* history: tills a rendering of which failed after another was done
  losses     \* counted against MaxLosses

reports == <<pdf_path, file, shows, pen, reclosed, spoiled, losses>>
allvars == <<vars, reports>>

\* What a report says of a till.
Report(s) == [tallies |-> till[s].tallies, counted |-> till[s].counted,
              expected |-> till[s].expected, variance |-> till[s].variance]

NoReport == [tallies |-> NoTallies, counted |-> 0, expected |-> 0, variance |-> 0]
NoPen == [at |-> "idle", sid |-> NoSession, report |-> NoReport]

ReportInit ==
  /\ Init
  /\ pdf_path = {}
  /\ file = [s \in Sessions |-> "none"]
  /\ shows = [s \in Sessions |-> NoReport]
  /\ pen = [w \in Workers |-> NoPen]
  /\ reclosed = {}
  /\ spoiled = {}
  /\ losses = 0

-----------------------------------------------------------------------------
(* Who renders                                                               *)

\* Mutant of CloseAndRender: the report is made of the row as it was read.
CloseAndRenderRead(w) ==
  /\ CloseSession(w)
  /\ pen' = [pen EXCEPT ![w] = [at |-> "render", sid |-> thread[w].sid,
                                report |-> Report(thread[w].sid)]]
  /\ reclosed' = IF till[thread[w].sid].status = "CLOSED"
                   THEN reclosed \cup {thread[w].sid} ELSE reclosed
  /\ UNCHANGED <<pdf_path, file, shows, spoiled, losses>>

\* close_session commits and goes on to render.
CloseAndRender(w) ==
  /\ CloseSession(w)
  /\ pen' = [pen EXCEPT ![w] = [NoPen EXCEPT !.at = "refresh", !.sid = thread[w].sid]]
  /\ reclosed' = IF till[thread[w].sid].status = "CLOSED"
                   THEN reclosed \cup {thread[w].sid} ELSE reclosed
  /\ UNCHANGED <<pdf_path, file, shows, spoiled, losses>>

\* db.refresh: the row, as another request may have changed it since.
Refresh(w) ==
  /\ pen[w].at = "refresh"
  /\ pen' = [pen EXCEPT ![w].at = "render", ![w].report = Report(pen[w].sid)]
  /\ UNCHANGED <<vars, pdf_path, file, shows, reclosed, spoiled, losses>>

\* session_pdf of a closed till whose file is not there; one that is there is
\* streamed as it is, which changes nothing.
Download(w, s) ==
  /\ thread[w].at = "idle" /\ pen[w].at = "idle"
  /\ till[s].status = "CLOSED"
  /\ s \notin pdf_path \/ file[s] = "none"
  /\ pen' = [pen EXCEPT ![w] = [at |-> "render", sid |-> s, report |-> Report(s)]]
  /\ UNCHANGED <<vars, pdf_path, file, shows, reclosed, spoiled, losses>>

-----------------------------------------------------------------------------
(* render_close_report                                                       *)

\* The canvas is saved: the file is opened, and is empty.
OpenFile(w) ==
  /\ pen[w].at = "render"
  /\ pen' = [pen EXCEPT ![w].at = "write"]
  /\ file' = [file EXCEPT ![pen[w].sid] = "partial"]
  /\ UNCHANGED <<vars, pdf_path, shows, reclosed, spoiled, losses>>

WriteFile(w) ==
  /\ pen[w].at = "write"
  /\ pen' = [pen EXCEPT ![w].at = "store"]
  /\ file' = [file EXCEPT ![pen[w].sid] = "whole"]
  /\ shows' = [shows EXCEPT ![pen[w].sid] = pen[w].report]
  /\ UNCHANGED <<vars, pdf_path, reclosed, spoiled, losses>>

\* A close and a download store the path alike.
StorePath(w) ==
  /\ pen[w].at = "store"
  /\ pen' = [pen EXCEPT ![w] = NoPen]
  /\ pdf_path' = pdf_path \cup {pen[w].sid}
  /\ UNCHANGED <<vars, file, shows, reclosed, spoiled, losses>>

\* A rendering of s has got as far as its last commit.
Rendered(s) == s \in pdf_path \/ \E w \in Workers : pen[w].at = "store" /\ pen[w].sid = s

Spoils(w) == pen[w].at = "write" /\ Rendered(pen[w].sid)

\* Mutant of RenderFails: the path is stored before the rendering is tried.
RenderFailsStored(w) ==
  /\ pen[w].at \in {"render", "write"}
  /\ pen' = [pen EXCEPT ![w] = NoPen]
  /\ pdf_path' = pdf_path \cup {pen[w].sid}
  /\ spoiled' = IF Spoils(w) THEN spoiled \cup {pen[w].sid} ELSE spoiled
  /\ UNCHANGED <<vars, file, shows, reclosed, losses>>

\* An exception: logged by a close, answered with 500 by a download.  A file that
\* was opened stays, written in part or not at all.
RenderFails(w) ==
  /\ pen[w].at \in {"render", "write"}
  /\ pen' = [pen EXCEPT ![w] = NoPen]
  /\ spoiled' = IF Spoils(w) THEN spoiled \cup {pen[w].sid} ELSE spoiled
  /\ \/ UNCHANGED file
     \/ pen[w].at = "write" /\ file' = [file EXCEPT ![pen[w].sid] = "partial"]
  /\ UNCHANGED <<vars, pdf_path, shows, reclosed, losses>>

-----------------------------------------------------------------------------
(* The disk and the process                                                  *)

\* "The file was deleted out from under us", though not while it is open.
FileLost(s) ==
  /\ losses < MaxLosses
  /\ losses' = losses + 1
  /\ file[s] # "none"
  /\ \A w \in Workers : ~ (pen[w].at = "write" /\ pen[w].sid = s)
  /\ file' = [file EXCEPT ![s] = "none"]
  /\ UNCHANGED <<vars, pdf_path, shows, pen, reclosed, spoiled>>

Stop ==
  /\ Crash
  /\ pen' = [w \in Workers |-> NoPen]
  /\ spoiled' = spoiled \cup {pen[w].sid : w \in {v \in Workers : Spoils(v)}}
  /\ UNCHANGED <<pdf_path, file, shows, reclosed, losses>>

-----------------------------------------------------------------------------

\* A pool thread that renders does nothing else.
TillSteps ==
  \/ \E w \in Workers, c \in Cashiers :
       /\ pen[w].at = "idle"
       /\ \/ \E cents \in Floats : OpenTill(w, c, cents)
          \/ \E cents \in Counts : CloseTill(w, c, cents)
  \/ \E w \in Workers : InsertSession(w)
  \/ \E t \in Txns : AttributeTransaction(t)
  \/ CommitAttribution

ReportNext ==
  \/ TillSteps /\ UNCHANGED reports
  \/ \E w \in Workers :
       \/ CloseAndRender(w) \/ Refresh(w)
       \/ OpenFile(w) \/ WriteFile(w) \/ StorePath(w) \/ RenderFails(w)
       \/ \E s \in Sessions : Download(w, s)
  \/ \E s \in Sessions : FileLost(s)
  \/ Stop

ReportSpec == ReportInit /\ [][ReportNext]_allvars

-----------------------------------------------------------------------------

Reports == [tallies : Tallies, counted : Nat, expected : Int, variance : Int]

ReportTypeOK ==
  /\ pdf_path \subseteq Sessions
  /\ file \in [Sessions -> {"none", "partial", "whole"}]
  /\ shows \in [Sessions -> Reports]
  /\ pen \in [Workers -> [at : {"idle", "refresh", "render", "write", "store"},
                          sid : Sessions \cup {NoSession}, report : Reports]]
  /\ \A w \in Workers : pen[w].at # "idle" => pen[w].sid \in Sessions
  /\ reclosed \subseteq Sessions
  /\ spoiled \subseteq Sessions
  /\ losses \in 0 .. MaxLosses

\* "The source of truth is the session row, the PDF is derived data" (routes/till.py
\* session_pdf): a report says what its till's row says, whoever rendered it and
\* however renderings overlapped.  Only an attribution that raced the close, or a
\* second close, may have changed the row since.
ReportIsCurrent ==
  \A s \in Sessions \ (raced \cup reclosed) : file[s] = "whole" => shows[s] = Report(s)

\* A download streams no half-written report: if a close could not render, its row
\* names no file and the next download renders (_try_render_pdf, session_pdf).  But
\* while a second rendering has the file open, or after one failed, it does.
ReportIsWhole ==
  \A s \in pdf_path : file[s] = "partial" =>
    s \in spoiled \/ \E w \in Workers : pen[w].at = "write" /\ pen[w].sid = s

-----------------------------------------------------------------------------
(* Why they hold: what a thread is about to write is what the row still      *)
(* says, and a report that was just written is not cut short unnoticed.      *)

PenCurrent(w, s) ==
  pen[w].at \in {"render", "write"} /\ pen[w].sid = s /\ s \notin raced \cup reclosed
    => pen[w].report = Report(s)

PensCurrent == \A w \in Workers, s \in Sessions : PenCurrent(w, s)

RenderedWhole ==
  \A s \in Sessions : Rendered(s) /\ file[s] = "partial" =>
    s \in spoiled \/ \E w \in Workers : pen[w].at = "write" /\ pen[w].sid = s

OnlyClosed ==
  /\ \A s \in Sessions : file[s] # "none" => till[s].status = "CLOSED"
  /\ \A w \in Workers : pen[w].at # "idle" => till[pen[w].sid].status = "CLOSED"

\* A thread that renders has no till in hand.
OneAtATime == \A w \in Workers : thread[w].at # "idle" => pen[w].at = "idle"

ReportInv ==
  /\ ReportTypeOK /\ OneAtATime /\ OnlyClosed
  /\ PensCurrent /\ RenderedWhole /\ ReportIsCurrent

=============================================================================
