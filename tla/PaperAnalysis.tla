----------------------------- MODULE PaperAnalysis -----------------------------
(***************************************************************************)
(* Analyses of stored papers while searches go on: PaperAnalysisService    *)
(* over the paper library and the LLM gateway, behind POST /analyze        *)
(* (src/litwatch/analysis/service.py, analysis_repository.py, api/app.py). *)
(*                                                                         *)
(* A request looks its paper up, asks the language model, which may take   *)
(* any time and holds no lock, stores the answer, and replies.  Any number *)
(* of scans may be saved in between, and papers united, and the process    *)
(* may die at any point.  A request is named by the analysis id it will    *)
(* use.                                                                    *)
(***************************************************************************)
EXTENDS PaperStore

VARIABLES
    step,   \* where each request is; a number is the HTTP status it ended with
    asked,  \* the paper_id of the request
    found,  \* the paper_id of the record get_paper returned
    given   \* history: did the library know the id when it was sent?

requestVars == <<step, asked, found, given>>

allVars == <<vars, requestVars>>

\* "select": about to read papers, "redirect": to read paper_redirects, "ask":
\* to call the gateway, "store": to insert, "reply": the row is committed, the
\* client not yet told.  Ends: 200; 404 no such paper; 409 no abstract; 422, 502
\* and 504 what the gateway raised; "refused" and "busy" the sqlite3 errors of the
\* insert, both HTTP 500; "dead" a crash.
InFlight == {"select", "redirect", "ask", "store", "reply"}
Ended == {"200", "404", "409", "422", "502", "504", "refused", "busy", "dead"}

InitAnalysis ==
    /\ Init
    /\ step = [a \in AnalysisId |-> "unused"]
    /\ asked = [a \in AnalysisId |-> None]
    /\ found = [a \in AnalysisId |-> None]
    /\ given = [a \in AnalysisId |-> FALSE]

Goto(a, next) == step' = [step EXCEPT ![a] = next]

\* A client sends any id, one it was given or one it made up.
Request(a) ==
    /\ step[a] = "unused"
    /\ \E p \in PaperId :
          /\ asked' = [asked EXCEPT ![a] = p]
          /\ given' = [given EXCEPT ![a] = Resolve(db, p) # None]
    /\ Goto(a, "select")
    /\ UNCHANGED <<vars, found>>

\* get_paper has its record: analyze() goes on if the abstract is there.
Read(a, p) ==
    /\ found' = [found EXCEPT ![a] = p]
    /\ Goto(a, IF AnalysisEligible(db.papers[p]) THEN "ask" ELSE "409")
    /\ UNCHANGED <<vars, asked, given>>

\* get_paper's first SELECT.  It sees the tables as last committed, and so does
\* the second one: no transaction spans the two.
ReadPaper(a) ==
    /\ step[a] = "select"
    /\ IF db.papers[asked[a]] # None
       THEN Read(a, asked[a])
       ELSE Goto(a, "redirect") /\ UNCHANGED <<vars, asked, found, given>>

\* The second SELECT, one statement: the redirect and the paper it names.
ReadRedirect(a) ==
    /\ step[a] = "redirect"
    /\ LET p == db.redirect[asked[a]]
       IN  IF p # None /\ db.papers[p] # None
           THEN Read(a, p)
           ELSE Goto(a, "404") /\ UNCHANGED <<vars, asked, found, given>>

\* Faulty variants of GetPaper: without a redirect it starts over; the JOIN is
\* split in two statements, so that found holds an id whose paper is yet to read.
GetPaperRetries(a) ==
    \/ ReadPaper(a)
    \/ /\ step[a] = "redirect"
       /\ LET p == db.redirect[asked[a]]
          IN  IF p # None THEN Read(a, p)
              ELSE Goto(a, "select") /\ UNCHANGED <<vars, asked, found, given>>

GetPaperInThreeReads(a) ==
    \/ ReadPaper(a)
    \/ /\ step[a] = "redirect"
       /\ found[a] = None
       /\ found' = [found EXCEPT ![a] = db.redirect[asked[a]]]
       /\ Goto(a, IF db.redirect[asked[a]] # None THEN "redirect" ELSE "404")
       /\ UNCHANGED <<vars, asked, given>>
    \/ /\ step[a] = "redirect"
       /\ found[a] # None
       /\ IF db.papers[found[a]] # None THEN Read(a, found[a])
          ELSE Goto(a, "404") /\ UNCHANGED <<vars, asked, found, given>>

GetPaper(a) == ReadPaper(a) \/ ReadRedirect(a)

\* quick_scan returns a structured result or raises: a bad base URL (422), an
\* upstream or malformed answer (502), a timeout (504).
Ask(a) ==
    /\ step[a] = "ask"
    /\ \E outcome \in {"store", "422", "502", "504"} : Goto(a, outcome)
    /\ UNCHANGED <<vars, asked, found, given>>

\* INSERT and COMMIT.
StoreAnswer(a) ==
    /\ step[a] = "store"
    /\ SaveAnalysis(a, found[a])
    /\ Goto(a, "reply")
    /\ UNCHANGED <<asked, found, given>>

Reply(a) ==
    /\ step[a] = "reply"
    /\ Goto(a, "200")
    /\ UNCHANGED <<vars, asked, found, given>>

\* The paper was deleted meanwhile: FOREIGN KEY constraint failed.
RefuseAnswer(a) ==
    /\ step[a] = "store"
    /\ holder = None
    /\ db.papers[found[a]] = None
    /\ Goto(a, "refused")
    /\ UNCHANGED <<vars, asked, found, given>>

\* A scan held the write lock for longer than busy_timeout.
AnswerBusy(a) ==
    /\ step[a] = "store"
    /\ holder # None
    /\ Goto(a, "busy")
    /\ UNCHANGED <<vars, asked, found, given>>

\* The process dies with the requests it was serving; an analysis that was
\* committed stays, though nobody was told of it.
CrashAll ==
    /\ \/ \E s \in ScanId : calls[s] \in {"waiting", "saving"}
       \/ \E a \in AnalysisId : step[a] \in InFlight
    /\ Die
    /\ step' = [a \in AnalysisId |-> IF step[a] \in InFlight THEN "dead" ELSE step[a]]
    /\ UNCHANGED <<asked, found, given>>

\* What the program does for a request on its own, and with the gateway.
ServeLocally(a) ==
    GetPaper(a) \/ StoreAnswer(a) \/ Reply(a) \/ RefuseAnswer(a) \/ AnswerBusy(a)

Serve(a) == ServeLocally(a) \/ Ask(a)

NextAnalysis ==
    \/ \E s \in ScanId : Search(s) /\ UNCHANGED requestVars
    \/ \E a \in AnalysisId : Request(a) \/ Serve(a)
    \/ CrashAll

SpecAnalysis == InitAnalysis /\ [][NextAnalysis]_allVars

\* The threads that serve searches and analyses keep running: the one that holds
\* the lock goes on, or a statement raises.  Nothing makes Ask happen: timeout=30
\* of the gateway bounds each operation on a socket, not the reply, and its lookup
\* of the host has no timeout at all.
FairAnalysis ==
    /\ \A s \in ScanId : WF_allVars((Begin(s) \/ BusyTimeout(s)) /\ UNCHANGED requestVars)
    /\ \A s \in ScanId : WF_allVars((Abort(s) \/ Work(s)) /\ UNCHANGED requestVars)
    /\ \A a \in AnalysisId : WF_allVars(ServeLocally(a))

FairSpecAnalysis == SpecAnalysis /\ FairAnalysis

-----------------------------------------------------------------------------
(* What must hold.                                                          *)

\* The variables of the requests have their types, and found is set as soon as
\* a record has been read.
AnalysisTypeOK ==
    /\ step \in [AnalysisId -> {"unused"} \cup InFlight \cup Ended]
    /\ asked \in [AnalysisId -> Maybe(PaperId)]
    /\ found \in [AnalysisId -> Maybe(PaperId)]
    /\ given \in [AnalysisId -> BOOLEAN]
    /\ \A a \in AnalysisId : step[a] \in {"ask", "store"} => found[a] # None

\* An id the library has given out is never answered 404, although get_paper
\* reads in two statements and papers are united between them: the id may have
\* become a redirect before the first, and its paper be merged away, in its turn,
\* before the second.
GivenIdIsFound == \A a \in AnalysisId : step[a] = "404" => ~given[a]

\* A client that got an analysis finds it on record, and an analysis on record is,
\* at all times, about the paper that the id it was asked for stands for: also one
\* whose request died after COMMIT, and after any later merge
\* (test_analysis_follows_paper_when_late_identity_bridge_reconciles).
AnalysisFollowsPaper ==
    \A a \in AnalysisId :
        /\ step[a] \in {"reply", "200"} => db.analyses[a] # None
        /\ db.analyses[a] # None => db.analyses[a] = Resolve(db, asked[a])

\* Old ids are preserved as redirects (reconciliation.py:1), so an answer of the
\* language model about a paper that still exists under another id can be kept.
AnswerIsKept == \A a \in AnalysisId : step[a] # "refused"

\* The library holds up no request: whatever scans are saved and papers united,
\* a request ends or is waiting for the language model, and once it has that
\* answer it ends.
LibraryDelaysNoRequest ==
    \A a \in AnalysisId : step[a] \in InFlight \ {"ask"} ~> step[a] \in Ended \cup {"ask"}
=============================================================================
