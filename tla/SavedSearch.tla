------------------------------ MODULE SavedSearch ------------------------------
(***************************************************************************)
(* POST /search from end to end: what SearchService.search() returns goes  *)
(* to SearchRepository.save(), and the saved scan is the answer            *)
(* (src/litwatch/api/app.py, search_literature).                           *)
(*                                                                         *)
(* One client sends one request after the other; concurrent calls of       *)
(* save() are the concern of PaperStore itself.                            *)
(***************************************************************************)
EXTENDS SearchService, PaperStore

\* A normal form is one of the spellings that may be sent (normalize_doi and
\* normalize_arxiv_id return it unchanged).
ASSUME SavedAssumption ==
    Doi \subseteq DOMAIN NormalDoi /\ ArxivId \subseteq DOMAIN NormalArxiv

VARIABLES
    scan,  \* the scan id of the call that saves the result at hand, or None
    asked  \* history: the request that led to each scan

savedVars == <<searchVars, vars, scan, asked>>

-----------------------------------------------------------------------------

\* The records S of the search, in list order.
Listed(S) ==
    CHOOSE list \in [1..Cardinality(S) -> S] :
        \A m, n \in DOMAIN list : m < n => list[m] < list[n]

\* The paper of the response as save() gets it: identifiers in normal form, the
\* title and the key of the first record, and the keys of all (_merge).
Handed(paper) ==
    LET records == Listed(paper.records)
        first == papers[records[1]]
    IN  [doi |-> paper.doi, arxiv |-> FirstOf([i \in paper.records |-> ArxivOf(i)]),
         aliases |-> [n \in DOMAIN records |-> papers[records[n]].source],
         source |-> first.source, title |-> first.title,
         abstract |-> paper.abstract, meta |-> paper.meta]

Batch == [n \in DOMAIN shown |-> [paper |-> Handed(shown[n]), score |-> Len(shown) - n + 1]]

InitSaved ==
    /\ InitSearch
    /\ Init
    /\ scan = None
    /\ asked = [s \in ScanId |-> None]

Searching == NextSearch /\ UNCHANGED <<vars, scan, asked>>

\* repository.save(search_result): a failed search is saved, too.
Save(s) ==
    /\ SearchDone /\ scan = None
    /\ \E now \in Time : CallWith(s, Batch, now)
    /\ scan' = s
    /\ asked' = [asked EXCEPT ![s] = request]
    /\ UNCHANGED searchVars

Saving(s) ==
    /\ Begin(s) \/ Work(s)
    /\ UNCHANGED <<searchVars, scan, asked>>

\* An sqlite3.Error, which is HTTP 500.
SavingFails(s) ==
    /\ Abort(s)
    /\ UNCHANGED <<searchVars, scan, asked>>

Answered ==
    /\ phase = "done"
    /\ http # "422" => scan # None /\ calls[scan] \in {"committed", "failed", "conflict"}

\* The client sends its next request.
NextRequest ==
    /\ Answered
    /\ request' \in Requests
    /\ phase' = "ask" /\ scan' = None
    /\ results' = << >> /\ outcomes' = << >>
    /\ shown' = << >> /\ status' = None /\ http' = None
    /\ papers' = << >> /\ index' = 0 /\ todo' = << >>
    /\ seen' = [key \in SharedKey |-> 0]
    /\ root' = << >> /\ dois' = << >> /\ arxivs' = << >>
    /\ UNCHANGED <<vars, asked>>

NextSaved ==
    \/ Searching
    \/ \E s \in ScanId : Save(s) \/ Saving(s) \/ SavingFails(s)
    \/ NextRequest

SpecSaved == InitSaved /\ [][NextSaved]_savedVars

\* The thread that serves the request keeps running.
FairSpecSaved ==
    /\ SpecSaved
    /\ WF_savedVars(Searching)
    /\ WF_savedVars(\E s \in ScanId : Save(s) \/ Saving(s))

-----------------------------------------------------------------------------
(* What must hold.                                                          *)

Shows(s, p) == db.links[s][p] # None

\* The paper is from the years and journals that the scan was asked for.
PassesFilters(s, p) ==
    LET meta == db.papers[p].meta
    IN  /\ asked[s].from # None => meta.year \in {year \in Year : year >= asked[s].from}
        /\ asked[s].to # None => meta.year \in {year \in Year : year <= asked[s].to}
        /\ asked[s].journals # {} => meta.journalId \in asked[s].journals

\* Whatever the library unites or enriches, a scan shows a paper outside the
\* years and journals it was asked for only if another scan brought that paper
\* in, too (identity.py, enrich: what is stored decides).
NewPapersPassFilters ==
    \A s \in db.scans, p \in PaperId :
        Shows(s, p) /\ (\A r \in db.scans \ {s} : ~Shows(r, p)) => PassesFilters(s, p)

\* Each request is answered, however many records it brings and whatever they do
\* to the library, as long as there are scan ids.
EveryRequestIsAnswered ==
    phase = "ask" ~> Answered \/ \A s \in ScanId : calls[s] # "unused"
=============================================================================
