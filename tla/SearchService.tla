----------------------------- MODULE SearchService -----------------------------
(***************************************************************************)
(* One search, behind POST /search (src/litwatch/search/service.py,        *)
(* api/app.py): the providers are asked one after the other, what they     *)
(* return is deduplicated (Deduplication), given journals, filtered,       *)
(* ranked and cut, and the outcome is reported per provider and as a whole.*)
(*                                                                         *)
(* Text scores are abstracted: the acoustic score to whether it reaches    *)
(* the threshold, given the title and the abstract of a paper, and ranking *)
(* to any order, since nothing but the cut depends on it.                  *)
(***************************************************************************)
EXTENDS Deduplication, Integers

CONSTANTS
    Provider,  \* names of providers
    Providers, \* the providers of the service, in the order they are asked
    Answers,   \* provider -> the lists of records it may return
    Failures,  \* the errors they may raise, among Error
    Acoustic,  \* titles and abstracts that reach the acoustic threshold
    Requests   \* the requests that may be sent

\* What a provider's search may raise, seen by _provider_error.
Error == {"timeout", "http_429", "http_401", "http_403", "http_500", "http_error",
          "malformed_response", "provider_error"}

ASSUME SearchAssumption ==
    /\ Failures \subseteq Error
    /\ Providers \in Seq(Provider) /\ Providers # << >>
    /\ \A p, q \in DOMAIN Providers : Providers[p] = Providers[q] => p = q

\* A record as an adapter sends it, under the adapter's own name (Paper.source,
\* Paper.providers).
Sent == [doi : Maybe(DOMAIN NormalDoi), arxiv : Maybe(DOMAIN NormalArxiv),
         aliases : Seq(DOMAIN FoldKey), source : DOMAIN FoldKey,
         title : DOMAIN NormalTitle, abstract : Abstract, meta : Metadata,
         provider : Provider]

ASSUME AnswersAssumption ==
    \A provider \in Provider :
        Answers[provider] \subseteq Seq({record \in Sent : record.provider = provider})

VARIABLES
    request, \* the request being served
    phase,   \* "ask", "merge" or "done"
    results, \* the ProviderResult of each provider asked so far
    shown,   \* the papers of the response, ranked
    status,  \* SearchResult.status
    http,    \* the HTTP status, None until then
    outcomes \* history: what each provider did, "answered" or an error

serviceVars == <<request, phase, results, shown, status, http, outcomes>>

searchVars == <<dedupVars, serviceVars>>

\* Faulty variant of StateOf: an unreachable host counts as a timeout.
StateOfNetworkTimeout(error) ==
    CASE error \in {"timeout", "http_error"} -> "timeout"
      [] error = "http_429" -> "rate_limited"
      [] error \in {"http_401", "http_403"} -> "auth_error"
      [] error = "malformed_response" -> "parse_error"
      [] OTHER -> "upstream_error"

\* _provider_error
StateOf(error) ==
    CASE error = "timeout" -> "timeout"
      [] error = "http_429" -> "rate_limited"
      [] error \in {"http_401", "http_403"} -> "auth_error"
      [] error = "malformed_response" -> "parse_error"
      [] OTHER -> "upstream_error"

Works(state) == state \in {"success", "empty"}

-----------------------------------------------------------------------------
(* The paper that a group of records becomes.                               *)

\* What the records S have in a field, and the first of it that is not missing.
Field(S, name) == [i \in S |-> papers[i].meta[name]]

First(S) == CHOOSE i \in S : \A j \in S : i <= j

FirstOf(value) ==
    LET known == {i \in DOMAIN value : value[i] # None}
    IN  IF known = {} THEN None ELSE value[First(known)]

\* Of the longest abstracts the first: a later one replaces it only if longer.
LongestAbstract(S) ==
    LET longest == {i \in S : \A j \in S :
                       papers[j].abstract.length <= papers[i].abstract.length}
    IN  papers[First(longest)].abstract

\* Faulty variant of Years: the year is that of the first record, known or not.
YearsOfFirst(S) == Field({First(S)}, "year")

Years(S) == Field(S, "year")

\* Faulty variant of ProvidersOf: only the provider of the first record counts.
ProvidersOfFirst(S) == {papers[First(S)].provider}

ProvidersOf(S) == {papers[i].provider : i \in S}

\* _merge of the records S, in list order.  Only OpenAlex has source ids, and
\* only the arXiv adapter sets a journal_id.
Merge(S) ==
    [records |-> S, providers |-> ProvidersOf(S),
     doi |-> FirstOf([i \in S |-> DoiOf(i)]),
     title |-> TitleOf(First(S)), abstract |-> LongestAbstract(S),
     meta |-> [year |-> FirstOf(Years(S)),
               issn |-> FirstOf(Field(S, "issn")),
               sourceId |-> FirstOf(Field(S, "sourceId")),
               journalId |-> FirstOf(Field(S, "journalId")),
               name |-> FirstOf(Field(S, "name"))]]

\* A group as the filters see it: united, and its journal resolved.
Candidate(S) == [Merge(S) EXCEPT !.meta = WithJournal(@)]

\* Faulty variant of InYears: a paper without a year passes.
InYearsIfKnown(wanted, year) ==
    /\ wanted.from # None /\ year # None => year >= wanted.from
    /\ wanted.to # None /\ year # None => year <= wanted.to

\* Year and journal filters, and with journals also the acoustic threshold.
InYears(wanted, year) ==
    /\ wanted.from # None => year # None /\ year >= wanted.from
    /\ wanted.to # None => year # None /\ year <= wanted.to

InJournals(wanted, journalId) ==
    wanted.journals # {} => journalId \in wanted.journals

Passes(paper) ==
    /\ InYears(request, paper.meta.year)
    /\ InJournals(request, paper.meta.journalId)
    /\ request.journals # {} => <<paper.title, paper.abstract>> \in Acoustic

-----------------------------------------------------------------------------
(* The request.                                                             *)

YearOrNone(year) == year = None \/ year \in 1000..9999

\* What SearchRequest and the head of search() let through.
Valid ==
    /\ ~request.blank
    /\ request.limit \in 1..50
    /\ request.journals \subseteq Journal
    /\ YearOrNone(request.from) /\ YearOrNone(request.to)
    /\ request.from # None /\ request.to # None => request.from <= request.to

InitSearch ==
    /\ request \in Requests
    /\ phase = "ask"
    /\ results = << >> /\ outcomes = << >>
    /\ shown = << >> /\ status = None /\ http = None
    /\ papers = << >> /\ index = 0 /\ todo = << >>
    /\ seen = [key \in SharedKey |-> 0]
    /\ root = << >> /\ dois = << >> /\ arxivs = << >>

\* ValueError before any provider is asked: 422.
Refuse ==
    /\ phase = "ask" /\ ~Valid
    /\ phase' = "done" /\ http' = "422"
    /\ UNCHANGED <<request, results, shown, status, outcomes, dedupVars>>

\* The next provider is asked.
Asks(provider) ==
    /\ phase = "ask" /\ Valid
    /\ Len(results) < Len(Providers)
    /\ provider = Providers[Len(results) + 1]

Result(provider, state, fetched) ==
    [provider |-> provider, status |-> state, fetched |-> fetched, returned |-> 0]

Answer(provider, records) ==
    /\ Asks(provider)
    /\ papers' = papers \o records
    /\ results' = Append(results, Result(provider,
                     IF records = << >> THEN "empty" ELSE "success", Len(records)))
    /\ outcomes' = Append(outcomes, "answered")
    /\ UNCHANGED <<request, phase, shown, status, http, index, todo, seen, root,
                   dois, arxivs>>

\* An exception, or what is not a list of papers: the search goes on without it.
Raise(provider, error) ==
    /\ Asks(provider)
    /\ results' = Append(results, Result(provider, StateOf(error), 0))
    /\ outcomes' = Append(outcomes, error)
    /\ UNCHANGED <<request, phase, shown, status, http, dedupVars>>

Working == {n \in DOMAIN results : Works(results[n].status)}

AllAsked == Valid /\ Len(results) = Len(Providers)

\* deduplicate_papers(candidates) begins ...
Collect ==
    /\ phase = "ask" /\ AllAsked /\ Working # {}
    /\ phase' = "merge"
    /\ root' = Alone(papers).root
    /\ dois' = Alone(papers).dois
    /\ arxivs' = Alone(papers).arxivs
    /\ UNCHANGED <<request, results, shown, status, http, outcomes, papers, index,
                   todo, seen>>

\* ... and goes on.
Deduplicate == phase = "merge" /\ NextDedup /\ UNCHANGED serviceVars

\* SearchResult.status
Aggregate(list) ==
    CASE Working = {} -> "all_providers_failed"
      [] Working # {} /\ Working # DOMAIN results -> "partial_success"
      [] Working = DOMAIN results /\ list # << >> -> "success"
      [] OTHER -> "success_empty"

\* search_literature: the status of the response.
HttpStatus ==
    CASE Working # {} -> "200"
      [] Working = {} /\ \A n \in DOMAIN results : results[n].status = "timeout" -> "504"
      [] OTHER -> "502"

\* The papers are counted for each provider that had them, and the result sent.
Respond(list) ==
    /\ shown' = list
    /\ results' = [n \in DOMAIN results |-> [results[n] EXCEPT !.returned =
                      Cardinality({k \in DOMAIN list :
                                      results[n].provider \in list[k].providers})]]
    /\ status' = Aggregate(list)
    /\ http' = HttpStatus
    /\ phase' = "done"
    /\ UNCHANGED <<request, outcomes, dedupVars>>

NothingWorked == phase = "ask" /\ AllAsked /\ Working = {} /\ Respond(<< >>)

\* The papers that pass, in any order, cut at the limit.
Rankings ==
    LET passing == {paper \in {Candidate(Group(r)) : r \in {root[i] : i \in DOMAIN papers}} :
                       Passes(paper)}
        length == IF Cardinality(passing) <= request.limit
                  THEN Cardinality(passing) ELSE request.limit
    IN  {list \in [1..length -> passing] :
            \A k, l \in 1..length : list[k] = list[l] => k = l}

Rank == phase = "merge" /\ Finished /\ \E list \in Rankings : Respond(list)

NextSearch ==
    \/ Refuse
    \/ \E provider \in Provider :
          \/ \E records \in Answers[provider] : Answer(provider, records)
          \/ \E error \in Failures : Raise(provider, error)
    \/ Collect \/ Deduplicate \/ Rank \/ NothingWorked

SpecSearch == InitSearch /\ [][NextSearch]_searchVars

-----------------------------------------------------------------------------
(* What must hold.                                                          *)

SearchDone == phase = "done" /\ http # "422"

\* The counts of a provider agree with what it did and with what is shown: it is
\* credited with exactly the papers one of its records went into, also those it
\* shares with others, never with more than it sent; and each paper is credited.
CountsAgree ==
    SearchDone =>
        /\ \A n \in DOMAIN results :
              LET its == {i \in DOMAIN papers : papers[i].provider = results[n].provider}
              IN  /\ results[n].fetched = Cardinality(its)
                  /\ results[n].returned <= results[n].fetched
                  /\ results[n].returned =
                        Cardinality({k \in DOMAIN shown : shown[k].records \cap its # {}})
        /\ \A k \in DOMAIN shown : \E n \in Working :
              results[n].provider \in shown[k].providers

\* Records are united before the years are compared, so that any of them may
\* supply the year (test_year_filter_runs_after_cross_provider_deduplication):
\* a record in range whose group knows of no other year is in the response,
\* unless that is full.
NothingInRangeIsLost ==
    SearchDone /\ request.journals = {} /\ Len(shown) < request.limit =>
        \A i \in DOMAIN papers :
            /\ \E j \in Group(root[i]) : InYears(request, papers[j].meta.year)
            /\ \A j \in Group(root[i]) :
                  papers[j].meta.year # None => InYears(request, papers[j].meta.year)
            => \E k \in DOMAIN shown : i \in shown[k].records

\* In a search of journals an ISSN outranks every name and source id, whichever
\* provider sent it (the precedence of the design document): a paper of which
\* some record has a listed ISSN is shown only if a requested journal's is
\* among them.
JournalByIssn ==
    SearchDone /\ request.journals # {} =>
        \A k \in DOMAIN shown :
            LET known == {papers[i].meta.issn : i \in shown[k].records} \ {None}
            IN  known # {} => known \cap request.journals # {}

\* The aggregate and the HTTP status tell what the providers did: 504 if all of
\* them timed out, 502 if all failed otherwise, partial success if some failed;
\* an empty success is never the disguise of a failure (test_search_service.py).
StatusFits ==
    SearchDone =>
        LET failed == {n \in DOMAIN outcomes : outcomes[n] \in Error}
            late == {n \in DOMAIN outcomes : outcomes[n] = "timeout"}
        IN  /\ http = "504" <=> late = DOMAIN outcomes
            /\ http = "502" <=> failed = DOMAIN outcomes /\ late # failed
            /\ status = "all_providers_failed" <=> http # "200"
            /\ status = "partial_success" <=> failed # {} /\ failed # DOMAIN outcomes
            /\ failed = {} <=> status \in {"success", "success_empty"}
=============================================================================
