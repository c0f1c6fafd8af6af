--------------------------- MODULE ProviderAdapters ---------------------------
(***************************************************************************)
(* One call of a provider's search: the request it sends, what the         *)
(* upstream service answers, and the loop that makes records of the items  *)
(* (src/litwatch/providers/base.py, openalex.py, arxiv.py, crossref.py).   *)
(* How it ends is what SearchService takes for Answers and Failures.       *)
(*                                                                         *)
(* An item is a JSON object or Atom entry by what the adapters look at.    *)
(* Authors are left out; of other fields only whether reading them raises. *)
(***************************************************************************)
EXTENDS PaperIdentity

CONSTANTS
    Limits, \* SearchRequest.limit
    Id,     \* identifiers of items: an OpenAlex id, an arXiv id in normal form, a Crossref URL
    Item,   \* the items upstream services may send
    Bodies  \* the lists of items they may send

Provider == {"openalex", "arxiv", "crossref"}

\* object: it is one; broken: the exception that reading its fields raises, for
\* instance "AttributeError" for a primary_location that is a list.  Neither matters
\* for Atom entries, which are elements with text.
ASSUME AdapterAssumption ==
    /\ Limits \subseteq Nat \ {0}
    /\ Item \subseteq [object : BOOLEAN, title : Maybe(DOMAIN NormalTitle), id : Maybe(Id),
                       doi : Maybe(DOMAIN NormalDoi), arxiv : Maybe(DOMAIN NormalArxiv),
                       abstract : Abstract, meta : Metadata, broken : {"no", "ValueError", "AttributeError"}]
    /\ Bodies \subseteq Seq(Item)
    /\ Doi \subseteq DOMAIN NormalDoi
    /\ DOMAIN FoldKey = Provider \X (Id \cup Doi \cup DOMAIN NormalTitle)
    /\ None \notin Id /\ None \notin DOMAIN NormalTitle
    /\ None \notin {"malformed_response", "provider_error"}

VARIABLES
    provider, \* the adapter that is called
    limit,    \* the limit of the user's request
    filtered, \* does the request have a journal or a year?
    rows,     \* per-page, max_results or rows
    step,     \* "call", "sent", "items", "returned" or "raised"
    items,    \* what the answer lists
    next,     \* the item looked at
    records,  \* the records made of the items before
    error     \* what the exception counts as, see SearchService.Error

adapterVars == <<provider, limit, filtered, rows, step, items, next, records, error>>

-----------------------------------------------------------------------------

Least(m, n) == IF m < n THEN m ELSE n
Most(m, n) == IF m > n THEN m ELSE n

\* candidate_limit in search(): more than wanted, most if filters come after.
Pool(wanted, locally) ==
    IF locally THEN Least(Most(wanted * 10, 100), 200)
    ELSE Least(Most(wanted * 3, wanted), 100)

\* The page sizes that the services allow.
Rows(adapter, pool) == Least(pool, IF adapter = "openalex" THEN 200 ELSE 100)

InitAdapter ==
    /\ provider \in Provider
    /\ limit \in Limits
    /\ filtered \in BOOLEAN
    /\ rows = 0
    /\ step = "call"
    /\ items = << >> /\ next = 1
    /\ records = << >>
    /\ error = None

Send ==
    /\ step = "call"
    /\ rows' = Rows(provider, Pool(limit, filtered))
    /\ step' = "sent"
    /\ UNCHANGED <<provider, limit, filtered, items, next, records, error>>

Raise(code) ==
    /\ step' = "raised"
    /\ error' = code
    /\ UNCHANGED <<provider, limit, filtered, rows, items, next, records>>

\* _get: no answer, or raise_for_status (a redirect raises as well).
FailTransport ==
    /\ step = "sent"
    /\ \E code \in {"timeout", "http_error", "http_429", "http_401", "http_403", "http_500"} :
          Raise(code)

\* Not JSON or XML, or not of the shape that holds items: a ValueError or TypeError.
FailShape == step = "sent" /\ Raise("malformed_response")

Receive ==
    /\ step = "sent"
    /\ items' \in Bodies
    /\ step' = "items"
    /\ UNCHANGED <<provider, limit, filtered, rows, next, records, error>>

\* Faulty variant of OpenAlexKey: the title comes first.
OpenAlexKeyByTitle(item) == item.title

\* provider_id of an OpenAlex work: the last part of its id, else DOI, else title.
OpenAlexKey(item) ==
    FirstKnown(item.id, FirstKnown(Normalize(NormalDoi, item.doi), item.title))

\* ... of a Crossref work: DOI or URL; every DOI makes a URL.
CrossrefKey(item) == FirstKnown(Normalize(NormalDoi, item.doi), item.id)

KeyOf(item) ==
    IF provider = "openalex" THEN OpenAlexKey(item)
    ELSE IF provider = "crossref" THEN CrossrefKey(item) ELSE item.id

\* normalize_work, normalize_entry.  An OpenAlex work may name its preprint.
RecordOf(item) ==
    [doi |-> Normalize(NormalDoi, item.doi),
     arxiv |-> IF provider = "arxiv" THEN item.id
               ELSE IF provider = "openalex" THEN Normalize(NormalArxiv, item.arxiv) ELSE None,
     aliases |-> << >>, source |-> <<provider, KeyOf(item)>>, title |-> item.title,
     abstract |-> item.abstract, meta |-> item.meta]

\* Items that are passed over: no title, or a Crossref work without DOI and URL.
Unusable(item) ==
    \/ item.title = None
    \/ provider = "crossref" /\ CrossrefKey(item) = None

\* What an arXiv entry or a work raises, if anything, and what search() makes of the
\* exception.  Without a title it is not read any further.
FailureOfEntry(entry) ==
    IF entry.title # None /\ entry.id = None THEN "malformed_response" ELSE None

\* Faulty variant of FailureOfWork: what is not an object is passed over.
FailureOfObjects(work) ==
    IF ~work.object THEN None
    ELSE IF work.title # None /\ work.broken = "AttributeError" THEN "provider_error"
    ELSE IF ~Unusable(work) /\ work.broken = "ValueError" THEN "malformed_response" ELSE None

FailureOfWork(work) ==
    IF ~work.object THEN "malformed_response"
    ELSE IF work.title # None /\ work.broken = "AttributeError" THEN "provider_error"
    ELSE IF ~Unusable(work) /\ work.broken = "ValueError" THEN "malformed_response" ELSE None

Failure(item) == IF provider = "arxiv" THEN FailureOfEntry(item) ELSE FailureOfWork(item)

Looking == step = "items" /\ next <= Len(items)

\* One item makes the whole answer fail.
FailItem ==
    /\ Looking
    /\ Failure(items[next]) # None
    /\ Raise(Failure(items[next]))

Keep ==
    /\ Looking
    /\ Failure(items[next]) = None
    /\ records' = IF Unusable(items[next]) THEN records
                  ELSE Append(records, RecordOf(items[next]))
    /\ next' = next + 1
    /\ UNCHANGED <<provider, limit, filtered, rows, step, items, error>>

\* Faulty variant of NoneUsable: what is left is returned, whatever it is.
NoneUsableIsFine == FALSE

NoneUsable == items # << >> /\ records = << >>

Return ==
    /\ step = "items" /\ next > Len(items)
    /\ IF NoneUsable THEN Raise("malformed_response")
       ELSE /\ step' = "returned"
            /\ UNCHANGED <<provider, limit, filtered, rows, items, next, records, error>>

NextAdapter == Send \/ FailTransport \/ FailShape \/ Receive \/ FailItem \/ Keep \/ Return

SpecAdapter == InitAdapter /\ [][NextAdapter]_adapterVars

-----------------------------------------------------------------------------
(* What must hold.                                                          *)

\* Data that cannot be used is not "success_empty"
\* (test_nonempty_but_unusable_upstream_data_is_not_success_empty): an empty answer
\* means that the service had nothing.
EmptyMeansNothingFound == step = "returned" /\ records = << >> => items = << >>

\* An answer is all or nothing: when it is returned, no item was broken in the
\* middle, and every item with a title, for Crossref also with a DOI or URL, is there
\* once, in the order of the service.
WholeAnswer ==
    LET wanted == {n \in DOMAIN items : /\ items[n].title # None
                                        /\ provider = "crossref" =>
                                              \/ Normalize(NormalDoi, items[n].doi) # None
                                              \/ items[n].id # None}
    IN  step = "returned" =>
           /\ provider = "arxiv" \/ \A n \in DOMAIN items : items[n].object
           /\ \E place \in [DOMAIN records -> wanted] :
                 /\ \A n \in wanted : \E m \in DOMAIN records : place[m] = n
                 /\ \A m, n \in DOMAIN records : m < n => place[m] < place[n]
                 /\ \A n \in DOMAIN records :
                       /\ records[n].title = items[place[n]].title
                       /\ records[n].abstract = items[place[n]].abstract

\* Services that give no identifier to two works, and identifiers that cannot be taken
\* for one of another kind.
IdentifiersApart ==
    /\ Id \cap Doi = {} /\ DOMAIN NormalTitle \cap (Id \cup Doi) = {}
    /\ \A body \in Bodies : \A m, n \in DOMAIN body :
          body[m].id # None /\ body[m].id = body[n].id =>
              Normalize(NormalDoi, body[m].doi) = Normalize(NormalDoi, body[n].doi)

\* If the service never gives one identifier to two works, no two records share a
\* provider key but differ in their DOI: so a provider key never has to be given up in
\* deduplication for works that one service keeps apart.
OneKeyOneWork ==
    \A m, n \in DOMAIN records :
        records[m].source = records[n].source => records[m].doi = records[n].doi
=============================================================================
