------------------------------ MODULE HintedSearch ------------------------------
(***************************************************************************)
(* The hints about years and journals that a search sends along with the   *)
(* topic (src/litwatch/providers/*.py, search/service.py), and what they   *)
(* change.  Providers may apply them or not; the search filters anyway,    *)
(* after the records of a paper have been united.                          *)
(*                                                                         *)
(* The same request is made twice: first the providers send all that they  *)
(* know of the topic, or fail; then, if none failed, only what the hints   *)
(* leave of it.  (Twice is this module's way to compare the two; the       *)
(* service knows one request.)                                             *)
(***************************************************************************)
EXTENDS SearchService

CONSTANTS
    Catalogs, \* provider -> the records it knows, in its own order
    Sourced   \* the listed journals with an OpenAlex source id in the registry

\* Records that say a journal's source id are of a journal that has one.
ASSUME HintAssumption ==
    /\ Sourced \subseteq Journal
    /\ \A catalog \in Catalogs :
          /\ DOMAIN catalog = Provider
          /\ \A provider \in Provider :
                /\ catalog[provider] \in Seq({record \in Sent : record.provider = provider})
                /\ \A n \in DOMAIN catalog[provider] :
                      LET sourceId == catalog[provider][n].meta.sourceId
                      IN  sourceId \in Journal => sourceId \in Sourced

VARIABLES
    known,  \* the catalog
    hinted, \* is it the second time?
    before  \* the papers shown the first time

hintVars == <<searchVars, known, hinted, before>>

-----------------------------------------------------------------------------

\* Faulty variant of DateHint: the bounds are exclusive.
DateHintExclusive(year) ==
    /\ request.from # None => year # None /\ year > request.from
    /\ request.to # None => year # None /\ year < request.to

\* from_publication_date, from-pub-date, submittedDate: first and last day of the
\* years.  What has no date is left out.
DateHint(year) ==
    /\ request.from # None => year # None /\ year >= request.from
    /\ request.to # None => year # None /\ year <= request.to

\* primary_location.source.id, if some requested journal has such an id.
SourceHint(provider, sourceId) ==
    provider = "openalex" /\ request.journals \cap Sourced # {} =>
        sourceId \in request.journals \cap Sourced

\* What the hints let a provider send.
Allows(provider, record) ==
    DateHint(record.meta.year) /\ SourceHint(provider, record.meta.sourceId)

\* What a provider sends of the records it knows, in its own order: one list, of as
\* many records as it may send.
Sends(provider) ==
    LET wanted == {n \in DOMAIN known[provider] :
                      hinted => Allows(provider, known[provider][n])}
        places == {place \in [1..Cardinality(wanted) -> wanted] :
                      /\ \A n \in wanted : \E m \in DOMAIN place : place[m] = n
                      /\ \A m, n \in DOMAIN place : m < n => place[m] < place[n]}
    IN  {[m \in DOMAIN place |-> known[provider][place[m]]] : place \in places}

InitHinted ==
    /\ InitSearch
    /\ known \in Catalogs
    /\ hinted = FALSE
    /\ before = << >>

AnswerHinted(provider) ==
    /\ \E records \in Sends(provider) : Answer(provider, records)
    /\ UNCHANGED <<known, hinted, before>>

FailUnhinted(provider, error) ==
    /\ ~hinted
    /\ Raise(provider, error)
    /\ UNCHANGED <<known, hinted, before>>

Proceed ==
    /\ Refuse \/ Collect \/ Deduplicate \/ Rank \/ NothingWorked
    /\ UNCHANGED <<known, hinted, before>>

\* The request is made again.
Again ==
    /\ phase = "done" /\ ~hinted
    /\ \A n \in DOMAIN outcomes : outcomes[n] = "answered"
    /\ http = "200"
    /\ hinted' = TRUE
    /\ before' = shown
    /\ phase' = "ask" /\ results' = << >> /\ outcomes' = << >>
    /\ shown' = << >> /\ status' = None /\ http' = None
    /\ papers' = << >> /\ index' = 0 /\ todo' = << >>
    /\ seen' = [key \in SharedKey |-> 0]
    /\ root' = << >> /\ dois' = << >> /\ arxivs' = << >>
    /\ UNCHANGED <<request, known>>

NextHinted ==
    \/ \E provider \in Provider :
          \/ AnswerHinted(provider)
          \/ \E error \in Failures : FailUnhinted(provider, error)
    \/ Proceed
    \/ Again

SpecHinted == InitHinted /\ [][NextHinted]_hintVars

-----------------------------------------------------------------------------
(* What must hold.                                                          *)

Compared == phase = "done" /\ hinted

KeysOf(record) ==
    {<<"doi", Normalize(NormalDoi, record.doi)>>, <<"arxiv", Normalize(NormalArxiv, record.arxiv)>>,
     <<"provider", FoldKey[record.source]>>, <<"title", NormalTitle[record.title]>>}
        \ {<<"doi", None>>, <<"arxiv", None>>}

\* No two records of the catalog are of one paper.
EachKnownOnce ==
    \A p, q \in Provider : \A m \in DOMAIN known[p], n \in DOMAIN known[q] :
        KeysOf(known[p][m]) \cap KeysOf(known[q][n]) # {} => p = q /\ m = n

\* What OpenAlex gives as the source of a work is the journal that its other data say.
SourcesAgree ==
    \A n \in DOMAIN known["openalex"] :
        LET meta == known["openalex"][n].meta IN IfListed(meta.sourceId) = JournalOf(meta)

Identifiers(list) == {<<list[n].doi, list[n].title>> : n \in DOMAIN list}

\* As long as each paper is known to one provider only, and its source id is the one of
\* its journal, the hints change nothing: what they ask of a record the filters would
\* have asked of the paper, no more and no less (up to the cut, which may take any).
HintsSuitLonePapers ==
    Compared /\ EachKnownOnce /\ SourcesAgree /\ Len(before) < request.limit =>
        Identifiers(shown) = Identifiers(before)
=============================================================================
