----------------------------- MODULE PaperIdentity -----------------------------
(***************************************************************************)
(* What makes two bibliographic records the same paper: the identity keys  *)
(* of a record, the compatibility test that forbids a merge, and the       *)
(* enrichment of a stored record by another one                            *)
(* (src/litwatch/storage/identity.py, src/litwatch/core/identity.py).      *)
(*                                                                         *)
(* A DOI, arXiv id, provider key ("source:provider_id") or title is a      *)
(* value of a constant set; the conversions of core/identity.py are        *)
(* constant functions from the spellings a provider may send to the normal *)
(* form, several spellings sharing one normal form.  An abstract is its    *)
(* length and whether it is blank: nothing else of it is ever compared.    *)
(***************************************************************************)
EXTENDS PaperMetadata, Sequences

CONSTANTS
    Doi,          \* normal forms of DOIs
    ArxivId,      \* normal forms of arXiv ids
    ProviderKey,  \* case-folded "source:provider_id" strings
    Title,        \* normalized titles
    Abstract,     \* abstracts: [length, blank] records
    NormalDoi,    \* spelling of a DOI -> its normal form, or None
    NormalArxiv,  \* spelling of an arXiv id -> its normal form, or None
    NormalTitle,  \* title as sent -> normalized title
    FoldKey       \* provider and provider_id as sent -> provider key

ASSUME NormalFormAssumption ==
    /\ NormalDoi \in [DOMAIN NormalDoi -> Maybe(Doi)]
    /\ NormalArxiv \in [DOMAIN NormalArxiv -> Maybe(ArxivId)]
    /\ NormalTitle \in [DOMAIN NormalTitle -> Title]
    /\ FoldKey \in [DOMAIN FoldKey -> ProviderKey]
    /\ Abstract \subseteq [length : Nat, blank : BOOLEAN]

\* A record as SearchService hands it over (core/models.py, class Paper).
RawPaper == [doi : Maybe(DOMAIN NormalDoi), arxiv : Maybe(DOMAIN NormalArxiv),
             aliases : Seq(DOMAIN FoldKey), source : DOMAIN FoldKey,
             title : DOMAIN NormalTitle, abstract : Abstract, meta : Metadata]

\* The same record as the papers table holds it.
Paper == [doi : Maybe(Doi), arxiv : Maybe(ArxivId),
          aliases : SUBSET ProviderKey, source : ProviderKey,
          title : Title, abstract : Abstract, meta : Metadata]

ASSUME NoneAssumption ==
    None \notin Doi \cup ArxivId \cup ProviderKey \cup Paper

\* The primary keys (kind, value) of the table paper_aliases.
Key == ({"doi"} \X Doi) \cup ({"arxiv"} \X ArxivId)
         \cup ({"provider"} \X ProviderKey)

-----------------------------------------------------------------------------

Normalize(form, spelling) == IF spelling = None THEN None ELSE form[spelling]

\* The provider keys of a record in list order, its own source last.
ProviderKeys(raw) ==
    [n \in 1..Len(raw.aliases) + 1 |->
        FoldKey[IF n <= Len(raw.aliases) THEN raw.aliases[n] ELSE raw.source]]

\* Faulty variant of Prepare: provider keys are kept in the case they came in.
PrepareKeepsCase(raw) ==
    [doi      |-> Normalize(NormalDoi, raw.doi),
     arxiv    |-> Normalize(NormalArxiv, raw.arxiv),
     aliases  |-> {raw.aliases[n] : n \in 1..Len(raw.aliases)} \cup {raw.source},
     source   |-> FoldKey[raw.source],
     title    |-> NormalTitle[raw.title],
     abstract |-> raw.abstract,
     meta     |-> raw.meta]

\* prepare_paper: normal forms, and the record's own source among its aliases.
Prepare(raw) ==
    [doi      |-> Normalize(NormalDoi, raw.doi),
     arxiv    |-> Normalize(NormalArxiv, raw.arxiv),
     aliases  |-> {ProviderKeys(raw)[n] : n \in 1..Len(raw.aliases) + 1},
     source   |-> FoldKey[raw.source],
     title    |-> NormalTitle[raw.title],
     abstract |-> raw.abstract,
     meta     |-> raw.meta]

\* identity_aliases: the keys under which a paper is indexed ...
HasKey(paper, key) ==
    \/ key[1] = "doi" /\ key[2] = paper.doi
    \/ key[1] = "arxiv" /\ key[2] = paper.arxiv
    \/ key[1] = "provider" /\ key[2] \in paper.aliases

\* ... and the order in which those of an incoming record are looked up:
\* DOI, then arXiv id, then provider keys.
StrongKey(kind, value) == IF value = None THEN << >> ELSE << <<kind, value>> >>

ProviderLookups(raw) ==
    [n \in 1..Len(raw.aliases) + 1 |-> <<"provider", ProviderKeys(raw)[n]>>]

LookupKeys(raw) ==
    StrongKey("doi", Prepare(raw).doi) \o StrongKey("arxiv", Prepare(raw).arxiv)
      \o ProviderLookups(raw)

Differ(v, w) == v # None /\ w # None /\ v # w

\* compatible: a match by kind may be the same paper unless stronger ids differ.
Compatible(existing, incoming, kind) ==
    /\ ~Differ(existing.doi, incoming.doi)
    /\ kind \in {"provider", "title"} => ~Differ(existing.arxiv, incoming.arxiv)

\* Faulty variant of Enrich: the aliases of the other record are forgotten.
EnrichForgetsAliases(existing, incoming) ==
    [doi      |-> FirstKnown(existing.doi, incoming.doi),
     arxiv    |-> FirstKnown(existing.arxiv, incoming.arxiv),
     aliases  |-> existing.aliases \cup {existing.source},
     source   |-> existing.source,
     title    |-> existing.title,
     abstract |-> IF incoming.abstract.length > existing.abstract.length
                  THEN incoming.abstract ELSE existing.abstract,
     meta     |-> EnrichMetadata(existing.meta, incoming.meta)]

\* Faulty variant of Enrich: the incoming abstract replaces the stored one.
EnrichTakesAbstract(existing, incoming) ==
    [doi      |-> FirstKnown(existing.doi, incoming.doi),
     arxiv    |-> FirstKnown(existing.arxiv, incoming.arxiv),
     aliases  |-> existing.aliases \cup incoming.aliases \cup {existing.source},
     source   |-> existing.source,
     title    |-> existing.title,
     abstract |-> incoming.abstract,
     meta     |-> EnrichMetadata(existing.meta, incoming.meta)]

\* enrich: existing identifiers win, aliases accumulate (existing's own source
\* is put back), the longer abstract is kept.
Enrich(existing, incoming) ==
    [doi      |-> FirstKnown(existing.doi, incoming.doi),
     arxiv    |-> FirstKnown(existing.arxiv, incoming.arxiv),
     aliases  |-> existing.aliases \cup incoming.aliases \cup {existing.source},
     source   |-> existing.source,
     title    |-> existing.title,
     abstract |-> IF incoming.abstract.length > existing.abstract.length
                  THEN incoming.abstract ELSE existing.abstract,
     meta     |-> EnrichMetadata(existing.meta, incoming.meta)]

\* Paper.analysis_eligible: derived from the abstract, never stored.
AnalysisEligible(paper) == ~paper.abstract.blank
=============================================================================
