# LitWatch in TLA+

LitWatch searches several bibliographic providers, merges what they return,
stores the papers in SQLite under stable ids, and lets a language model analyse
stored papers. This directory models the parts of it that keep state and have
to stay right over many calls, checks them with TLC on small instances, and
proves the main results with TLAPS for all instances. Paths below are relative
to `src/src/litwatch/`.

## 1. The system

| part | state | operations | what makes it correct |
|---|---|---|---|
| Providers (`providers/`) | none | `search` | an answer is passed on whole or fails as a whole; an empty one means that nothing was found |
| Deduplication (`search/deduplication.py`) | none | `deduplicate_papers` | one group per paper; a DOI in one group only; conflicting strong ids never merged |
| Search service (`search/service.py`) | none | `search` | a failing provider harms no other; statuses and counts agree with what happened; filters see united papers |
| Ranking (`search/ranking.py`, `search/acoustic.py`) | none | `rank_papers`, `score_acoustic_relevance` | a total order, whatever provider answered first |
| Journal registry (`journals/registry.py`) | four indexes, built once | `resolve_requested`, `resolve_identity`, `resolve_reference` | precedence of evidence; names, ids and citations mean one journal |
| Identity (`core/identity.py`, `storage/identity.py`) | none | `prepare_paper`, `identity_aliases`, `compatible`, `enrich`, `find_matches` | a merge loses no key; conflicting ids never merge |
| Paper library (`storage/repositories.py`, `reconciliation.py`, `database.py`) | seven SQLite tables | `save`, `get_paper`, `get_scan` | index exact, references whole, scans and old ids survive every later merge, calls atomic |
| Analysis (`analysis/service.py`, `storage/analysis_repository.py`) | table `analyses` | `analyze`, `get` | an analysis stays with its paper, also if nobody was told of it; the library holds up no request |
| LLM gateway (`analysis/gateway.py`) | none | `quick_scan` | only validated addresses and origins are contacted; the key is sent once; one working address is enough |
| HTTP API (`api/app.py`) | none | `POST /search`, `POST /analyze`, `GET` | statuses map the outcomes |

`POST /search` runs `SearchService.search`, which asks the providers, and hands
the result to `SearchRepository.save`; `POST /analyze` runs
`PaperAnalysisService.analyze`, which reads the library, calls the gateway and
writes one row. FastAPI runs both in threads of a pool; they share nothing but
the database file, to which every call opens a connection of its own. What is
hard is therefore in the database: calls that interleave, wait for the one write
lock, time out, fail half-way or die; papers that turn out to be the same after
ids, scans and analyses already refer to them; and a request that holds a paper
id while it waits, for any time, for the language model. Outside of it, it is what
several sources say about one paper: identifiers, years and journals that
disagree, in an order that depends on who was asked first. `PROJECT.json` lists
the hazards line by line.

## 2. Modules

| module | what it is |
|---|---|
| `PaperMetadata` | year and journal of a record, how a journal is resolved, what `enrich` makes of both |
| `PaperIdentity` | records, identity keys, `compatible`, `enrich` as operators |
| `PaperStore` | the library: tables, calls of `save()`, reconciliation, insert of analyses; its properties |
| `PaperCatalog` | the abstract specification: what the library promises about ids, keys, scans, analyses |
| `PaperAnalysis` | `PaperStore` with analysis requests running through it, behind `POST /analyze` |
| `Deduplication` | the records of one search, united by shared identity keys |
| `SearchService` | one search: providers, deduplication, filters, counts, statuses, behind `POST /search` |
| `HintedSearch` | `SearchService` with providers that apply the hints about years and journals |
| `SavedSearch` | `SearchService` composed with `PaperStore`: `POST /search` from end to end |
| `ProviderAdapters` | one call of a provider's `search`: page size, failures, records made of items |
| `Ranking` | acoustic scores, both sort orders, the cut |
| `JournalRegistry` | how the indexes are built, and the three ways to resolve a journal |
| `Gateway` | concurrent calls of `quick_scan` while the DNS changes its answers |
| `PaperStoreInductive` | the inductive invariant `IInv` of `PaperStore` |
| `PaperStoreProofs` | what `compatible`, `enrich` and each table operation preserve; `IInv`, and what it implies; the refinement of `PaperCatalog`; what stored scans show, which papers stay apart, what stays eligible |
| `SearchServiceProofs` | lemmas and theorems of `Deduplication`, `SearchService` and `HintedSearch` |
| `SavedSearchProofs` | the two taken together: what searches that are saved keep of what is proved of each, and what their papers show |
| `PaperAnalysisProofs`, `RankingProofs`, `ProviderAdaptersProofs`, `JournalRegistryProofs`, `GatewayProofs` | lemmas and theorems of these modules |
| `MCPaperStore`, `MCPaperAnalysis`, `MCDeduplication`, `MCHintedSearch`, `MCSavedSearch`, `MCProviderAdapters`, `MCRanking`, `MCJournalRegistry`, `MCGateway` | instances for TLC |

**Identity.** A DOI, arXiv id, provider key or title is a member of a constant
set. The conversions of `core/identity.py` are constant functions from the
spellings that may arrive to normal forms, or to `None` for a spelling nothing
is left of; several spellings may share a normal form. An abstract is its
length and whether it is blank, which is all the code ever asks of it. Of the
journal data of a record, `issn` is the journal its first listed ISSN belongs to
(unlisted ones are skipped by the code, too); `sourceId` and `name` may be
`Unlisted`, which hides later ones as `setdefault` and `or` do. Authors and URL
decide nothing and are left out.

**Store.** `db` holds the committed tables and `tx` the tables as the one
writing connection sees them; `BEGIN IMMEDIATE` copies, `COMMIT` publishes,
rollback and crash discard. A row that does not exist is `None`. The steps of a
call are those after which another thread, a failure or a crash could matter,
and those of the two loops: `Call` (scan id and `now` are fixed *before* the
lock), `Begin` or `BusyTimeout`, then for each record `Match` (`find_matches`
and the choice of the canonical paper), `MergeDuplicate` or `SkipDuplicate` for
each further match (`enrich` and `_reparent`), `Store` (filters, row, keys,
link, or the `ValueError`), and `Commit`. `Abort` is any `sqlite3.Error` at any
of these points. `Time` is the wall clock: it may stand still or go back, so a
call may sample any value. Ids are `uuid4`: `Fresh` draws any unused one, and a
tie on `created_at` in `reconcile`, broken by the random id in the code, may
fall either way. The lookups follow the order of `identity_aliases`, because
`reconcile` prefers `matches[0]`. `Reparent` moves all that refers to a paper and
deletes it in one step: no other thread sees anything between, as `tx` is private.
In which order the statements of `_reparent` stand, which the immediate foreign keys
would tell apart, is thereby left out.

**Catalogue.** `PaperCatalog` knows nothing of matching, transactions or failures:
classes of ids may only grow together, and whatever referred to a paper (a key,
a recorded scan, an analysis) refers from then on to the paper its id stands for.
`PaperStore!KeepsCatalog` is the refinement: `resolve` is `get_paper` on the
committed tables, `shown` the links of a scan.

**Analysis.** A request is `select`ing from papers, then perhaps from
`paper_redirects` (two statements with no transaction around them: another call
may commit between), `ask`ing the model while no lock is held, and `store`ing.
The insert is refused by its foreign key if the paper is gone. `StoreAnswer` ends with
`COMMIT`; `Reply` comes after it, so a crash between leaves a row of which no client
was told.

**Deduplication.** One step per key of a record: the key is new (`Remember`), leads
to a group that may be joined (`Unite`), or is passed over. `root` is what
`root(index)` returns; the parents between, and how the function shortens them,
are abstracted, as only roots are ever compared. `dois` and `arxivs` matter at
roots only, as in the code. Every record names its source and the id it has
there, as the adapters' records do.

**Search.** `SearchService` extends `Deduplication`: providers are asked in turn and
answer with a list or raise; `outcomes` is the history of that. When all have
been asked, the deduplication steps run on what came in, then `Rank` merges each
group (`_merge`), resolves its journal, filters, orders and cuts. The acoustic
score is a constant set of titles and abstracts that reach the threshold, and the
ranking any order: a search that is correct for every order is correct for the
one that the scores give. `HintedSearch` gives every provider a catalogue of which
it sends all, or what `DateHint` and `SourceHint` leave of it, and makes the same
request both ways to compare. `SavedSearch` extends `SearchService` and `PaperStore`
and hands the result of the one to the other: `Handed` is a paper as `save()` gets it,
with its records in list order, and the client sends its next request when it has been
answered.

**Adapters.** A call takes the items of an answer one by one and returns or raises as
a whole. An item is what the three adapters look at; what reading its other fields
raises, if anything, is `broken`. `Send` computes the page size as the code does (limit,
pool, rows), which documents what a service is asked; no property reads it, since how
many items a service then lists is its own affair. How a call ends is what `SearchService` takes for
`Answers` and `Failures`.

**Ranking.** Scores are computed exactly, in units so small that the two roundings of
the code become integer divisions; words and phrases are sequences. `Ranked` is a stable
sort, as `list.sort` is: a paper's place is one more than the number of papers that
go before it, by their keys or, where these are equal, by their arrival.

**Registry.** `Define` is one turn of the constructor's loop, and questions may come
after any number of definitions, so every order of definitions is tried. A name is
the sequence of its words, and a citation's suffix is what the regular expression
looks at. The code compares characters (`startswith`); numbers, volume signs and
separators are therefore words of their own here, also where the citation has no space
before them: "Nature12" is the name Nature followed by a number.

**Gateway.** A call is `resolve`, `connect`, `tls`, `reply`. `Rebind` is the owner of
a domain at work; `dialled` is the origin that httpx reads out of the URL, which
need not be the one that validation read; `connect_tcp` refuses (`Mismatch`) where the
two differ. `Dial` is one turn of its loop.

## 3. What the runs check

| run | instance | shows |
|---|---|---|
| `merges` | 3 calls one after the other, 8 batches of up to 3 records, 4 ids, 2 clock values, 1 analysis | `TypeOK`, `AliasIndex`, `NoAliasConflict`, `NoDanglingReference`, `RedirectsFlat`, `ScanKeepsItsRecords`, `ScanOrder`, `ApartOnlyByConflict`, `RepeatShowsTheSame`, `EligibleStays`, `KeepsCatalog` |
| `analysis` | 3 overlapping calls, 3 batches, 3 ids, 1 request, crashes | `AliasIndex`, `FailedCallLeavesNothing`, `GivenIdIsFound`, `AnalysisFollowsPaper`, `EveryCallEnds`, `LibraryDelaysNoRequest` |
| `dedup` | all lists of 3 records out of 36, of 4 out of 10 | `NoConflictingDois`, `ArxivsMeetUnderOneDoi`, `StrongIdsTogether`, `GroupsAreLinked` |
| `search` | 3 providers, 90 catalogues or 8 errors each, 12 requests of which 6 are refused, with and without hints | `CountsAgree`, `NothingInRangeIsLost`, `JournalByIssn`, `StatusFits`, `HintsSuitLonePapers` |
| `saved_search` | 2 providers, 4 requests, 2 scans one after the other | `NewPapersPassFilters`, `EveryRequestIsAnswered` |
| `adapters` | 3 adapters, answers of up to 3 items of 11 kinds, every error | `EmptyMeansNothingFound`, `WholeAnswer`, `OneKeyOneWork` |
| `ranking` | up to 3 of 7 papers in every order, 3 topics, 2 limits, with and without journals | `ArrivalDoesNotMatter`, `LimitIsUsed` |
| `registry` | 4 of the listed journals in every order of definition | `RequestMeansItsJournal`, `StrongestEvidenceDecides`, `CitationMeansWholeName` |
| `gateway` | 2 concurrent calls, 6 base URLs, 2 hosts bound to 6 answers in turn | `OnlyPublic`, `KeyGoesOnce`, `FailsOnlyIfUnreachable`, `ConnectingEnds` |
| `dedup_order` | 3 records of one title | `NoDuplicateGroups` is violated (section 5) |
| `analysis_refused` | 3 scans, 1 request | `AnswerIsKept` is violated (section 5) |
| `journal` | 3 scans, a journal by its ISSN and one by its name | `IdentifierOutranksName` is violated (section 5) |

*Bounds.* Three scans are the least in which a bridge unites papers that were
stored apart. Two DOIs and two arXiv ids are what a conflict takes. The batches of
`merges` contain a record without strong ids, one with a DOI (as a URL), two with
arXiv ids, bridges between each two and between all three, and a rival with another
DOI, so merges occur within a scan, across scans, in chains and are refused; with
years and journals that agree, differ or are missing. `OneCall` bounds `merges` to
one call at a time, and a second one that waits while the first has just begun: what
concurrency does is the subject of `analysis`, and no call can see another's `tx`.
There, one scan brings three papers that nothing unites yet, and two more scans bring
bridges: so two merges may follow each other while one request is between its two
reads of the library, which is the least in which the id that the first read missed
could become a redirect to a paper that is itself gone when the second one is made.
`Planned` says what each of the three scans may find; they come in any order and
overlap, and what the bridges find depends on it. Three records are what it takes to move a group that
has formed already or to forget what it holds, and four to join two groups of two. The
catalogues of `search` include a work whose year only other providers know, one whose
ISSN and name disagree, a preprint in two spellings, an article that bridges DOI and
arXiv id, and papers of one provider each, of which the hints must neither drop nor
add any. `saved_search` has a paper that two providers date and place differently and
a preprint of it, so that the second scan unites what the first one stored. `Most`
bounds the papers ranked at a time, as any two decide the order of a pair. A host
bound to `<<pub2, priv>>` is the least on which one public address is not enough, and
`<<pub1, pub2, pub1>>` names an address twice. Papers and scans are symmetric in
`merges` and in the runs that refute, DOIs and arXiv ids in those of `Deduplication`.
`CHECK_DEADLOCK FALSE` everywhere: when every scan id and request is used up, the
instance stops, the system does not.

*Fairness.* A thread that waits for the lock gets it or times out (`Begin` or
`BusyTimeout`), and the holder executes its next statement or fails at it (`Work` or
`Abort`); weak fairness of both, per call, is what a thread pool gives. No fairness is
assumed of new calls, crashes, errors, or of the lock being granted. In `PaperAnalysis`
also each request keeps running, but for `Ask`: the gateway's `timeout=30` bounds each
operation on a socket and not the reply, whose body may be of any length
(`gateway.py:213-218`, `246`), and `getaddrinfo` (line 85) has no timeout. So the code does
not guarantee that a call of the gateway or an analysis request ends, and no property
says so. `LibraryDelaysNoRequest` says what remains true: before and after the wait for
the model, a request is not held up. `ConnectingEnds` rests on weak fairness of
the steps of `connect_tcp` alone, each of which is one attempt to connect and bounded by
the timeout. In `SavedSearch` the thread that serves the request keeps running, which
includes that each call of a provider ends: of these services, whose addresses are fixed,
that is assumed.

## 4. What is proved

The assumptions are named in the modules that declare the constants. They give the
constants their types, say that `None` is no value (`NormalFormAssumption`,
`NoneAssumption`, `MetadataAssumption`, `StoreAssumption`, `CandidatesAssumption`,
`RegistryAssumption`, `AdapterAssumption`, `GatewayAssumption`), that the providers of a
service differ (`SearchAssumption`) and that each of them sends records under its own
name (`AnswersAssumption`, and for catalogues `HintAssumption`: `Paper.source` in
`openalex.py`, `arxiv.py`, `crossref.py`; a source id that is a listed journal's is one
that the registry has for that journal, `Sourced`), that a normal form is also a
spelling that may be sent (`SavedAssumption`: `prepare_paper` gets identifiers that a
search has normalized already), and that no two papers of a search agree in title, source
and provider id (`RankingAssumption`: records with one provider id are united before, unless
a service gives one id to works with different identifiers).
What only some theorems need is a hypothesis of theirs, and but for the last one, which
no finite instance can satisfy, the instance of the run is checked to satisfy it:

| hypothesis | of | why the code has it |
|---|---|---|
| `BlankMeansEmpty` | `EligibilityStays` | `arxiv.py` and `crossref.py` split and join an abstract, `openalex.py` joins the words of an index; `enrich` compares lengths, `analysis_eligible` asks for a character that is not blank |
| `NamesApart` | `RequestsResolved`, `CitationsResolved` | `JOURNAL_REGISTRY` has no name twice, and none with a volume sign or a number in it |
| `VolumesNumbered` | `CitationsResolved` | a citation that says "vol." goes on with the volume |
| `IdentifiersApart` | `KeysKeepWorksApart` | a service gives no id to two works; ids, DOIs and titles look different |
| `Seq(Scored) \subseteq Batches` | `SavedIsStore`, `SavedKeepsPromises` | `save()` takes whatever records a search hands over: `Batches = Seq(Scored)` |

For `PaperStore`, for every set of ids, records, batches and clock values:

| theorem | says |
|---|---|
| `Inductive` | `Spec => []IInv` |
| `TypeCorrect` | `[]TypeOK` |
| `ReferencesWhole` | `[]NoDanglingReference` |
| `OneHopIsEnough` | `[]RedirectsFlat` |
| `IndexExact` | `[]AliasIndex` |
| `ConflictUnreachable` | `[]NoAliasConflict` |
| `Atomic` | `[]FailedCallLeavesNothing` |
| `Implements` | `Spec => KeepsCatalog` |
| `RankingsStay` | `[]ScanOrder` |
| `RecordsStay` | `[]ScanKeepsItsRecords` |
| `RepeatsAgree` | `[]RepeatShowsTheSame` |
| `WorksStayOne` | `[]ApartOnlyByConflict` |
| `EligibilityStays` | `EligibleStays` (an action property) |

None of the properties is inductive by itself: in the middle of a record the
index is *not* exact, since `_reparent` has moved the keys of a duplicate to the
canonical paper while its row is written only later. `IndexedBut` says what holds
instead: the index is exact for all papers but the canonical one; the record in
memory has every key under which that one is found, and the DOI and arXiv id of
that record belong to it. The unreachable `ValueError` rests on `DoiAtHand`:
nothing filters a DOI another paper owns, but the DOI is looked up first, so its
owner is `matches[0]`, and so either canonical or compatible with the canonical
paper; as it is first also among what is left to merge, it is absorbed before any
other duplicate can bring a conflicting id. `GrownFrom(db, tx)` carries the
refinement through a transaction: what is committed can still be read off the
working copy, every reference followed. The proofs go table operation by table
operation (`Reparent...`, `Upsert...`, `InsertScan...`), then step by step.

The last five theorems add four invariants, each preserved together with `IInv`:

- `OrderInv`: the links of the scan being written lie before the record at hand, and if
  a scan is ranked by score, two links that `_reparent` joins become one of the two.
- `KeptInv`: a scan shows *exactly* its records. Each record is looked up by the key that
  comes first for it, `Home`. Whatever paper owns that key now has a link at the record's
  position or before and with its score or more (`Keeps`), and the position and the score
  of every link are those of records that it stands for (`Earned`). As this says what the
  links are without saying when they were written, two scans of the same records cannot
  differ: hence `RepeatsAgree`, and `RecordsStay` for the strongest identifier. For
  the record at hand the argument is `HomeAtHand`: who owns that key is the canonical
  paper or a match still to be merged, and no match contradicts the record, so that
  `enrich` leaves the key in the paper that gets the link.
- `ApartInv`: a key of a saved record finds the paper that its strongest identifier finds,
  or a paper that contradicts that paper or the record, or, if it is an arXiv id, nothing,
  because the paper already had another. This survives merges because a paper only ever
  *gains* strong identifiers (`Dominates`): who contradicted it before does so afterwards,
  and a key that nothing was found under is later found under a paper that contradicts.
  `OthersAtHand` says the same of the record at hand, with the matches still to be merged.
- `EligibleInv`: an id that `db` shows an eligible paper for shows one in `tx`. `enrich`
  takes the longer abstract, so with blank ones empty no text gives way to a blank.

For `PaperAnalysis`, over any library and any number of requests:

| theorem | says |
|---|---|
| `AnalysisTypes` | `SpecAnalysis => []AnalysisTypeOK` |
| `GivenIdIsAlwaysFound` | `[]GivenIdIsFound` |
| `AnalysisAlwaysFollowsPaper` | `[]AnalysisFollowsPaper` |

`AnalysisInv` adds to `IInv` that an id which is not live in `db` has a redirect
once it was given out, and that this stays so in `tx` (`Retired`), so that a merge
committed between the two reads of `get_paper` leaves the second one something to
find; and for each request what it knows at its step (`OfRequest`): a row under its id is
about the paper that `asked` stands for whether the request has replied, is about to, or
died in between. The steps of the
library are taken over from `PaperStoreProofs` as they are.

For `Deduplication`, over any number of records:

| theorem | says |
|---|---|
| `GroupsAccounted` | `SpecDedup => []DedupInv` |
| `DedupTypes` | `[]DedupTypeOK` |
| `DoisStayApart` | `[]NoConflictingDois` |
| `ArxivsNeedDoi` | `[]ArxivsMeetUnderOneDoi` |
| `UnionsHaveReasons` | `[]GroupsAreLinked` |
| `StrongIdsStay` | `[]StrongIdsTogether` |

`Apart` compares what two roots know, so the argument needs that roots know exactly
the identifiers of their groups (`IdsExact`), and, for a match by DOI, which is not
tested at all, that the key at hand really is a key of both records (`KeysTrue`):
then each group can only hold that DOI.

The last two theorems add an invariant each. `LinkedInv`: the keys at hand never include
an empty title, so a union always adds a pair that shares a key, and a cut through the
united group either cuts one of the two or separates that pair. `TogetherInv`: once the
DOI of a record has been looked at, it is in the group of the first record that had
it; with an arXiv id likewise, unless the two groups hold different DOIs, and then
they always will, as a group has one DOI at most. A record whose DOI has not been
looked at yet is alone, because `_identity_keys` puts the DOI first.

For `SearchService`, over any providers, answers, errors and requests:

| theorem | says |
|---|---|
| `SearchAccounted` | `SpecSearch => []SearchInv` |
| `CountsStay` | `[]CountsAgree` |
| `NothingLost` | `[]NothingInRangeIsLost` |
| `IssnDecides` | `[]JournalByIssn` |
| `StatusTrue` | `[]StatusFits` |
| `HintedSearchToo` | `SpecHinted => [](CountsAgree /\ NothingInRangeIsLost /\ JournalByIssn /\ StatusFits)` |
| `HintsSuit` | `SpecHinted => []HintsSuitLonePapers` |

`SearchInv` says what each phase may rely on: while providers are asked, each result is
that of its provider, counts its records and tells what it did, every record
comes from a provider that works, and deduplication has not begun; then `DedupInv` holds,
step by step as for `Deduplication` alone; and when all is done, the list shown is one of
the rankings of the groups (`Rankings`) and the counts and statuses are made from it. The
properties follow from what a ranking is: `_merge` credits exactly the providers of
a group's records, takes the first year that any of them has, and keeps every
ISSN, so that a listed one of any record is found before names are looked at.

`HintInv` takes this through the two searches of `HintedSearch`. The records of each are
those of the catalogue, as far as the hints let them through (`FromCatalog`); where no
two records of the catalogue share a key, `GroupsAreLinked` leaves each of them alone in
its group, so what passes is a matter of single records (`LonePassing`), and
what the filters let pass, the hints do too (`HintsLetPass`). The invariant then only has
to remember of the first search what it showed (`BeforeInv`): exactly the records that
pass, of which there are fewer than the limit, so that the second one is not cut either.

For `SavedSearch`, over any searches that are saved one after the other:

| theorem | says |
|---|---|
| `SavedAccounted` | `SpecSaved => []SavedInv` |
| `NewPapersPass` | `[]NewPapersPassFilters` |
| `SavedTogether` | the invariants of the search and of the library, all at once |
| `SavedIsStore` | `SpecSaved => Spec`: a refinement of `PaperStore` |
| `SavedKeepsPromises` | so its scans keep their records and their order, repeats agree, papers stay apart only by conflict, and `KeepsCatalog` |

That each module keeps its invariant while the other one moves is the easy part, once what
a search hands over is known to be what `save()` takes (`BatchHandedOver`). The filters take
more: `enrich` may exchange the year and resolve the journal of a stored paper anew, so that
a paper passed the filters once says nothing of what the library shows later. `SavedInv`
therefore says where year and journal come from. Each is that of a record of some scan
that shows the paper (`Vouched`), each record of a scan passed the filters of the scan
(`BatchesPass`), and the journal is the one that the paper's own evidence leads to
(`Placed`). Of two such papers `enrich` makes another: it takes the year of one of them, and
of its evidence only what leads to the journal of one of them (`EnrichPlaces`); and the
merged paper is shown by every scan that showed one of the two (`ReparentFollows`). If only
one scan shows a paper, year and journal come from that scan, and so pass its filters.

For `Ranking`, over any papers, weights, topics and limits:

| theorem | says |
|---|---|
| `RankingAnswers` | `SpecRanking => []RankingInv` |
| `FullResponses` | `[]LimitIsUsed` |
| `SameOrder` | `SpecRanking => ArrivalDoesNotMatter` (an action property) |

The keys are sequences of integers of one length, whose order is total (`KeysInOrder`), and
they end in what tells papers apart (`KeyType`). So the place of a paper is one more than
the number of qualified papers with a smaller key (`PlaceIn`), and the places are a
bijection from these papers to `1..n` (`PlacesTaken`): the response shows at each place the
paper whose place it is (`Shown`), and neither the order of arrival nor the limit
occurs in that.

For `JournalRegistry`, over any definitions in any order, and any question:

| theorem | says |
|---|---|
| `RegistryIndexed` | `SpecRegistry => []RegistryInv` |
| `RequestsResolved` | `[]RequestMeansItsJournal` |
| `EvidenceDecides` | `[]StrongestEvidenceDecides` |
| `CitationsResolved` | `[]CitationMeansWholeName` |

`RegistryInv`: each index is exact for the definitions so far (`Exact`: a key leads to
one that has it, and to none only if none has), and the answer is by these indexes. So the
strongest evidence decides even where definitions share keys; only *which* journal a name
means takes `NamesApart`. For citations: of two names that a citation begins with,
one is a beginning of the other, and what follows the shorter one in the citation is a
word of the longer one, which is neither a number nor a volume sign; so the shorter one
is refused.

For `ProviderAdapters`, over answers of any length:

| theorem | says |
|---|---|
| `RecordsFollowItems` | `SpecAdapter => []AdapterInv` |
| `EmptyIsEmpty` | `[]EmptyMeansNothingFound` |
| `AnswersAreWhole` | `[]WholeAnswer` |
| `KeysKeepWorksApart` | `[]OneKeyOneWork` |

`AdapterInv` has a witness for what "whole and in order" means: a bijection `place` that
keeps the order, from the records made to the usable items looked at, of which
none was broken (`Places`). Two records with one key are then two items, and by the
forms that a key may take (an id, else a DOI, else a title) these have one DOI.

For `Gateway`, over any number of calls, hosts and answers of the resolver:

| theorem | says |
|---|---|
| `GatewayTypes` | `SpecGateway => []GatewayTypeOK` |
| `OnlyPublicHolds` | `[]OnlyPublic` |
| `KeyGoesOnceHolds` | `[]KeyGoesOnce` |
| `FailsOnlyIfUnreachableHolds` | `[]FailsOnlyIfUnreachable` |

`GatewayInv` says of each call that `addresses` are what the resolver gave it, each
once and all public (`Captured`), that the connections tried are a beginning of that
list of which only the last may have been accepted, that `last` is how that one
ended, and that none was tried unless httpx read the origin that was validated: the one lookup of a call is all that its loop ever uses.

Only model-checked is what has to happen eventually (`EveryCallEnds`, `LibraryDelaysNoRequest`,
`EveryRequestIsAnswered`, `ConnectingEnds`): liveness under fairness is out of the
prover's reach. Every invariant and every other action property of a run is proved.

The type invariants of `PaperAnalysis`, `Deduplication` and `Gateway`, and the inductive
invariants as such, are proved and not run.

## 5. Findings

`AnswerIsKept` fails: `analyze()` inserts under the id it read before it called
the language model. If a search unites that paper with an older one meanwhile,
the row is deleted, the insert fails with `sqlite3.IntegrityError`, nothing
catches it, and the client gets HTTP 500 and loses the answer, although its paper
is still there under the other id. `reconciliation.py:1` promises "preserving old
IDs as redirects", and the tests cover only a bridge that comes after the insert.

`IdentifierOutranksName` fails: `enrich` replaces the ISSNs of a stored paper by
those of the registry as soon as its journal has been resolved, be it by a name. The
next merge takes them for evidence of the record, and a name thus outranks the ISSN
that another record really had, against the design document, line 72.

`NoDuplicateGroups` fails: `deduplication.py:68` promises "Union identities
transitively, using titles only if stronger IDs do not conflict." but `seen` keeps
the first record of a title even after later ones have been kept apart from it.
An arXiv preprint and the article it became, of one title, are united unless a
third paper of that title, with another DOI and another arXiv id, is listed first.

Three properties carry a condition that the code needs and the design document
does not mention:

- `NewPapersPassFilters` speaks of papers that one scan brought in. A paper that an
  earlier scan stored keeps its year and may keep its journal (`enrich`), so the
  answer of a later, filtered search may show it with a year or journal outside the
  filters; nothing filters after persistence.
- `HintsSuitLonePapers` speaks of papers that one provider knows. If a preprint of
  2023 and its article of 2024 are one paper, a search up to 2023 in the article's
  journal finds it without hints, while with them Crossref is not asked for the
  article, which alone names the journal.
- It also asks that OpenAlex's source id agrees with the other evidence
  (`SourcesAgree`): a work with an unlisted source but the name of a listed journal
  passes the local filter, and the source hint keeps it away.

## 6. What is left

- Proofs of liveness, which stays with TLC.
- Concurrency of more than three calls of `save()` is covered by the theorems, not by
  a run; so is `SavedSearch` with several clients at a time.

Not guaranteed by the code, and so not stated: that a call of the gateway ends (section
3, fairness).

Not modelled: the order of the statements of `_reparent`; authors and URLs; the text conversions (normal forms of identifiers,
titles and names, JATS and inverted abstracts), which are constant functions here;
validation by pydantic beyond what decides 422; the gateway with an injected client,
which only tests use, and `connect_unix_socket`, which is never called; the parsing of
the model's answer; the `GET` handlers, which read what the properties read; the web
package, which is empty. Priority levels of journals matter to the ranking only as
present or absent. A title without a word character is a hazard of `find_matches` that no
property covers: nothing the model can see tells such a union from the title fallback
that the code intends.
