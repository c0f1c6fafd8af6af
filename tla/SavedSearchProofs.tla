---------------------------- MODULE SavedSearchProofs ----------------------------
(***************************************************************************)
(* Proofs about SavedSearch: what the search promises about its papers     *)
(* still holds of the library that its results are saved to.               *)
(***************************************************************************)
EXTENDS SavedSearch, SearchServiceProofs, PaperStoreProofs

-----------------------------------------------------------------------------
(* The list of the records of a paper.                                      *)

\* Any finite set of places in a list can be gone through in list order.
LEMMA ListedType ==
    ASSUME NEW S \in SUBSET Nat, IsFiniteSet(S)
    PROVE  /\ Cardinality(S) \in Nat
           /\ Listed(S) \in [1..Cardinality(S) -> S]
           /\ \A m, n \in 1..Cardinality(S) : m < n => Listed(S)[m] < Listed(S)[n]
<1> DEFINE upTo(i) == {j \in S : j <= i}
           size == Cardinality(S)
           rank == [i \in S |-> Cardinality(upTo(i))]
<1>1. size \in Nat
    BY FS_CardinalityType
<1>2. ASSUME NEW i \in S
      PROVE  IsFiniteSet(upTo(i)) /\ Cardinality(upTo(i)) \in 1..size
    <2>1. upTo(i) \in SUBSET S /\ i \in upTo(i)
        OBVIOUS
    <2>2. /\ IsFiniteSet(upTo(i)) /\ Cardinality(upTo(i)) <= size
          /\ Cardinality(upTo(i)) \in Nat
        BY <2>1, FS_Subset, FS_CardinalityType
    <2>3. Cardinality(upTo(i)) # 0
        BY <2>1, <2>2, FS_EmptySet
    <2> QED
        BY <1>1, <2>2, <2>3
<1>3. ASSUME NEW i \in S, NEW k \in S, i < k
      PROVE  rank[i] < rank[k]
    <2>1. upTo(i) \in SUBSET upTo(k) /\ k \in upTo(k) /\ k \notin upTo(i)
        <3>1. i \in Nat /\ k \in Nat /\ \A j \in S : j \in Nat
            OBVIOUS
        <3>2. \A j \in S : j <= i => j <= k
            BY <1>3, <3>1
        <3>3. k <= k /\ ~(k <= i)
            BY <1>3, <3>1
        <3> QED
            BY <3>2, <3>3
    <2>2. Cardinality(upTo(i)) <= Cardinality(upTo(k))
        BY <1>2, <2>1, FS_Subset
    <2>3. Cardinality(upTo(k)) # Cardinality(upTo(i))
        BY <1>2, <2>1, FS_Subset
    <2>4. Cardinality(upTo(i)) \in Nat /\ Cardinality(upTo(k)) \in Nat
        BY <1>1, <1>2
    <2> QED
        BY <2>2, <2>3, <2>4
<1>4. rank \in Injection(S, 1..size)
    <2>1. rank \in [S -> 1..size]
        BY <1>2
    <2>2. \A i, k \in S : rank[i] = rank[k] => i = k
        <3>1. SUFFICES ASSUME NEW i \in S, NEW k \in S, i # k PROVE rank[i] # rank[k]
            OBVIOUS
        <3>2. rank[i] \in Nat /\ rank[k] \in Nat /\ (i < k \/ k < i)
            BY <1>1, <2>1, <3>1
        <3> QED
            BY <1>3, <3>2
    <2> QED
        BY <2>1, <2>2 DEF Injection, IsInjective
<1>5. rank \in Surjection(S, 1..size)
    <2>1. IsFiniteSet(1..size) /\ Cardinality(1..size) = size
        BY <1>1, FS_Interval
    <2> QED
        BY <1>4, <2>1, FS_Injection
<1> DEFINE list == [m \in 1..size |-> CHOOSE i \in S : rank[i] = m]
<1>6. \A m \in 1..size : list[m] \in S /\ rank[list[m]] = m
    BY <1>5 DEF Surjection
<1>7. \A m, n \in 1..size : m < n => list[m] < list[n]
    <2>1. SUFFICES ASSUME NEW m \in 1..size, NEW n \in 1..size, m < n
                   PROVE  list[m] < list[n]
        OBVIOUS
    <2>2. list[m] \in S /\ list[n] \in S /\ rank[list[m]] = m /\ rank[list[n]] = n
        BY <1>6
    <2>3. list[m] \in Nat /\ list[n] \in Nat
        <3> HIDE DEF list, rank
        <3> QED
            BY <2>2
    <2>4. list[n] < list[m] => n < m
        BY <1>3, <2>2
    <2> HIDE DEF list, rank
    <2> QED
        BY <2>1, <2>2, <2>3, <2>4
<1>8. list \in [1..size -> S]
    BY <1>6
<1>9. \A m, n \in DOMAIN list : m < n => list[m] < list[n]
    BY <1>7
<1> HIDE DEF list
<1> QED
    BY <1>1, <1>8, <1>9 DEF Listed

-----------------------------------------------------------------------------
(* What save() is given.                                                    *)

\* The journal of a paper is the one its evidence says.
Placed(meta) == meta.journalId = JournalOf(meta)

\* search() places every paper it returns.
LEMMA WithJournalPlaces ==
    ASSUME NEW meta \in Metadata
    PROVE  WithJournal(meta) \in Metadata /\ Placed(WithJournal(meta))
<1> DEFINE journal == JournalOf(meta)
<1>1. journal \in Maybe(Journal) /\ Unlisted \notin Journal /\ None \notin Journal
    BY MetadataAssumption DEF JournalOf, FirstKnown, IfListed, Metadata, Maybe
<1>2. CASE journal = None
    <2>1. WithJournal(meta) = meta
        BY <1>2 DEF WithJournal
    <2>2. meta.journalId = None
        BY <1>1, <1>2 DEF JournalOf, FirstKnown, IfListed, Metadata, Maybe
    <2> QED
        BY <1>2, <2>1, <2>2 DEF Placed
<1>3. CASE journal # None
    <2> DEFINE placed == [meta EXCEPT !.journalId = journal, !.name = journal]
    <2>1. WithJournal(meta) = placed /\ journal \in Journal
        BY <1>1, <1>3 DEF WithJournal, Maybe
    <2>2. placed \in Metadata
        BY <2>1 DEF Metadata, Maybe
    <2>3. /\ placed.issn = meta.issn /\ placed.sourceId = meta.sourceId
          /\ placed.journalId = journal /\ placed.name = journal
        BY DEF Metadata
    <2>4. JournalOf(placed) = journal
        BY <1>1, <1>3, <2>3 DEF JournalOf, FirstKnown, IfListed
    <2> QED
        BY <2>1, <2>2, <2>3, <2>4 DEF Placed
<1> QED
    BY <1>2, <1>3

LEMMA PlacesFinite ==
    ASSUME NEW T, NEW list \in Seq(T), NEW S \in SUBSET DOMAIN list
    PROVE  IsFiniteSet(S)
<1>1. Len(list) \in Nat /\ DOMAIN list = 1..Len(list)
    OBVIOUS
<1>2. IsFiniteSet(DOMAIN list)
    BY <1>1, FS_Interval
<1> QED
    BY <1>2, FS_Subset

\* Of finitely many abstracts one is the longest.
LEMMA LongestExists ==
    ASSUME NEW S, IsFiniteSet(S), S # {}, NEW length \in [S -> Nat]
    PROVE  \E i \in S : \A j \in S : length[j] <= length[i]
<1> DEFINE longer(i) == {j \in S : length[j] > length[i]}
           counts == {Cardinality(longer(i)) : i \in S}
<1>1. \A i \in S : IsFiniteSet(longer(i)) /\ Cardinality(longer(i)) \in Nat
    <2>1. \A i \in S : longer(i) \in SUBSET S
        OBVIOUS
    <2> QED
        BY <2>1, FS_Subset, FS_CardinalityType
<1>2. First(counts) \in counts /\ \A n \in counts : First(counts) <= n
    <2>1. counts \in SUBSET Nat /\ counts # {}
        BY <1>1
    <2> HIDE DEF counts
    <2> QED
        BY <2>1, FirstIn
<1>3. PICK i \in S : \A j \in S : Cardinality(longer(i)) <= Cardinality(longer(j))
    BY <1>2
<1>4. ASSUME NEW j \in S, length[j] > length[i]
      PROVE  FALSE
    <2>1. \A k \in S : length[k] > length[j] => length[k] > length[i]
        BY <1>4
    <2>2. longer(j) \in SUBSET longer(i) /\ j \in longer(i) /\ j \notin longer(j)
        BY <1>4, <2>1
    <2>3. /\ Cardinality(longer(j)) <= Cardinality(longer(i))
          /\ Cardinality(longer(i)) # Cardinality(longer(j))
        BY <1>1, <2>2, FS_Subset
    <2>4. Cardinality(longer(i)) <= Cardinality(longer(j))
        BY <1>3
    <2>5. Cardinality(longer(i)) \in Nat /\ Cardinality(longer(j)) \in Nat
        BY <1>1
    <2> HIDE DEF longer
    <2> QED
        BY <2>3, <2>4, <2>5
<1> QED
    BY <1>4

\* The fields of a group of records are fields of records.
LEMMA CandidateType ==
    ASSUME AskedInv, NEW S \in SUBSET DOMAIN papers, S # {}
    PROVE  /\ Candidate(S).records = S
           /\ Candidate(S).doi \in Maybe(Doi)
           /\ Candidate(S).abstract \in Abstract
           /\ Candidate(S).meta \in Metadata /\ Placed(Candidate(S).meta)
<1> DEFINE merged == Merge(S)
<1>1. papers \in Seq(Sent) /\ S \in SUBSET Nat /\ \A i \in S : papers[i] \in Sent
    BY DEF AskedInv
<1>2. ASSUME NEW value, NEW T, DOMAIN value = S, \A i \in S : value[i] \in Maybe(T)
      PROVE  FirstOf(value) \in Maybe(T)
    BY <1>1, <1>2, FirstOfKnown DEF Maybe
<1>3. FirstOf([i \in S |-> DoiOf(i)]) \in Maybe(Doi)
    <2>1. \A i \in S : DoiOf(i) \in Maybe(Doi)
        BY <1>1, NormalFormAssumption DEF DoiOf, Normalize, Sent, Maybe
    <2> QED
        BY <1>2, <2>1
<1>4. /\ FirstOf(Years(S)) \in Maybe(Year)
      /\ FirstOf(Field(S, "issn")) \in Maybe(Journal)
      /\ FirstOf(Field(S, "sourceId")) \in Maybe(Journal \cup {Unlisted})
      /\ FirstOf(Field(S, "journalId")) \in Maybe(Journal)
      /\ FirstOf(Field(S, "name")) \in Maybe(Journal \cup {Unlisted})
    <2>1. \A i \in S :
            /\ papers[i].meta.year \in Maybe(Year)
            /\ papers[i].meta.issn \in Maybe(Journal)
            /\ papers[i].meta.sourceId \in Maybe(Journal \cup {Unlisted})
            /\ papers[i].meta.journalId \in Maybe(Journal)
            /\ papers[i].meta.name \in Maybe(Journal \cup {Unlisted})
        BY <1>1 DEF Sent, Metadata
    <2> QED
        BY <1>2, <2>1 DEF Years, Field
<1>5. LongestAbstract(S) \in Abstract
    <2> DEFINE longest == {i \in S : \A j \in S :
                              papers[j].abstract.length <= papers[i].abstract.length}
    <2>1. longest # {}
        <3> DEFINE length == [i \in S |-> papers[i].abstract.length]
        <3>1. length \in [S -> Nat]
            BY <1>1, NormalFormAssumption DEF Sent
        <3>2. IsFiniteSet(S)
            BY <1>1, PlacesFinite
        <3>3. \E i \in S : \A j \in S : length[j] <= length[i]
            <4> HIDE DEF length
            <4> QED
                BY <3>1, <3>2, LongestExists
        <3> QED
            BY <3>3
    <2>2. First(longest) \in S
        BY <1>1, <2>1, FirstIn
    <2> QED
        BY <1>1, <2>2 DEF LongestAbstract, Sent
<1>6. /\ merged.records = S /\ merged.doi \in Maybe(Doi) /\ merged.abstract \in Abstract
      /\ merged.meta \in Metadata
    BY <1>3, <1>4, <1>5 DEF Merge, Metadata
<1>7. /\ Candidate(S).records = merged.records /\ Candidate(S).doi = merged.doi
      /\ Candidate(S).abstract = merged.abstract
      /\ Candidate(S).meta = WithJournal(merged.meta)
    BY DEF Candidate, Merge
<1> QED
    BY <1>6, <1>7, WithJournalPlaces

\* What a paper is handed over as is a record that save() can take.
LEMMA HandedType ==
    ASSUME AskedInv, NEW S \in SUBSET DOMAIN papers, S # {}
    PROVE  /\ Handed(Candidate(S)) \in RawPaper
           /\ Handed(Candidate(S)).meta = Candidate(S).meta
<1> DEFINE paper == Candidate(S)
           records == Listed(S)
           first == papers[records[1]]
<1>1. papers \in Seq(Sent) /\ S \in SUBSET Nat /\ \A i \in S : papers[i] \in Sent
    BY DEF AskedInv
<1>2. IsFiniteSet(S)
    BY <1>1, PlacesFinite
<1>3. /\ Cardinality(S) \in Nat /\ Cardinality(S) # 0
      /\ records \in [1..Cardinality(S) -> S]
    BY <1>1, <1>2, ListedType, FS_EmptySet
<1>4. first \in Sent
    BY <1>1, <1>3
<1>5. FirstOf([i \in S |-> ArxivOf(i)]) \in Maybe(ArxivId)
    <2>1. \A i \in S : ArxivOf(i) \in Maybe(ArxivId)
        BY <1>1, NormalFormAssumption DEF ArxivOf, Normalize, Sent, Maybe
    <2> QED
        BY <1>1, <2>1, FirstOfKnown DEF Maybe
<1>6. [n \in DOMAIN records |-> papers[records[n]].source] \in Seq(DOMAIN FoldKey)
    <2>1. \A n \in 1..Cardinality(S) : papers[records[n]].source \in DOMAIN FoldKey
        BY <1>1, <1>3 DEF Sent
    <2> QED
        BY <1>3, <2>1
<1>7. /\ paper.records = S /\ paper.doi \in Maybe(Doi) /\ paper.abstract \in Abstract
      /\ paper.meta \in Metadata
    BY CandidateType
<1>8. Handed(paper) = [doi |-> paper.doi, arxiv |-> FirstOf([i \in S |-> ArxivOf(i)]),
                      aliases |-> [n \in DOMAIN records |-> papers[records[n]].source],
                      source |-> first.source, title |-> first.title,
                      abstract |-> paper.abstract, meta |-> paper.meta]
    BY <1>7 DEF Handed
<1> HIDE DEF paper, records, first
<1>9. Handed(paper) \in RawPaper
    BY <1>4, <1>5, <1>6, <1>7, <1>8, SavedAssumption DEF RawPaper, Sent, Maybe
<1> QED
    BY <1>8, <1>9 DEF paper

\* What search() lets through for a request.
LetsThrough(wanted, meta) ==
    InYears(wanted, meta.year) /\ InJournals(wanted, meta.journalId)

\* What a search hands to save(): records of its type, placed and let through.
LEMMA BatchHandedOver ==
    ASSUME SearchInv, SearchDone
    PROVE  /\ Batch \in Seq(Scored)
           /\ \A n \in DOMAIN Batch :
                 LET meta == Batch[n].paper.meta IN Placed(meta) /\ LetsThrough(request, meta)
<1>1. AskedInv /\ Reported
    BY DEF SearchInv, SearchDone
<1>2. Len(shown) \in Nat /\ DOMAIN shown = 1..Len(shown)
    <2>1. CASE shown = << >>
        BY <2>1
    <2>2. CASE shown \in Rankings
        <3>1. PICK length \in Nat : shown \in Injection(1..length, Passing)
            BY <1>1, <2>2, RankingsList DEF Reported
        <3>2. shown \in [1..length -> Passing]
            BY <3>1 DEF Injection
        <3> QED
            BY <3>2
    <2> QED
        BY <1>1, <2>1, <2>2 DEF Reported, Showable
<1>3. ASSUME NEW n \in DOMAIN shown
      PROVE  /\ Batch[n] \in Scored
             /\ Placed(Batch[n].paper.meta) /\ LetsThrough(request, Batch[n].paper.meta)
    <2>1. shown # << >> /\ DOMAIN root = DOMAIN papers
        BY ShownRoots
    <2>2. PICK i \in DOMAIN papers :
            /\ shown[n] = Candidate(Group(root[i])) /\ Passes(shown[n]) /\ i \in Group(root[i])
        BY ShownGroups
    <2>3. Group(root[i]) \in SUBSET DOMAIN papers /\ Group(root[i]) # {}
        BY <2>1, <2>2 DEF Group
    <2>4. Handed(shown[n]) \in RawPaper /\ Handed(shown[n]).meta = shown[n].meta
        BY <1>1, <2>2, <2>3, HandedType
    <2>5. Placed(shown[n].meta)
        BY <1>1, <2>2, <2>3, CandidateType
    <2>6. Len(shown) - n + 1 \in Nat
        BY <1>2
    <2>7. Batch[n] = [paper |-> Handed(shown[n]), score |-> Len(shown) - n + 1]
        BY DEF Batch
    <2> QED
        BY <2>2, <2>4, <2>5, <2>6, <2>7 DEF Scored, LetsThrough, Passes
<1>4. DOMAIN Batch = 1..Len(shown)
    BY <1>2 DEF Batch
<1>5. Batch = [n \in 1..Len(shown) |-> Batch[n]]
    BY <1>2 DEF Batch
<1> QED
    BY <1>2, <1>3, <1>4, <1>5

-----------------------------------------------------------------------------
(* Where the year and the journal of a stored paper come from.              *)

\* Some scan that shows the paper brought a record with this value.
Brought(saved, t, p, field, value) ==
    \E s \in ScanId : \E n \in DOMAIN saved[s] :
        t.links[s][p] # None /\ saved[s][n].paper.meta[field] = value

\* Year and journal of a paper are those of records of scans that show it.
Vouched(saved, t, p, meta) ==
    /\ Placed(meta)
    /\ Brought(saved, t, p, "year", meta.year)
    /\ Brought(saved, t, p, "journalId", meta.journalId)

\* A scan that showed the one paper shows the other.
Follows(t, p, u, q) == \A s \in ScanId : t.links[s][p] # None => u.links[s][q] # None

LEMMA StaysVouched ==
    ASSUME NEW saved, NEW t, NEW p, NEW u, NEW q, NEW meta,
           Vouched(saved, t, p, meta), Follows(t, p, u, q)
    PROVE  Vouched(saved, u, q, meta)
BY DEF Vouched, Brought, Follows

\* The united metadata take the year and the journal of one of the two (enrich).
LEMMA EnrichPlaces ==
    ASSUME NEW e \in Metadata, NEW i \in Metadata, Placed(e), Placed(i)
    PROVE  /\ Placed(EnrichMetadata(e, i))
           /\ EnrichMetadata(e, i).year \in {e.year, i.year}
           /\ EnrichMetadata(e, i).journalId \in {e.journalId, i.journalId}
<1> DEFINE journal == Resolved(e, i)
<1>1. journal \in Maybe(Journal) /\ None \notin Journal /\ Unlisted \notin Journal /\ None # Unlisted
    BY ResolvedType, MetadataAssumption
<1>2. journal \in {JournalOf(e), JournalOf(i)}
    BY <1>1 DEF Placed, Resolved, JournalOf, FirstKnown, IfListed, Metadata, Maybe
<1>3. EnrichMetadata(e, i).year \in {e.year, i.year}
    BY DEF EnrichMetadata, FirstKnown
<1>4. EnrichMetadata(e, i).journalId = journal
    BY DEF EnrichMetadata
<1>5. JournalOf(EnrichMetadata(e, i)) = journal
    <2>1. CASE journal = None
        <3>1. ~(FirstKnown(e.sourceId, i.sourceId) \in Journal)
              /\ ~(FirstKnown(i.name, e.name) \in Journal)
            BY <1>1, <2>1 DEF Resolved, FirstKnown, IfListed
        <3> QED
            BY <2>1, <3>1 DEF EnrichMetadata, JournalOf, FirstKnown, IfListed
    <2>2. CASE journal # None
        BY <2>2 DEF EnrichMetadata, JournalOf, FirstKnown
    <2> QED
        BY <2>1, <2>2
<1> QED
    BY <1>2, <1>3, <1>4, <1>5 DEF Placed

LEMMA UnitedVouched ==
    ASSUME NEW saved, NEW t, NEW p, NEW e \in Metadata, NEW i \in Metadata,
           Vouched(saved, t, p, e), Vouched(saved, t, p, i)
    PROVE  Vouched(saved, t, p, EnrichMetadata(e, i))
BY EnrichPlaces DEF Vouched

-----------------------------------------------------------------------------
(* The inductive invariant.                                                 *)

\* Each record of a scan is from the years and journals it was asked for.
BatchesPass ==
    \A s \in ScanId : calls[s] # "unused" =>
        \A n \in DOMAIN batch[s] :
            LET meta == batch[s][n].paper.meta IN Placed(meta) /\ LetsThrough(asked[s], meta)

PapersVouched(t) ==
    \A p \in PaperId : t.papers[p] # None => Vouched(batch, t, p, t.papers[p].meta)

\* The record that save() is about to store is vouched for like the stored ones.
CanonicalVouched ==
    stage = "merge" /\ cur.id # None => Vouched(batch, tx, cur.id, cur.paper.meta)

\* The search and the library keep their invariants; and what the library says of
\* a paper's year and journal comes from scans that show the paper.
SavedInv ==
    /\ SearchInv /\ IInv
    /\ asked \in [ScanId -> Requests \cup {None}]
    /\ BatchesPass
    /\ PapersVouched(db) /\ PapersVouched(tx) /\ CanonicalVouched

-----------------------------------------------------------------------------
(* Each step keeps it.                                                      *)

\* The record at hand passed the filters, and is stored with its metadata.
LEMMA RecordAtHand ==
    ASSUME SavedInv, NEW s \in ScanId, holder = s, stage = "merge"
    PROVE  /\ pos \in DOMAIN batch[s] /\ Raw(s) = batch[s][pos].paper
           /\ Raw(s).meta \in Metadata /\ Placed(Raw(s).meta)
           /\ Prepare(Raw(s)).meta = Raw(s).meta
<1>1. IInv /\ TypeOK /\ Control /\ BatchesPass
    BY DEF SavedInv, IInv
<1>2. pos <= Len(batch[s]) /\ calls[s] = "saving"
    BY <1>1 DEF Control
<1>3. pos \in DOMAIN batch[s]
    BY <1>1, <1>2 DEF TypeOK
<1>4. Raw(s) \in RawPaper
    BY <1>1, <1>2, RecordType
<1>5. Raw(s) = batch[s][pos].paper
    BY DEF Raw
<1> QED
    BY <1>1, <1>2, <1>3, <1>4, <1>5 DEF BatchesPass, RawPaper, Prepare

\* save() leaves the batches alone, and no call becomes unused.
LEMMA BatchesStay ==
    ASSUME SavedInv, UNCHANGED <<batch, asked>>,
           \A s \in ScanId : calls'[s] = "unused" <=> calls[s] = "unused"
    PROVE  BatchesPass' /\ asked' \in [ScanId -> Requests \cup {None}]
BY DEF SavedInv, BatchesPass

LEMMA PapersStay ==
    ASSUME NEW t, PapersVouched(t), UNCHANGED batch, NEW u,
           u.papers = t.papers, u.links = t.links
    PROVE  \A p \in PaperId : u.papers[p] # None => Vouched(batch', u, p, u.papers[p].meta)
BY DEF PapersVouched, Vouched, Brought

LEMMA BeginSaved ==
    ASSUME SavedInv, SearchInv', NEW s \in ScanId, Begin(s), UNCHANGED asked
    PROVE  SavedInv'
<1>1. IInv'
    BY BeginStep DEF SavedInv
<1>2. /\ calls[s] = "waiting" /\ calls' = [calls EXCEPT ![s] = "saving"]
      /\ tx' = InsertScan(db, s) /\ stage' = "match" /\ UNCHANGED <<db, batch>>
    BY DEF Begin
<1>3. calls \in [ScanId -> Phase]
    BY DEF SavedInv, IInv, TypeOK
<1>4. \A r \in ScanId : calls'[r] = "unused" <=> calls[r] = "unused"
    BY <1>2, <1>3
<1>5. tx'.papers = db.papers /\ tx'.links = db.links
    BY <1>2 DEF InsertScan
<1>6. PapersVouched(db)' /\ PapersVouched(tx)'
    BY <1>2, <1>5, PapersStay DEF SavedInv, PapersVouched
<1> QED
    BY <1>1, <1>2, <1>4, <1>6, BatchesStay DEF SavedInv, CanonicalVouched

LEMMA MatchSaved ==
    ASSUME SavedInv, SearchInv', NEW s \in ScanId, Match(s), UNCHANGED asked
    PROVE  SavedInv'
<1>1. IInv'
    BY MatchStep DEF SavedInv
<1>2. UNCHANGED <<db, tx, calls, batch>>
    BY DEF Match
<1>3. PapersVouched(db)' /\ PapersVouched(tx)'
    BY <1>2 DEF SavedInv, PapersVouched
<1>4. CanonicalVouched'
    <2>1. SUFFICES ASSUME cur'.id # None
                   PROVE  Vouched(batch, tx, cur'.id, cur'.paper.meta)
        BY <1>2 DEF CanonicalVouched
    <2> DEFINE matches == FindMatches(tx, Raw(s))
    <2>2. PICK p \in matches : cur' = [id |-> p, paper |-> tx.papers[p], pending |-> matches \ {p}]
        BY <2>1 DEF Match
    <2>3. tx \in Tables /\ Whole(tx) /\ Raw(s) \in RawPaper
        BY RecordType DEF SavedInv, IInv, TypeOK, Match
    <2>4. p \in PaperId /\ tx.papers[p] # None
        BY <2>3, FindMatchesType
    <2>5. Vouched(batch, tx, p, tx.papers[p].meta)
        BY <2>4 DEF SavedInv, PapersVouched
    <2>6. cur'.id = p /\ cur'.paper = tx.papers[p]
        BY <2>2
    <2> QED
        BY <2>5, <2>6
<1> QED
    BY <1>1, <1>2, <1>3, <1>4, BatchesStay DEF SavedInv

\* Every scan that showed one of the two papers shows the united one.
LEMMA ReparentFollows ==
    ASSUME NEW t \in Tables, NEW old \in PaperId, NEW new \in PaperId, old # new
    PROVE  /\ Follows(t, old, Reparent(t, old, new), new)
           /\ \A p \in PaperId : p # old => Follows(t, p, Reparent(t, old, new), p)
<1> DEFINE u == Reparent(t, old, new)
<1>1. \A s \in ScanId, p \in PaperId :
        u.links[s][p] = IF p = old THEN None
                        ELSE IF p = new THEN Join(t.links[s][new], t.links[s][old])
                        ELSE t.links[s][p]
    BY DEF Reparent
<1>2. \A s \in ScanId, p \in PaperId : t.links[s][p] \in Maybe(Link)
    BY DEF Tables
<1>3. \A s \in ScanId : Join(t.links[s][new], t.links[s][old]) = None
                            <=> t.links[s][new] = None /\ t.links[s][old] = None
    BY <1>2, JoinType
<1> QED
    BY <1>1, <1>3 DEF Follows

LEMMA MergeDuplicateSaved ==
    ASSUME SavedInv, SearchInv', NEW s \in ScanId, MergeDuplicate(s), UNCHANGED asked
    PROVE  SavedInv'
<1>1. IInv' /\ IInv
    BY MergeDuplicateStep DEF SavedInv
<1>2. holder = s /\ stage = "merge" /\ UNCHANGED <<db, calls, batch, stage>>
    BY DEF MergeDuplicate
<1>3. PICK q \in cur.pending :
        /\ IsFirst(tx, Raw(s), cur.pending, q)
        /\ cur' = [id |-> cur.id, paper |-> Enrich(cur.paper, tx.papers[q]),
                   pending |-> cur.pending \ {q}]
        /\ tx' = Reparent(tx, q, cur.id)
    BY DEF MergeDuplicate
<1>4. /\ cur.id \in PaperId /\ q \in PaperId /\ q # cur.id
      /\ tx.papers[q] \in Paper /\ tx.papers[q] # None /\ cur.paper \in Paper
    BY <1>1, <1>2, <1>3, Duplicate
<1>5. tx \in Tables
    BY <1>1 DEF IInv, TypeOK
<1>6. /\ Follows(tx, q, tx', cur.id)
      /\ \A p \in PaperId : p # q => Follows(tx, p, tx', p)
    BY <1>3, <1>4, <1>5, ReparentFollows
<1>7. cur.id # None
    BY <1>4, NoneIsNoId
<1>8. Vouched(batch, tx', cur.id, cur.paper.meta)
    BY <1>2, <1>4, <1>6, <1>7, StaysVouched DEF SavedInv, CanonicalVouched
<1>9. Vouched(batch, tx', cur.id, tx.papers[q].meta)
    <2>1. Vouched(batch, tx, q, tx.papers[q].meta)
        BY <1>4 DEF SavedInv, PapersVouched
    <2> QED
        BY <1>6, <2>1, StaysVouched
<1>10. Vouched(batch, tx', cur.id, Enrich(cur.paper, tx.papers[q]).meta)
    <2>1. cur.paper.meta \in Metadata /\ tx.papers[q].meta \in Metadata
        BY <1>4 DEF Paper
    <2>2. Vouched(batch, tx', cur.id, EnrichMetadata(cur.paper.meta, tx.papers[q].meta))
        BY <1>8, <1>9, <2>1, UnitedVouched
    <2> QED
        BY <2>2 DEF Enrich
<1>11. CanonicalVouched'
    <2>1. cur'.id = cur.id /\ cur'.paper = Enrich(cur.paper, tx.papers[q])
        BY <1>3
    <2> QED
        BY <1>2, <1>10, <2>1 DEF CanonicalVouched
<1>12. PapersVouched(tx)'
    <2>1. SUFFICES ASSUME NEW p \in PaperId, tx'.papers[p] # None
                   PROVE  Vouched(batch, tx', p, tx'.papers[p].meta)
        BY <1>2 DEF PapersVouched
    <2>2. p # q /\ tx'.papers[p] = tx.papers[p]
        BY <1>3, <1>4, <1>5, <2>1 DEF Reparent, Tables
    <2>3. Vouched(batch, tx, p, tx.papers[p].meta)
        BY <2>1, <2>2 DEF SavedInv, PapersVouched
    <2> QED
        BY <1>6, <2>2, <2>3, StaysVouched
<1>13. PapersVouched(db)'
    BY <1>2 DEF SavedInv, PapersVouched
<1> QED
    BY <1>1, <1>2, <1>11, <1>12, <1>13, BatchesStay DEF SavedInv

LEMMA SkipDuplicateSaved ==
    ASSUME SavedInv, SearchInv', NEW s \in ScanId, SkipDuplicate(s), UNCHANGED asked
    PROVE  SavedInv'
<1>1. IInv'
    BY SkipDuplicateStep DEF SavedInv
<1>2. /\ UNCHANGED <<db, tx, calls, batch, stage>>
      /\ cur'.id = cur.id /\ cur'.paper = cur.paper
    BY DEF SkipDuplicate
<1>3. PapersVouched(db)' /\ PapersVouched(tx)' /\ CanonicalVouched'
    BY <1>2 DEF SavedInv, PapersVouched, CanonicalVouched
<1> QED
    BY <1>1, <1>2, <1>3, BatchesStay DEF SavedInv

\* The scan shows the paper that is written, and nothing is taken from any scan.
LEMMA UpsertFollows ==
    ASSUME NEW t \in Tables, NEW id \in PaperId, NEW paper, NEW now, NEW s \in ScanId,
           NEW link \in Link
    PROVE  /\ \A p \in PaperId : Follows(t, p, Upsert(t, id, paper, now, s, link), p)
           /\ Upsert(t, id, paper, now, s, link).links[s][id] # None
<1> DEFINE u == Upsert(t, id, paper, now, s, link)
<1>1. t.links \in [ScanId -> [PaperId -> Maybe(Link)]]
    BY DEF Tables
<1>2. \A r \in ScanId, p \in PaperId :
        u.links[r][p] = IF r = s /\ p = id THEN Join(t.links[s][id], link) ELSE t.links[r][p]
    BY <1>1 DEF Upsert
<1>3. Join(t.links[s][id], link) # None
    BY <1>1, JoinType, NoneIsNoId DEF Maybe
<1> QED
    BY <1>2, <1>3 DEF Follows

LEMMA ReleaseSaved ==
    ASSUME SavedInv, SearchInv', IInv', NEW s \in ScanId, NEW outcome, outcome # "unused",
           calls[s] # "unused", Release(s, outcome), UNCHANGED asked
    PROVE  SavedInv'
<1>1. /\ UNCHANGED <<db, batch>> /\ tx' = db /\ stage' = "match"
      /\ calls' = [calls EXCEPT ![s] = outcome]
    BY DEF Release
<1>2. calls \in [ScanId -> Phase]
    BY DEF SavedInv, IInv, TypeOK
<1>3. \A r \in ScanId : calls'[r] = "unused" <=> calls[r] = "unused"
    BY <1>1, <1>2
<1>4. PapersVouched(db)' /\ PapersVouched(tx)' /\ CanonicalVouched'
    BY <1>1 DEF SavedInv, PapersVouched, CanonicalVouched
<1> QED
    BY <1>1, <1>3, <1>4, BatchesStay DEF SavedInv

\* What is written is a record at hand, or a paper that a scan showed before,
\* enriched by it.
LEMMA StoreSaved ==
    ASSUME SavedInv, SearchInv', NEW s \in ScanId, Store(s), UNCHANGED asked
    PROVE  SavedInv'
<1>1. IInv' /\ IInv /\ TypeOK /\ Control
    BY StoreStep DEF SavedInv, IInv
<1>2. holder = s /\ stage = "merge" /\ cur.pending = {}
    BY DEF Store
<1>3. PICK id \in PaperId :
        /\ Target(id)
        /\ IF Conflicts(tx, id, Stored(s, id)) THEN Release(s, "conflict") ELSE Write(s, id)
    BY DEF Store
<1>4. CASE Release(s, "conflict")
    <2>1. calls[s] # "unused"
        BY <1>1, <1>2 DEF Control
    <2> QED
        BY <1>1, <1>4, <2>1, ReleaseSaved
<1>5. CASE Write(s, id)
    <2> DEFINE link == [pos |-> pos, score |-> Score(s)]
               stored == Stored(s, id)
    <2>1. /\ UNCHANGED <<db, calls, batch>> /\ stage' = "match"
          /\ tx' = Upsert(tx, id, stored, stamp[s], s, link)
        BY <1>5 DEF Write
    <2>2. tx \in Tables /\ link \in Link
        <3>1. pos <= Len(batch[s]) /\ pos \in Nat
            BY <1>1, <1>2 DEF Control, TypeOK
        <3> QED
            BY <1>1, <3>1, RecordType DEF TypeOK, Link
    <2>3. /\ \A p \in PaperId : Follows(tx, p, tx', p)
          /\ tx'.links[s][id] # None
        BY <2>1, <2>2, UpsertFollows
    <2>4. Vouched(batch, tx', id, Raw(s).meta)
        <3>1. pos \in DOMAIN batch[s] /\ Raw(s) = batch[s][pos].paper /\ Placed(Raw(s).meta)
            BY <1>2, RecordAtHand
        <3> QED
            BY <2>3, <3>1 DEF Vouched, Brought
    <2>5. Vouched(batch, tx', id, stored.meta)
        <3>1. Raw(s).meta \in Metadata /\ Prepare(Raw(s)).meta = Raw(s).meta
            BY <1>2, RecordAtHand
        <3>2. CASE cur.id = None
            <4>1. cur.paper = Prepare(Raw(s))
                BY <1>1, <1>2, <3>2 DEF IInv, Record
            <4>2. stored.meta = cur.paper.meta
                BY <3>2 DEF Stored, DropForeign
            <4> QED
                BY <2>4, <3>1, <4>1, <4>2
        <3>3. CASE cur.id # None
            <4>1. id = cur.id /\ Vouched(batch, tx, id, cur.paper.meta)
                BY <1>2, <1>3, <3>3 DEF Target, SavedInv, CanonicalVouched
            <4>2. cur.paper.meta \in Metadata
                BY <1>1, <1>2 DEF IInv, Record, TypeOK, Locals, Maybe, Paper
            <4>3. Vouched(batch, tx', id, EnrichMetadata(cur.paper.meta, Raw(s).meta))
                BY <2>3, <2>4, <3>1, <4>1, <4>2, StaysVouched, UnitedVouched
            <4>4. stored.meta = EnrichMetadata(cur.paper.meta, Raw(s).meta)
                BY <3>1, <3>3 DEF Stored, DropForeign, Enrich
            <4> QED
                BY <4>3, <4>4
        <3> QED
            BY <3>2, <3>3
    <2>6. PapersVouched(tx)'
        <3>1. SUFFICES ASSUME NEW p \in PaperId, tx'.papers[p] # None
                       PROVE  Vouched(batch, tx', p, tx'.papers[p].meta)
            BY <2>1 DEF PapersVouched
        <3>2. tx'.papers[p] = IF p = id THEN stored ELSE tx.papers[p]
            BY <2>1, <2>2 DEF Upsert, Tables
        <3>3. CASE p = id
            BY <2>5, <3>2, <3>3
        <3>4. CASE p # id
            <4>1. Vouched(batch, tx, p, tx.papers[p].meta)
                BY <3>1, <3>2, <3>4 DEF SavedInv, PapersVouched
            <4> QED
                BY <2>3, <3>2, <3>4, <4>1, StaysVouched
        <3> QED
            BY <3>3, <3>4
    <2>7. PapersVouched(db)' /\ CanonicalVouched'
        BY <2>1 DEF SavedInv, PapersVouched, CanonicalVouched
    <2> QED
        BY <1>1, <2>1, <2>6, <2>7, BatchesStay DEF SavedInv
<1> QED
    BY <1>3, <1>4, <1>5

LEMMA CommitSaved ==
    ASSUME SavedInv, SearchInv', NEW s \in ScanId, Commit(s), UNCHANGED asked
    PROVE  SavedInv'
<1>1. IInv' /\ TypeOK /\ Control
    BY CommitStep DEF SavedInv, IInv
<1>2. /\ holder = s /\ stage = "match" /\ db' = tx /\ tx' = tx
      /\ UNCHANGED <<batch, stage>> /\ calls' = [calls EXCEPT ![s] = "committed"]
    BY DEF Commit
<1>3. \A r \in ScanId : calls'[r] = "unused" <=> calls[r] = "unused"
    BY <1>1, <1>2 DEF Control, TypeOK
<1>4. PapersVouched(db)' /\ PapersVouched(tx)' /\ CanonicalVouched'
    BY <1>2 DEF SavedInv, PapersVouched, CanonicalVouched
<1> QED
    BY <1>1, <1>2, <1>3, <1>4, BatchesStay DEF SavedInv

LEMMA AbortSaved ==
    ASSUME SavedInv, SearchInv', NEW s \in ScanId, Abort(s), UNCHANGED asked
    PROVE  SavedInv'
<1>1. IInv' /\ calls[s] # "unused" /\ Release(s, "failed")
    BY AbortStep DEF SavedInv, IInv, Control, Abort
<1> QED
    BY <1>1, ReleaseSaved

\* No paper is shown by a scan that has no id yet.
LEMMA SaveSaved ==
    ASSUME SavedInv, NEW s \in ScanId, Save(s)
    PROVE  SavedInv'
<1>1. SearchInv /\ IInv /\ TypeOK /\ Control
    BY DEF SavedInv, IInv
<1>2. PICK now \in Time : CallWith(s, Batch, now)
    BY DEF Save
<1>3. /\ SearchDone /\ UNCHANGED searchVars
      /\ asked' = [asked EXCEPT ![s] = request]
    BY DEF Save
<1>4. /\ calls[s] = "unused" /\ UNCHANGED <<db, tx, stage, cur>>
      /\ batch' = [batch EXCEPT ![s] = Batch] /\ calls' = [calls EXCEPT ![s] = "waiting"]
    BY <1>2 DEF CallWith
<1>5. /\ Batch \in Seq(Scored)
      /\ \A n \in DOMAIN Batch :
            LET meta == Batch[n].paper.meta IN Placed(meta) /\ LetsThrough(request, meta)
    BY <1>1, <1>3, BatchHandedOver
<1>6. IInv'
    BY <1>1, <1>2, <1>5, CallStep
<1>7. SearchInv'
    BY <1>1, <1>3, SearchStep
<1>8. request \in Requests
    BY <1>1 DEF SearchInv, AskedInv
<1>9. asked' \in [ScanId -> Requests \cup {None}]
    BY <1>3, <1>8 DEF SavedInv
<1>10. \A r \in ScanId : r # s => /\ calls'[r] = calls[r] /\ batch'[r] = batch[r]
                                  /\ asked'[r] = asked[r]
    BY <1>1, <1>3, <1>4 DEF TypeOK, SavedInv
<1>11. batch'[s] = Batch /\ asked'[s] = request
    BY <1>1, <1>3, <1>4 DEF TypeOK, SavedInv
<1>12. BatchesPass'
    BY <1>5, <1>10, <1>11 DEF SavedInv, BatchesPass
<1>13. \A t \in {db, tx} : \A p \in PaperId : t.links[s][p] = None
    BY <1>1, <1>4 DEF IInv, Whole, ForeignKeys, Scans
<1>14. ASSUME NEW t \in {db, tx}, NEW p \in PaperId, NEW meta, Vouched(batch, t, p, meta)
       PROVE  Vouched(batch', t, p, meta)
    <2>1. \A r \in ScanId : t.links[r][p] # None => batch'[r] = batch[r]
        BY <1>10, <1>13
    <2> QED
        BY <1>14, <2>1 DEF Vouched, Brought
<1>15. PapersVouched(db)' /\ PapersVouched(tx)'
    BY <1>4, <1>14 DEF SavedInv, PapersVouched
<1>16. CanonicalVouched'
    <2>1. cur.id # None => cur.id \in PaperId
        BY <1>1 DEF TypeOK, Locals, Maybe
    <2> QED
        BY <1>4, <1>14, <2>1 DEF SavedInv, CanonicalVouched
<1> QED
    BY <1>6, <1>7, <1>9, <1>12, <1>15, <1>16 DEF SavedInv

\* The library stays as it is.
LEMMA LibraryStays ==
    ASSUME SavedInv, SearchInv', UNCHANGED <<vars, asked>>
    PROVE  SavedInv'
<1>1. IInv'
    BY StoreStutters DEF SavedInv
<1>2. UNCHANGED <<db, tx, calls, batch, stage, cur, asked>>
    BY DEF vars
<1>3. PapersVouched(db)' /\ PapersVouched(tx)' /\ CanonicalVouched'
    BY <1>2 DEF SavedInv, PapersVouched, CanonicalVouched
<1> QED
    BY <1>1, <1>2, <1>3, BatchesStay DEF SavedInv

LEMMA NextRequestSaved ==
    ASSUME SavedInv, NextRequest
    PROVE  SavedInv'
<1>1. InitSearch'
    BY DEF NextRequest, InitSearch, SharedKey
<1>2. SearchInv'
    BY <1>1, SearchBegins, PTL
<1>3. UNCHANGED <<vars, asked>>
    BY DEF NextRequest
<1> QED
    BY <1>2, <1>3, LibraryStays

LEMMA SavedStep == SavedInv /\ [NextSaved]_savedVars => SavedInv'
<1> SUFFICES ASSUME SavedInv, [NextSaved]_savedVars PROVE SavedInv'
    OBVIOUS
<1>1. CASE Searching
    <2>1. SearchInv' /\ UNCHANGED <<vars, asked>>
        BY <1>1, SearchStep DEF Searching, SavedInv
    <2> QED
        BY <2>1, LibraryStays
<1>2. ASSUME NEW s \in ScanId, Save(s)
      PROVE  SavedInv'
    BY <1>2, SaveSaved
<1>3. ASSUME NEW s \in ScanId, Saving(s) \/ SavingFails(s)
      PROVE  SavedInv'
    <2>1. UNCHANGED searchVars /\ UNCHANGED asked
        BY <1>3 DEF Saving, SavingFails
    <2>2. SearchInv'
        BY <2>1, SearchStep DEF SavedInv
    <2>3. \/ Begin(s) \/ Match(s) \/ MergeDuplicate(s) \/ SkipDuplicate(s) \/ Store(s)
          \/ Commit(s) \/ Abort(s)
        BY <1>3 DEF Saving, SavingFails, Work
    <2> QED
        BY <2>1, <2>2, <2>3, BeginSaved, MatchSaved, MergeDuplicateSaved,
           SkipDuplicateSaved, StoreSaved, CommitSaved, AbortSaved
<1>4. CASE NextRequest
    BY <1>4, NextRequestSaved
<1>5. CASE UNCHANGED savedVars
    <2>1. UNCHANGED searchVars /\ UNCHANGED <<vars, asked>>
        BY <1>5 DEF savedVars
    <2>2. SearchInv'
        BY <2>1, SearchStep DEF SavedInv
    <2> QED
        BY <2>1, <2>2, LibraryStays
<1> QED
    BY <1>1, <1>2, <1>3, <1>4, <1>5 DEF NextSaved

LEMMA SavedBegins == InitSaved => SavedInv
<1> SUFFICES ASSUME InitSaved PROVE SavedInv
    OBVIOUS
<1>1. SearchInv /\ IInv
    BY SearchBegins, InitIInv DEF InitSaved
<1>2. asked = [s \in ScanId |-> None] /\ Init
    BY DEF InitSaved
<1>3. /\ calls = [s \in ScanId |-> "unused"] /\ stage = "match"
      /\ db = EmptyTables /\ tx = EmptyTables
    BY <1>2 DEF Init
<1>4. \A p \in PaperId : db.papers[p] = None /\ tx.papers[p] = None
    BY <1>3 DEF EmptyTables
<1> QED
    BY <1>1, <1>2, <1>3, <1>4 DEF SavedInv, BatchesPass, PapersVouched, CanonicalVouched

\* From request to request, the library knows of each paper's year and journal only
\* what a scan that shows it was asked for and brought (POST /search).
THEOREM SavedAccounted == SpecSaved => []SavedInv
BY SavedBegins, SavedStep, PTL DEF SpecSaved

-----------------------------------------------------------------------------
(* What must hold.                                                          *)

LEMMA NewPapersWhenSaved == SavedInv => NewPapersPassFilters
<1> SUFFICES ASSUME SavedInv, NEW s \in db.scans, NEW p \in PaperId, Shows(s, p),
                    \A r \in db.scans \ {s} : ~Shows(r, p)
             PROVE  PassesFilters(s, p)
    BY DEF NewPapersPassFilters
<1> DEFINE meta == db.papers[p].meta
<1>1. TypeOK /\ Scans /\ Whole(db)
    BY DEF SavedInv, IInv
<1>2. s \in ScanId
    BY <1>1 DEF TypeOK, Tables
<1>3. \A r \in ScanId : db.links[r][p] # None => r = s
    BY <1>1 DEF Whole, ForeignKeys, Shows
<1>4. db.papers[p] # None
    BY <1>1, <1>2 DEF Whole, ForeignKeys, Shows
<1>5. Vouched(batch, db, p, meta)
    BY <1>4 DEF SavedInv, PapersVouched
<1>6. \A n \in DOMAIN batch[s] : LetsThrough(asked[s], batch[s][n].paper.meta)
    BY <1>1, <1>2 DEF SavedInv, BatchesPass, Scans
<1>7. InYears(asked[s], meta.year)
    <2>1. PICK n \in DOMAIN batch[s] : batch[s][n].paper.meta.year = meta.year
        BY <1>3, <1>5 DEF Vouched, Brought
    <2> QED
        BY <1>6, <2>1 DEF LetsThrough
<1>8. InJournals(asked[s], meta.journalId)
    <2>1. PICK n \in DOMAIN batch[s] : batch[s][n].paper.meta.journalId = meta.journalId
        BY <1>3, <1>5 DEF Vouched, Brought
    <2> QED
        BY <1>6, <2>1 DEF LetsThrough
<1>9. meta.year \in Maybe(Year)
    BY <1>1, <1>4 DEF TypeOK, Tables, Maybe, Paper, Metadata
<1> QED
    BY <1>7, <1>8, <1>9 DEF PassesFilters, InYears, InJournals, Maybe

\* However the library unites and enriches papers, one that only a single scan shows
\* is from the years and journals which that scan was asked for (SearchService.search,
\* SearchRepository.save).
THEOREM NewPapersPass == SpecSaved => []NewPapersPassFilters
BY NewPapersWhenSaved, SavedAccounted, PTL

\* What is proved of the search and of the library alone holds of the two together,
\* whatever searches hand over: the batches of SavedSearch are among those that
\* PaperStore takes (search_literature).
THEOREM SavedTogether ==
    SpecSaved => [](/\ CountsAgree /\ NothingInRangeIsLost /\ JournalByIssn /\ StatusFits
                    /\ NoDanglingReference /\ RedirectsFlat /\ AliasIndex
                    /\ NoAliasConflict /\ FailedCallLeavesNothing)
<1>1. SavedInv => /\ CountsAgree /\ NothingInRangeIsLost /\ JournalByIssn /\ StatusFits
                  /\ NoDanglingReference /\ RedirectsFlat /\ AliasIndex
                  /\ NoAliasConflict /\ FailedCallLeavesNothing
    <2>1. SavedInv => CountsAgree /\ NothingInRangeIsLost /\ JournalByIssn /\ StatusFits
        BY CountsWhenDone, InRangeWhenDone, IssnWhenDone, StatusWhenDone DEF SavedInv
    <2>2. IInv => /\ NoDanglingReference /\ RedirectsFlat /\ AliasIndex
                  /\ NoAliasConflict /\ FailedCallLeavesNothing
        BY StoreKeepsPromises
    <2> QED
        BY <2>1, <2>2 DEF SavedInv
<1> QED
    BY <1>1, SavedAccounted, PTL

-----------------------------------------------------------------------------
(* The library behind the search is the one of PaperStore.                  *)

\* What a search hands to save() is a list of scored records like any other, and
\* nothing else touches the library: SavedSearch implements PaperStore, as far as
\* that takes any such list.
THEOREM SavedIsStore ==
    ASSUME Seq(Scored) \subseteq Batches
    PROVE  SpecSaved => Spec
<1>1. InitSaved => Init
    BY DEF InitSaved
<1>2. SavedInv /\ [NextSaved]_savedVars => [Next]_vars
    <2> SUFFICES ASSUME SavedInv, [NextSaved]_savedVars PROVE Next \/ UNCHANGED vars
        OBVIOUS
    <2>1. CASE Searching \/ NextRequest \/ UNCHANGED savedVars
        BY <2>1 DEF Searching, NextRequest, savedVars
    <2>2. ASSUME NEW s \in ScanId, Save(s)
          PROVE  Next
        <3>1. SearchInv /\ SearchDone
            BY <2>2 DEF SavedInv, Save
        <3>2. Batch \in Batches
            BY <3>1, BatchHandedOver
        <3> QED
            BY <2>2, <3>2 DEF Save, Call, Search, Next
    <2>3. ASSUME NEW s \in ScanId, Saving(s) \/ SavingFails(s)
          PROVE  Next
        BY <2>3 DEF Saving, SavingFails, Search, Next
    <2> QED
        BY <2>1, <2>2, <2>3 DEF NextSaved
<1> QED
    BY <1>1, <1>2, SavedAccounted, PTL DEF SpecSaved, Spec

\* So every search, saved, keeps what is promised of the library (save()): scans keep
\* their records and their order, repeated ones agree, a work stays one paper, and
\* nothing that was answered is taken back.
THEOREM SavedKeepsPromises ==
    ASSUME Seq(Scored) \subseteq Batches
    PROVE  SpecSaved => /\ [](ScanKeepsItsRecords /\ ScanOrder /\ RepeatShowsTheSame)
                        /\ []ApartOnlyByConflict
                        /\ KeepsCatalog
BY SavedIsStore, RecordsStay, RankingsStay, RepeatsAgree, WorksStayOne, Implements, PTL

=============================================================================
