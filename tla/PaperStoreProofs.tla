---------------------------- MODULE PaperStoreProofs ----------------------------
(***************************************************************************)
(* Theorems about PaperStore, for every set of ids, records and batches:   *)
(* first what one invariant carries (types, references, the alias index,   *)
(* atomicity, the promise of PaperCatalog); then, each with an invariant   *)
(* of its own, that scans stay rankings, show exactly their records, and   *)
(* agree if they are of the same records; that papers stay one unless an   *)
(* identifier keeps them apart, and what made them eligible for analysis.  *)
(***************************************************************************)
EXTENDS PaperStoreInductive, SequenceTheorems, TLAPS

-----------------------------------------------------------------------------
(* Identity keys, compatibility and enrichment.                             *)

LEMMA NoneIsNoValue == None \notin Doi /\ None \notin ArxivId /\ None \notin ProviderKey
                         /\ None \notin Paper
BY NoneAssumption

\* A prepared record is one the papers table can hold (prepare_paper).
LEMMA PrepareType ==
    ASSUME NEW raw \in RawPaper
    PROVE  Prepare(raw) \in Paper
<1>1. Normalize(NormalDoi, raw.doi) \in Maybe(Doi)
  BY NormalFormAssumption DEF RawPaper, Normalize, Maybe
<1>2. Normalize(NormalArxiv, raw.arxiv) \in Maybe(ArxivId)
  BY NormalFormAssumption DEF RawPaper, Normalize, Maybe
<1>3. \A n \in 1..Len(raw.aliases) + 1 : ProviderKeys(raw)[n] \in ProviderKey
  BY NormalFormAssumption DEF RawPaper, ProviderKeys
<1>4. FoldKey[raw.source] \in ProviderKey
  BY NormalFormAssumption DEF RawPaper
<1>5. NormalTitle[raw.title] \in Title
  BY NormalFormAssumption DEF RawPaper
<1>6. raw.abstract \in Abstract /\ raw.meta \in Metadata
  BY DEF RawPaper
<1> QED
  BY <1>1, <1>2, <1>3, <1>4, <1>5, <1>6 DEF Prepare, Paper

\* A resolved journal is a listed one, whatever the evidence (enrich).
LEMMA ResolvedType ==
    ASSUME NEW existing \in Metadata, NEW incoming \in Metadata
    PROVE  Resolved(existing, incoming) \in Maybe(Journal)
BY DEF Resolved, Metadata, IfListed, FirstKnown, Maybe

LEMMA EnrichMetadataType ==
    ASSUME NEW existing \in Metadata, NEW incoming \in Metadata
    PROVE  EnrichMetadata(existing, incoming) \in Metadata
<1> DEFINE year == FirstKnown(existing.year, incoming.year)
           journal == Resolved(existing, incoming)
           source == FirstKnown(existing.sourceId, incoming.sourceId)
           name == FirstKnown(incoming.name, existing.name)
<1>1. year \in Maybe(Year) /\ source \in Maybe(Journal \cup {Unlisted})
        /\ name \in Maybe(Journal \cup {Unlisted})
  BY DEF Metadata, FirstKnown
<1>2. journal \in Maybe(Journal)
  BY ResolvedType
<1> HIDE DEF year, journal, source, name
<1>3. CASE journal = None
  <2>1. EnrichMetadata(existing, incoming) =
          [year |-> year, issn |-> None, sourceId |-> source, journalId |-> None, name |-> name]
    BY <1>3 DEF EnrichMetadata, year, journal, source, name
  <2> QED
    BY <1>1, <2>1 DEF Metadata, Maybe
<1>4. CASE journal # None
  <2>1. EnrichMetadata(existing, incoming) =
          [year |-> year, issn |-> journal, sourceId |-> journal, journalId |-> journal,
           name |-> journal]
    BY <1>4 DEF EnrichMetadata, year, journal, source, name
  <2> QED
    BY <1>1, <1>2, <2>1 DEF Metadata, Maybe
<1> QED
  BY <1>3, <1>4

\* Enrichment keeps a record a record (enrich).
LEMMA EnrichType ==
    ASSUME NEW existing \in Paper, NEW incoming \in Paper
    PROVE  Enrich(existing, incoming) \in Paper
<1>1. EnrichMetadata(existing.meta, incoming.meta) \in Metadata
  BY EnrichMetadataType DEF Paper
<1> QED
  BY <1>1 DEF Enrich, Paper, FirstKnown, Maybe

\* The three parts of the list of keys that are looked up for a record.
LEMMA LookupParts ==
    ASSUME NEW raw \in RawPaper
    PROVE  /\ StrongKey("doi", Prepare(raw).doi) \in Seq(Key)
           /\ StrongKey("arxiv", Prepare(raw).arxiv) \in Seq(Key)
           /\ ProviderLookups(raw) \in Seq(Key)
<1>1. Prepare(raw) \in Paper
  BY PrepareType
<1>2. Prepare(raw).doi # None => <<"doi", Prepare(raw).doi>> \in Key
  BY <1>1 DEF Paper, Key, Maybe
<1>3. Prepare(raw).arxiv # None => <<"arxiv", Prepare(raw).arxiv>> \in Key
  BY <1>1 DEF Paper, Key, Maybe
<1>4. Len(raw.aliases) + 1 \in Nat
  BY DEF RawPaper
<1>5. \A n \in 1..Len(raw.aliases) + 1 : ProviderKeys(raw)[n] \in ProviderKey
  BY NormalFormAssumption DEF RawPaper, ProviderKeys
<1>6. \A n \in 1..Len(raw.aliases) + 1 : <<"provider", ProviderKeys(raw)[n]>> \in Key
  BY <1>5 DEF Key
<1>7. ProviderLookups(raw) \in Seq(Key)
  BY <1>4, <1>6 DEF ProviderLookups
<1>8. \A key \in Key : <<key>> \in Seq(Key)
  OBVIOUS
<1> QED
  BY <1>2, <1>3, <1>7, <1>8 DEF StrongKey

\* They are primary keys of paper_aliases.
LEMMA LookupKeysType ==
    ASSUME NEW raw \in RawPaper
    PROVE  LookupKeys(raw) \in Seq(Key)
BY LookupParts DEF LookupKeys

LEMMA FirstOfConcat ==
    ASSUME NEW S, NEW s \in Seq(S), NEW t \in Seq(S), Len(s) >= 1
    PROVE  s \o t \in Seq(S) /\ Len(s \o t) >= 1 /\ (s \o t)[1] = s[1]
OBVIOUS

\* The DOI of a record, if it has one, is looked up first (identity_aliases):
\* matches[0] of reconcile is its owner.
LEMMA DoiIsFirstKey ==
    ASSUME NEW raw \in RawPaper, Prepare(raw).doi # None
    PROVE  1 \in DOMAIN LookupKeys(raw) /\ LookupKeys(raw)[1] = <<"doi", Prepare(raw).doi>>
<1> DEFINE doi == StrongKey("doi", Prepare(raw).doi)
           arxiv == StrongKey("arxiv", Prepare(raw).arxiv)
           provider == ProviderLookups(raw)
<1>1. doi \in Seq(Key) /\ arxiv \in Seq(Key) /\ provider \in Seq(Key)
  BY LookupParts
<1>2. Len(doi) >= 1 /\ doi[1] = <<"doi", Prepare(raw).doi>>
  BY DEF StrongKey
<1>3. LookupKeys(raw) = doi \o arxiv \o provider
  BY DEF LookupKeys
<1> HIDE DEF doi, arxiv, provider
<1>4. doi \o arxiv \in Seq(Key) /\ Len(doi \o arxiv) >= 1 /\ (doi \o arxiv)[1] = doi[1]
  BY <1>1, <1>2, FirstOfConcat
<1>5. /\ LookupKeys(raw) \in Seq(Key)
      /\ Len(LookupKeys(raw)) >= 1
      /\ LookupKeys(raw)[1] = (doi \o arxiv)[1]
  <2> DEFINE strong == doi \o arxiv
  <2>1. strong \in Seq(Key) /\ Len(strong) >= 1
    BY <1>4
  <2> HIDE DEF strong
  <2>2. strong \o provider \in Seq(Key) /\ Len(strong \o provider) >= 1
          /\ (strong \o provider)[1] = strong[1]
    BY <1>1, <2>1, FirstOfConcat
  <2> QED
    BY <1>3, <2>2 DEF strong
<1> QED
  BY <1>2, <1>4, <1>5

LEMMA CompatibleSymmetric ==
    ASSUME NEW paper, NEW other, NEW kind, Compatible(paper, other, kind)
    PROVE  Compatible(other, paper, kind)
BY DEF Compatible, Differ

\* A merge loses no key: what either record can be found by, the merged one can
\* (enrich, for records that compatible() lets reconcile merge).
LEMMA EnrichKeepsKeys ==
    ASSUME NEW existing \in Paper, NEW incoming \in Paper, NEW key \in Key,
           Compatible(existing, incoming, "provider"),
           HasKey(existing, key) \/ HasKey(incoming, key)
    PROVE  HasKey(Enrich(existing, incoming), key)
BY NoneIsNoValue DEF Paper, Key, Compatible, Differ, HasKey, Enrich, FirstKnown, Maybe

\* The keys of the existing record survive an incoming one of any kind.
LEMMA EnrichKeepsOwnKeys ==
    ASSUME NEW existing \in Paper, NEW incoming \in Paper, NEW key \in Key,
           HasKey(existing, key)
    PROVE  HasKey(Enrich(existing, incoming), key)
BY NoneIsNoValue DEF Paper, Key, HasKey, Enrich, FirstKnown, Maybe

\* A DOI or arXiv id of the merged record comes from one of the two.
LEMMA EnrichInventsNothing ==
    ASSUME NEW existing \in Paper, NEW incoming \in Paper, NEW key \in Key,
           key[1] # "provider", HasKey(Enrich(existing, incoming), key)
    PROVE  HasKey(existing, key) \/ HasKey(incoming, key)
BY NoneIsNoValue DEF Paper, Key, HasKey, Enrich, FirstKnown, Maybe

-----------------------------------------------------------------------------
(* Ids and links.                                                           *)

LEMMA NoneIsNoId ==
    /\ None \notin PaperId
    /\ None \notin ScanId
    /\ None \notin AnalysisId
    /\ None \notin Link
BY StoreAssumption

-----------------------------------------------------------------------------
(* The table operations keep the tables tables.                             *)

LEMMA JoinType ==
    ASSUME NEW link \in Maybe(Link), NEW other \in Maybe(Link)
    PROVE  /\ Join(link, other) \in Maybe(Link)
           /\ Join(link, other) = None <=> link = None /\ other = None
<1>1. CASE link = None \/ other = None
  BY <1>1 DEF Join
<1>2. CASE link # None /\ other # None
  <2>1. link \in Link /\ other \in Link
    BY <1>2 DEF Maybe
  <2>2. Lower(link.pos, other.pos) \in Nat /\ Higher(link.score, other.score) \in Nat
    BY <2>1 DEF Link, Lower, Higher
  <2>3. Join(link, other) \in Link
    BY <1>2, <2>2 DEF Join, Link
  <2> QED
    BY <1>2, <2>3, NoneIsNoId DEF Maybe
<1> QED
  BY <1>1, <1>2

LEMMA InsertScanType ==
    ASSUME NEW t \in Tables, NEW s \in ScanId
    PROVE  InsertScan(t, s) \in Tables
BY DEF InsertScan, Tables

LEMMA InsertAnalysisType ==
    ASSUME NEW t \in Tables, NEW a \in AnalysisId, NEW p \in PaperId
    PROVE  InsertAnalysis(t, a, p) \in Tables
BY DEF InsertAnalysis, Tables, Maybe

LEMMA ReparentType ==
    ASSUME NEW t \in Tables, NEW old \in PaperId, NEW new \in PaperId
    PROVE  Reparent(t, old, new) \in Tables
<1>1. [t.papers EXCEPT ![old] = None] \in [PaperId -> Maybe(Paper)]
  BY DEF Tables, Maybe
<1>2. [t.created EXCEPT ![old] = None] \in [PaperId -> Maybe(Time)]
  BY DEF Tables, Maybe
<1>3. [k \in Key |-> Moved(t.alias[k], old, new)] \in [Key -> Maybe(PaperId)]
  BY DEF Tables, Maybe, Moved
<1>4. [p \in PaperId |-> IF p = old THEN new ELSE Moved(t.redirect[p], old, new)]
        \in [PaperId -> Maybe(PaperId)]
  BY DEF Tables, Maybe, Moved
<1>5. ASSUME NEW s \in ScanId, NEW p \in PaperId
      PROVE  (IF p = old THEN None
              ELSE IF p = new THEN Join(t.links[s][new], t.links[s][old])
              ELSE t.links[s][p]) \in Maybe(Link)
  <2>1. \A q \in PaperId : t.links[s][q] \in Maybe(Link)
    BY DEF Tables
  <2>2. Join(t.links[s][new], t.links[s][old]) \in Maybe(Link)
    BY <2>1, JoinType
  <2> QED
    BY <2>1, <2>2 DEF Maybe
<1>6. [a \in AnalysisId |-> Moved(t.analyses[a], old, new)] \in [AnalysisId -> Maybe(PaperId)]
  BY DEF Tables, Maybe, Moved
<1>7. t.scans \in SUBSET ScanId
  BY DEF Tables
<1> QED
  BY <1>1, <1>2, <1>3, <1>4, <1>5, <1>6, <1>7 DEF Reparent, Tables

LEMMA UpsertType ==
    ASSUME NEW t \in Tables, NEW id \in PaperId, NEW paper \in Paper,
           NEW now \in Maybe(Time), NEW s \in ScanId, NEW link \in Link
    PROVE  Upsert(t, id, paper, now, s, link) \in Tables
<1>1. [t.papers EXCEPT ![id] = paper] \in [PaperId -> Maybe(Paper)]
  BY DEF Tables, Maybe
<1>2. [t.created EXCEPT ![id] = IF @ = None THEN now ELSE @] \in [PaperId -> Maybe(Time)]
  BY DEF Tables
<1>3. [k \in Key |-> IF HasKey(paper, k) THEN id ELSE t.alias[k]] \in [Key -> Maybe(PaperId)]
  BY DEF Tables, Maybe
<1>4. [t.links EXCEPT ![s][id] = Join(@, link)]
        \in [ScanId -> [PaperId -> Maybe(Link)]]
  <2>1. t.links[s] \in [PaperId -> Maybe(Link)]
    BY DEF Tables
  <2>2. Join(t.links[s][id], link) \in Maybe(Link)
    BY <2>1, JoinType DEF Maybe
  <2> QED
    BY <2>1, <2>2 DEF Tables
<1> QED
  BY <1>1, <1>2, <1>3, <1>4 DEF Upsert, Tables

LEMMA DropForeignType ==
    ASSUME NEW t \in Tables, NEW id, NEW paper \in Paper
    PROVE  DropForeign(t, id, paper) \in Paper
BY DEF DropForeign, Paper, Maybe

-----------------------------------------------------------------------------
(* The table operations keep the references whole.                          *)

LEMMA InsertScanWhole ==
    ASSUME NEW t \in Tables, NEW s \in ScanId, Whole(t)
    PROVE  Whole(InsertScan(t, s))
BY DEF Whole, ForeignKeys, InsertScan, Tables

LEMMA InsertAnalysisWhole ==
    ASSUME NEW t \in Tables, NEW a \in AnalysisId, NEW p \in PaperId,
           Whole(t), t.papers[p] # None
    PROVE  Whole(InsertAnalysis(t, a, p))
BY DEF Whole, ForeignKeys, InsertAnalysis, Tables

\* _reparent moves every row that names the old paper before it deletes it.
LEMMA ReparentWhole ==
    ASSUME NEW t \in Tables, NEW old \in PaperId, NEW new \in PaperId, old # new,
           Whole(t), t.papers[old] # None, t.papers[new] # None
    PROVE  Whole(Reparent(t, old, new))
<1> DEFINE u == Reparent(t, old, new)
<1>1. \A p \in PaperId : u.papers[p] = IF p = old THEN None ELSE t.papers[p]
  BY DEF Reparent, Tables
<1>2. \A k \in Key : u.alias[k] = Moved(t.alias[k], old, new)
  BY DEF Reparent
<1>3. \A p \in PaperId :
         u.redirect[p] = IF p = old THEN new ELSE Moved(t.redirect[p], old, new)
  BY DEF Reparent
<1>4. \A s \in ScanId, p \in PaperId :
         u.links[s][p] = IF p = old THEN None
                         ELSE IF p = new THEN Join(t.links[s][new], t.links[s][old])
                         ELSE t.links[s][p]
  BY DEF Reparent
<1>5. \A a \in AnalysisId : u.analyses[a] = Moved(t.analyses[a], old, new)
  BY DEF Reparent
<1>6. u.scans = t.scans
  BY DEF Reparent
<1>7. \A k \in Key : t.alias[k] \in Maybe(PaperId)
  BY DEF Tables
<1>8. \A p \in PaperId : t.redirect[p] \in Maybe(PaperId)
  BY DEF Tables
<1>9. \A a \in AnalysisId : t.analyses[a] \in Maybe(PaperId)
  BY DEF Tables
<1>10. \A s \in ScanId, p \in PaperId : t.links[s][p] \in Maybe(Link)
  BY DEF Tables
<1>11. \A s \in ScanId :
          Join(t.links[s][new], t.links[s][old]) # None
              => t.links[s][new] # None \/ t.links[s][old] # None
  BY <1>10, JoinType
<1> HIDE DEF u
<1>12. \A k \in Key : u.alias[k] # None => u.papers[u.alias[k]] # None
  BY <1>1, <1>2, <1>7 DEF Whole, ForeignKeys, Moved, Maybe
<1>13. ASSUME NEW p \in PaperId, u.redirect[p] # None
       PROVE  u.papers[u.redirect[p]] # None /\ u.papers[p] = None
  <2>1. CASE p = old
    BY <1>1, <1>3, <2>1
  <2>2. CASE p # old
    <3>1. t.redirect[p] \in PaperId /\ t.papers[p] = None /\ t.papers[t.redirect[p]] # None
      BY <1>3, <1>8, <1>13, <2>2, NoneIsNoId DEF Whole, ForeignKeys, Moved, Maybe
    <3> QED
      BY <1>1, <1>3, <2>2, <3>1 DEF Moved
  <2> QED
    BY <2>1, <2>2
<1>14. \A s \in ScanId, p \in PaperId :
          u.links[s][p] # None => s \in u.scans /\ u.papers[p] # None
  BY <1>1, <1>4, <1>6, <1>11 DEF Whole, ForeignKeys
<1>15. \A a \in AnalysisId : u.analyses[a] # None => u.papers[u.analyses[a]] # None
  BY <1>1, <1>5, <1>9 DEF Whole, ForeignKeys, Moved, Maybe
<1> QED
  BY <1>12, <1>13, <1>14, <1>15 DEF Whole, ForeignKeys, u

LEMMA UpsertWhole ==
    ASSUME NEW t \in Tables, NEW id \in PaperId, NEW paper \in Paper,
           NEW now \in Maybe(Time), NEW s \in ScanId, NEW link \in Link,
           Whole(t), s \in t.scans,
           t.papers[id] # None \/ t.redirect[id] = None
    PROVE  Whole(Upsert(t, id, paper, now, s, link))
<1> DEFINE u == Upsert(t, id, paper, now, s, link)
<1>1. \A p \in PaperId : u.papers[p] = IF p = id THEN paper ELSE t.papers[p]
  BY DEF Upsert, Tables
<1>2. \A k \in Key : u.alias[k] = IF HasKey(paper, k) THEN id ELSE t.alias[k]
  BY DEF Upsert
<1>3. u.redirect = t.redirect /\ u.scans = t.scans /\ u.analyses = t.analyses
  BY DEF Upsert
<1>4. \A r \in ScanId, p \in PaperId :
         u.links[r][p] = IF r = s /\ p = id THEN Join(t.links[s][id], link) ELSE t.links[r][p]
  BY DEF Upsert, Tables
<1>5. paper # None
  BY NoneIsNoValue
<1>6. \A k \in Key : t.alias[k] \in Maybe(PaperId)
  BY DEF Tables
<1>7. \A p \in PaperId : t.redirect[p] \in Maybe(PaperId)
  BY DEF Tables
<1>8. \A a \in AnalysisId : t.analyses[a] \in Maybe(PaperId)
  BY DEF Tables
<1> HIDE DEF u
<1>9. \A p \in PaperId : t.papers[p] # None => u.papers[p] # None
  BY <1>1, <1>5
<1>10. u.papers[id] # None
  BY <1>1, <1>5
<1>11. \A k \in Key : u.alias[k] # None => u.papers[u.alias[k]] # None
  BY <1>2, <1>6, <1>9, <1>10 DEF Whole, ForeignKeys, Maybe
<1>12. \A p \in PaperId : u.redirect[p] # None =>
          u.papers[u.redirect[p]] # None /\ u.papers[p] = None
  BY <1>1, <1>3, <1>7, <1>9 DEF Whole, ForeignKeys, Maybe
<1>13. \A r \in ScanId, p \in PaperId :
          u.links[r][p] # None => r \in u.scans /\ u.papers[p] # None
  BY <1>3, <1>4, <1>9, <1>10 DEF Whole, ForeignKeys
<1>14. \A a \in AnalysisId : u.analyses[a] # None => u.papers[u.analyses[a]] # None
  BY <1>3, <1>8, <1>9 DEF Whole, ForeignKeys, Maybe
<1> QED
  BY <1>11, <1>12, <1>13, <1>14 DEF Whole, ForeignKeys, u

-----------------------------------------------------------------------------
(* What get_paper answers, before and after.                                *)

LEMMA ResolveType ==
    ASSUME NEW t \in Tables, NEW p \in PaperId
    PROVE  /\ Resolve(t, p) \in Maybe(PaperId)
           /\ Resolve(t, p) # None => t.papers[Resolve(t, p)] # None
BY NoneIsNoId DEF Resolve, Tables, Maybe

LEMMA ResolveLive ==
    ASSUME NEW t \in Tables, NEW p \in PaperId, t.papers[p] # None
    PROVE  Resolve(t, p) = p
BY DEF Resolve

\* Uniting two papers moves exactly the ids that stood for the old one.
LEMMA ReparentResolve ==
    ASSUME NEW t \in Tables, NEW old \in PaperId, NEW new \in PaperId, old # new,
           Whole(t), t.papers[old] # None, t.papers[new] # None, NEW p \in PaperId
    PROVE  Resolve(Reparent(t, old, new), p) = Moved(Resolve(t, p), old, new)
<1> DEFINE u == Reparent(t, old, new)
<1>1. \A q \in PaperId : u.papers[q] = IF q = old THEN None ELSE t.papers[q]
  BY DEF Reparent, Tables
<1>2. \A q \in PaperId :
         u.redirect[q] = IF q = old THEN new ELSE Moved(t.redirect[q], old, new)
  BY DEF Reparent
<1>3. \A q \in PaperId : t.redirect[q] \in Maybe(PaperId)
  BY DEF Tables
<1>4. \A q \in PaperId : t.redirect[q] # None => t.papers[q] = None /\ t.papers[t.redirect[q]] # None
  BY DEF Whole, ForeignKeys
<1> HIDE DEF u
<1>5. Resolve(u, p) = Moved(Resolve(t, p), old, new)
  BY <1>1, <1>2, <1>3, <1>4, NoneIsNoId DEF Resolve, Moved, Maybe
<1> QED
  BY <1>5 DEF u

\* Writing a paper changes the answer for no id that had one.
LEMMA UpsertResolve ==
    ASSUME NEW t \in Tables, NEW id \in PaperId, NEW paper \in Paper,
           NEW now, NEW s, NEW link, NEW p \in PaperId, Resolve(t, p) # None
    PROVE  Resolve(Upsert(t, id, paper, now, s, link), p)
             = IF p = id THEN id ELSE Resolve(t, p)
<1> DEFINE u == Upsert(t, id, paper, now, s, link)
<1>1. \A q \in PaperId : u.papers[q] = IF q = id THEN paper ELSE t.papers[q]
  BY DEF Upsert, Tables
<1>2. u.redirect = t.redirect
  BY DEF Upsert
<1>3. paper # None
  BY NoneIsNoValue
<1>4. \A q \in PaperId : t.redirect[q] \in Maybe(PaperId)
  BY DEF Tables
<1> HIDE DEF u
<1>5. Resolve(u, p) = IF p = id THEN id ELSE Resolve(t, p)
  BY <1>1, <1>2, <1>3, <1>4 DEF Resolve, Maybe
<1> QED
  BY <1>5 DEF u

-----------------------------------------------------------------------------
(* The matches of a record.                                                 *)

LEMMA HitType ==
    ASSUME NEW t \in Tables, NEW raw \in RawPaper, Whole(t),
           NEW n \in DOMAIN LookupKeys(raw)
    PROVE  /\ Hit(t, raw, n) \in Maybe(PaperId)
           /\ Hit(t, raw, n) # None => t.papers[Hit(t, raw, n)] # None
<1>1. LookupKeys(raw)[n] \in Key
  BY LookupKeysType
<1>2. t.alias[LookupKeys(raw)[n]] \in Maybe(PaperId)
  BY <1>1 DEF Tables
<1>3. t.alias[LookupKeys(raw)[n]] # None => t.papers[t.alias[LookupKeys(raw)[n]]] # None
  BY <1>1 DEF Whole, ForeignKeys
<1> QED
  BY <1>2, <1>3 DEF Hit, Maybe

\* Every match has a row (the JOIN in find_matches loses nothing).
LEMMA FindMatchesType ==
    ASSUME NEW t \in Tables, NEW raw \in RawPaper, Whole(t), NEW p \in FindMatches(t, raw)
    PROVE  p \in PaperId /\ t.papers[p] # None
<1>1. \A q \in Hits(t, raw) : q \in PaperId /\ t.papers[q] # None
  BY HitType DEF Hits, Maybe
<1>2. \A q \in TitleMatches(t, raw) : q \in PaperId /\ t.papers[q] # None
  BY DEF TitleMatches, Live
<1> QED
  BY <1>1, <1>2 DEF FindMatches

\* The owner of the record's DOI is the first of the matches, in the whole
\* result of find_matches and in any part of it that is still to be merged.
LEMMA DoiOwnerIsFirst ==
    ASSUME NEW t \in Tables, NEW raw \in RawPaper, Prepare(raw).doi # None,
           NEW owner \in PaperId, t.alias[<<"doi", Prepare(raw).doi>>] = owner,
           HasKey(t.papers[owner], <<"doi", Prepare(raw).doi>>)
    PROVE  /\ owner \in FindMatches(t, raw)
           /\ \A S, p : owner \in S /\ IsFirst(t, raw, S, p) => p = owner
<1>1. 1 \in DOMAIN LookupKeys(raw) /\ LookupKeys(raw)[1] = <<"doi", Prepare(raw).doi>>
  BY DoiIsFirstKey
<1>2. Compatible(t.papers[owner], Prepare(raw), "doi")
  BY DEF HasKey, Compatible, Differ
<1>3. Hit(t, raw, 1) = owner
  BY <1>1, <1>2, NoneIsNoId DEF Hit
<1>4. owner \in Hits(t, raw)
  BY <1>1, <1>3, NoneIsNoId DEF Hits
<1>5. owner \in FindMatches(t, raw)
  BY <1>4 DEF FindMatches
<1>6. ASSUME NEW S, NEW p, owner \in S, IsFirst(t, raw, S, p)
      PROVE  p = owner
  <2>1. CASE S = {p}
    BY <1>6, <2>1
  <2>2. CASE \E n \in DOMAIN LookupKeys(raw) :
               Hit(t, raw, n) = p /\ \A m \in 1..(n - 1) : Hit(t, raw, m) \notin S
    <3>1. PICK n \in DOMAIN LookupKeys(raw) :
               Hit(t, raw, n) = p /\ \A m \in 1..(n - 1) : Hit(t, raw, m) \notin S
      BY <2>2
    <3>2. n \in Nat /\ n >= 1
      BY LookupKeysType
    <3>3. n = 1
      BY <1>3, <1>6, <3>1, <3>2
    <3> QED
      BY <1>3, <3>1, <3>3
  <2> QED
    BY <1>6, <2>1, <2>2 DEF IsFirst
<1> QED
  BY <1>5, <1>6

-----------------------------------------------------------------------------
(* The index.                                                               *)

\* Absorbing a duplicate keeps the index exact but for the canonical paper.
LEMMA ReparentIndex ==
    ASSUME NEW t \in Tables, NEW id \in PaperId, NEW q \in PaperId, q # id,
           NEW paper \in Paper, t.papers[q] # None, IndexedBut(t, id, paper),
           Compatible(paper, t.papers[q], "provider")
    PROVE  IndexedBut(Reparent(t, q, id), id, Enrich(paper, t.papers[q]))
<1> DEFINE u == Reparent(t, q, id)
           other == t.papers[q]
           merged == Enrich(paper, other)
<1>1. \A p \in PaperId : u.papers[p] = IF p = q THEN None ELSE t.papers[p]
  BY DEF Reparent, Tables
<1>2. \A k \in Key : u.alias[k] = Moved(t.alias[k], q, id)
  BY DEF Reparent
<1>3. other \in Paper
  BY DEF Tables, Maybe
<1>4. \A k \in Key : t.alias[k] = id => HasKey(paper, k)
  BY NoneIsNoId DEF IndexedBut
<1>5. \A k \in Key : t.alias[k] = q => HasKey(other, k)
  BY DEF IndexedBut
<1>6. \A k \in Key : HasKey(other, k) => t.alias[k] = q
  BY DEF IndexedBut
<1>7. \A k \in Key : k[1] # "provider" /\ HasKey(paper, k) => t.alias[k] = id
  BY NoneIsNoId DEF IndexedBut
<1>8. \A k \in Key : HasKey(paper, k) \/ HasKey(other, k) => HasKey(merged, k)
  BY <1>3, EnrichKeepsKeys
<1>9. \A k \in Key : k[1] # "provider" /\ HasKey(merged, k)
                        => HasKey(paper, k) \/ HasKey(other, k)
  BY <1>3, EnrichInventsNothing
<1>10. \A k \in Key, p \in PaperId :
          p # id => (t.alias[k] = p <=> t.papers[p] # None /\ HasKey(t.papers[p], k))
  BY DEF IndexedBut
<1> HIDE DEF u, other, merged
<1>11. \A k \in Key, p \in PaperId :
          p # id => (u.alias[k] = p <=> u.papers[p] # None /\ HasKey(u.papers[p], k))
  BY <1>1, <1>2, <1>10 DEF Moved
<1>12. \A k \in Key : u.alias[k] = id => HasKey(merged, k)
  BY <1>2, <1>4, <1>5, <1>8 DEF Moved
<1>13. \A k \in Key : k[1] # "provider" /\ HasKey(merged, k) => u.alias[k] = id
  BY <1>2, <1>6, <1>7, <1>9 DEF Moved
<1> QED
  BY <1>11, <1>12, <1>13 DEF IndexedBut, u, merged, other

\* The filters of save() and the ownership of the DOI leave no conflict.
LEMMA NoConflict ==
    ASSUME NEW t \in Tables, NEW id \in PaperId, NEW paper \in Paper,
           paper.doi # None => t.alias[<<"doi", paper.doi>>] \in {None, id}
    PROVE  ~Conflicts(t, id, DropForeign(t, id, paper))
<1> SUFFICES ASSUME NEW k \in Key, HasKey(DropForeign(t, id, paper), k),
                    t.alias[k] \notin {None, id}
             PROVE  FALSE
  BY DEF Conflicts
<1>1. CASE k \in {"doi"} \X Doi
  <2>1. k[1] = "doi" /\ k[2] = paper.doi /\ k = <<"doi", paper.doi>> /\ paper.doi # None
    BY <1>1, NoneIsNoValue DEF HasKey, DropForeign
  <2> QED
    BY <2>1
<1>2. CASE k \in {"arxiv"} \X ArxivId
  <2>1. k = <<"arxiv", k[2]>> /\ k[2] # None /\ k[2] = DropForeign(t, id, paper).arxiv
    BY <1>2, NoneIsNoValue DEF HasKey
  <2>2. k[2] = paper.arxiv /\ t.alias[<<"arxiv", paper.arxiv>>] \in {None, id}
    BY <2>1 DEF DropForeign
  <2> QED
    BY <2>1, <2>2
<1>3. CASE k \in {"provider"} \X ProviderKey
  <2>1. k = <<"provider", k[2]>> /\ k[2] \in DropForeign(t, id, paper).aliases
    BY <1>3 DEF HasKey
  <2>2. t.alias[<<"provider", k[2]>>] \in {None, id}
    BY <2>1 DEF DropForeign
  <2> QED
    BY <2>1, <2>2
<1> QED
  BY <1>1, <1>2, <1>3 DEF Key

\* What nobody else owns is not dropped.
LEMMA DropForeignKeepsFree ==
    ASSUME NEW t, NEW id, NEW paper \in Paper, NEW k \in Key,
           HasKey(paper, k), t.alias[k] \in {None, id}
    PROVE  HasKey(DropForeign(t, id, paper), k)
<1>1. CASE k \in {"doi"} \X Doi
  BY <1>1 DEF HasKey, DropForeign
<1>2. CASE k \in {"arxiv"} \X ArxivId
  <2>1. k = <<"arxiv", paper.arxiv>>
    BY <1>2 DEF HasKey
  <2> QED
    BY <1>2, <2>1 DEF HasKey, DropForeign
<1>3. CASE k \in {"provider"} \X ProviderKey
  <2>1. k = <<"provider", k[2]>> /\ k[2] \in paper.aliases
    BY <1>3 DEF HasKey
  <2> QED
    BY <1>3, <2>1 DEF HasKey, DropForeign
<1> QED
  BY <1>1, <1>2, <1>3 DEF Key

\* Writing the canonical paper makes the index exact again.
LEMMA UpsertIndex ==
    ASSUME NEW t \in Tables, NEW id \in PaperId, NEW stored \in Paper, NEW now, NEW s, NEW link,
           \A k \in Key, p \in PaperId :
              p # id => (t.alias[k] = p <=> t.papers[p] # None /\ HasKey(t.papers[p], k)),
           \A k \in Key : t.alias[k] = id => HasKey(stored, k),
           ~Conflicts(t, id, stored)
    PROVE  Indexed(Upsert(t, id, stored, now, s, link))
<1> DEFINE u == Upsert(t, id, stored, now, s, link)
<1>1. \A p \in PaperId : u.papers[p] = IF p = id THEN stored ELSE t.papers[p]
  BY DEF Upsert, Tables
<1>2. \A k \in Key : u.alias[k] = IF HasKey(stored, k) THEN id ELSE t.alias[k]
  BY DEF Upsert
<1>3. \A k \in Key : HasKey(stored, k) => t.alias[k] \in {None, id}
  BY DEF Conflicts
<1>4. stored # None
  BY NoneIsNoValue
<1> HIDE DEF u
<1>5. ASSUME NEW k \in Key, NEW p \in PaperId
      PROVE  u.alias[k] = p <=> u.papers[p] # None /\ HasKey(u.papers[p], k)
  <2>1. CASE p = id
    BY <1>1, <1>2, <1>4, <2>1
  <2>2. CASE p # id
    <3>1. HasKey(stored, k) => t.alias[k] # p
      BY <1>3, <2>2, NoneIsNoId
    <3> QED
      BY <1>1, <1>2, <2>2, <3>1
  <2> QED
    BY <2>1, <2>2
<1> QED
  BY <1>5 DEF Indexed, u

-----------------------------------------------------------------------------
(* What was committed stays readable.                                       *)

LEMMA GrownReflexive ==
    ASSUME NEW t \in Tables, Whole(t)
    PROVE  GrownFrom(t, t)
<1>1. \A p \in PaperId : t.papers[p] # None => Resolve(t, p) = p
  BY ResolveLive
<1>2. ASSUME NEW p \in PaperId, Resolve(t, p) # None
      PROVE  Became(t, Resolve(t, p), Resolve(t, p))
  BY <1>1, <1>2, ResolveType DEF Became, Maybe
<1>3. ASSUME NEW k \in Key, t.alias[k] # None
      PROVE  Became(t, t.alias[k], t.alias[k])
  <2>1. t.alias[k] \in PaperId /\ t.papers[t.alias[k]] # None
    BY <1>3 DEF Tables, Maybe, Whole, ForeignKeys
  <2> QED
    BY <1>1, <1>3, <2>1 DEF Became
<1>4. ASSUME NEW a \in AnalysisId, t.analyses[a] # None
      PROVE  Became(t, t.analyses[a], t.analyses[a])
  <2>1. t.analyses[a] \in PaperId /\ t.papers[t.analyses[a]] # None
    BY <1>4 DEF Tables, Maybe, Whole, ForeignKeys
  <2> QED
    BY <1>1, <1>4, <2>1 DEF Became
<1>5. ASSUME NEW s \in t.scans
      PROVE  Shown(t, s) = {Resolve(t, p) : p \in Shown(t, s)}
  <2>1. s \in ScanId
    BY DEF Tables
  <2>2. \A p \in Shown(t, s) : p \in PaperId /\ t.papers[p] # None
    BY <2>1 DEF Shown, Whole, ForeignKeys
  <2>3. \A p \in Shown(t, s) : Resolve(t, p) = p
    BY <1>1, <2>2
  <2> QED
    BY <2>3
<1> QED
  BY <1>2, <1>3, <1>4, <1>5 DEF GrownFrom

\* The links of the old paper become the new one's, in every scan.
LEMMA ReparentShown ==
    ASSUME NEW t \in Tables, NEW old \in PaperId, NEW new \in PaperId, old # new,
           NEW s \in ScanId
    PROVE  Shown(Reparent(t, old, new), s) = {Moved(p, old, new) : p \in Shown(t, s)}
<1> DEFINE u == Reparent(t, old, new)
<1>1. \A p \in PaperId :
         u.links[s][p] = IF p = old THEN None
                         ELSE IF p = new THEN Join(t.links[s][new], t.links[s][old])
                         ELSE t.links[s][p]
  BY DEF Reparent
<1>2. \A p \in PaperId : t.links[s][p] \in Maybe(Link)
  BY DEF Tables
<1>3. Join(t.links[s][new], t.links[s][old]) # None
         <=> t.links[s][new] # None \/ t.links[s][old] # None
  BY <1>2, JoinType
<1> HIDE DEF u
<1>4. \A p \in PaperId :
         p \in Shown(u, s) <=> \E q \in Shown(t, s) : p = Moved(q, old, new)
  BY <1>1, <1>3 DEF Shown, Moved
<1>5. \A q \in Shown(t, s) : Moved(q, old, new) \in PaperId
  BY DEF Shown, Moved
<1>6. Shown(u, s) \subseteq PaperId
  BY DEF Shown
<1>7. Shown(u, s) = {Moved(p, old, new) : p \in Shown(t, s)}
  BY <1>4, <1>5, <1>6
<1> QED
  BY <1>7 DEF u

LEMMA GrownReparent ==
    ASSUME NEW d \in Tables, NEW t \in Tables, NEW old \in PaperId, NEW new \in PaperId,
           old # new, Whole(d), Whole(t), t.papers[old] # None, t.papers[new] # None,
           GrownFrom(d, t)
    PROVE  GrownFrom(d, Reparent(t, old, new))
<1> DEFINE u == Reparent(t, old, new)
<1>1. \A p \in PaperId : Resolve(u, p) = Moved(Resolve(t, p), old, new)
  BY ReparentResolve
<1>2. \A k \in Key : u.alias[k] = Moved(t.alias[k], old, new)
  BY DEF Reparent
<1>3. \A a \in AnalysisId : u.analyses[a] = Moved(t.analyses[a], old, new)
  BY DEF Reparent
<1>4. \A s \in ScanId : Shown(u, s) = {Moved(p, old, new) : p \in Shown(t, s)}
  BY ReparentShown
<1> HIDE DEF u
<1>5. ASSUME NEW n, NEW p \in PaperId, Became(t, n, p)
      PROVE  Became(u, Moved(n, old, new), p)
  BY <1>1, <1>5, NoneIsNoId DEF Became, Moved
<1>6. \A p \in PaperId : Resolve(d, p) # None => Became(u, Resolve(u, p), Resolve(d, p))
  <2>1. \A p \in PaperId : Resolve(d, p) \in Maybe(PaperId)
    BY ResolveType
  <2> QED
    BY <1>1, <1>5, <2>1 DEF GrownFrom, Maybe
<1>7. \A k \in Key : d.alias[k] # None => Became(u, u.alias[k], d.alias[k])
  BY <1>2, <1>5 DEF GrownFrom, Tables, Maybe
<1>8. ASSUME NEW s \in d.scans
      PROVE  Shown(u, s) = {Resolve(u, p) : p \in Shown(d, s)}
  <2>1. s \in ScanId
    BY DEF Tables
  <2>2. Shown(t, s) = {Resolve(t, p) : p \in Shown(d, s)}
    BY DEF GrownFrom
  <2>3. Shown(d, s) \subseteq PaperId
    BY DEF Shown
  <2> QED
    BY <1>1, <1>4, <2>1, <2>2, <2>3
<1>9. \A a \in AnalysisId : IF d.analyses[a] = None THEN u.analyses[a] = None
                            ELSE Became(u, u.analyses[a], d.analyses[a])
  <2>1. \A a \in AnalysisId : d.analyses[a] \in Maybe(PaperId)
    BY DEF Tables
  <2> QED
    BY <1>3, <1>5, <2>1, NoneIsNoId DEF GrownFrom, Maybe, Moved
<1> QED
  BY <1>6, <1>7, <1>8, <1>9 DEF GrownFrom, u

LEMMA GrownUpsert ==
    ASSUME NEW d \in Tables, NEW t \in Tables, NEW id \in PaperId, NEW paper \in Paper,
           NEW now, NEW s \in ScanId, NEW link,
           s \notin d.scans, Whole(d), Whole(t), GrownFrom(d, t),
           t.papers[id] # None \/ t.redirect[id] = None,
           ~Conflicts(t, id, paper)
    PROVE  GrownFrom(d, Upsert(t, id, paper, now, s, link))
<1> DEFINE u == Upsert(t, id, paper, now, s, link)
<1>1. \A p \in PaperId : Resolve(t, p) # None => Resolve(u, p) = Resolve(t, p)
  <2>1. Resolve(t, id) # None => Resolve(t, id) = id
    BY DEF Resolve
  <2> QED
    BY <2>1, UpsertResolve
<1>2. \A k \in Key : t.alias[k] # None => u.alias[k] = t.alias[k]
  BY DEF Upsert, Conflicts
<1>3. u.analyses = t.analyses
  BY DEF Upsert
<1>4. \A r \in ScanId : r # s => Shown(u, r) = Shown(t, r)
  BY DEF Upsert, Shown, Tables
<1> HIDE DEF u
<1>5. ASSUME NEW n, NEW p \in PaperId, Became(t, n, p)
      PROVE  Became(u, n, p)
  BY <1>1, <1>5 DEF Became
<1>6. \A p \in PaperId : Resolve(d, p) # None => Became(u, Resolve(u, p), Resolve(d, p))
  <2>1. \A p \in PaperId : Resolve(d, p) \in Maybe(PaperId)
    BY ResolveType
  <2>2. \A p \in PaperId : Resolve(d, p) # None =>
           Resolve(t, p) # None /\ Became(u, Resolve(t, p), Resolve(d, p))
    BY <1>5, <2>1 DEF GrownFrom, Became, Maybe
  <2> QED
    BY <1>1, <2>2
<1>7. \A k \in Key : d.alias[k] # None => Became(u, u.alias[k], d.alias[k])
  <2>1. \A k \in Key : d.alias[k] \in Maybe(PaperId)
    BY DEF Tables
  <2>2. \A k \in Key : d.alias[k] # None =>
           t.alias[k] # None /\ Became(u, t.alias[k], d.alias[k])
    BY <1>5, <2>1 DEF GrownFrom, Became, Maybe
  <2> QED
    BY <1>2, <2>2
<1>8. ASSUME NEW r \in d.scans
      PROVE  Shown(u, r) = {Resolve(u, p) : p \in Shown(d, r)}
  <2>1. r \in ScanId /\ r # s
    BY DEF Tables
  <2>2. Shown(u, r) = {Resolve(t, p) : p \in Shown(d, r)}
    BY <1>4, <2>1 DEF GrownFrom
  <2>3. \A p \in Shown(d, r) : p \in PaperId /\ d.papers[p] # None
    BY <2>1 DEF Shown, Whole, ForeignKeys
  <2>4. \A p \in Shown(d, r) : Resolve(d, p) = p /\ Resolve(d, p) # None
    BY <2>3, ResolveLive, NoneIsNoId
  <2>5. \A p \in Shown(d, r) : Resolve(t, p) # None
    BY <2>3, <2>4 DEF GrownFrom, Became
  <2>6. \A p \in Shown(d, r) : Resolve(u, p) = Resolve(t, p)
    BY <1>1, <2>3, <2>5
  <2> QED
    BY <2>2, <2>6
<1>9. \A a \in AnalysisId : IF d.analyses[a] = None THEN u.analyses[a] = None
                            ELSE Became(u, u.analyses[a], d.analyses[a])
  <2>1. \A a \in AnalysisId : d.analyses[a] \in Maybe(PaperId)
    BY DEF Tables
  <2> QED
    BY <1>3, <1>5, <2>1 DEF GrownFrom, Maybe
<1> QED
  BY <1>6, <1>7, <1>8, <1>9 DEF GrownFrom, u

LEMMA GrownInsertScan ==
    ASSUME NEW t \in Tables, NEW s \in ScanId, Whole(t)
    PROVE  GrownFrom(t, InsertScan(t, s))
<1>1. GrownFrom(t, t)
  BY GrownReflexive
<1> DEFINE u == InsertScan(t, s)
<1>2. u.papers = t.papers /\ u.redirect = t.redirect /\ u.alias = t.alias
        /\ u.links = t.links /\ u.analyses = t.analyses
  BY DEF InsertScan
<1> HIDE DEF u
<1>3. \A p : Resolve(u, p) = Resolve(t, p)
  BY <1>2 DEF Resolve
<1>4. \A r : Shown(u, r) = Shown(t, r)
  BY <1>2 DEF Shown
<1>5. GrownFrom(t, u)
  BY <1>1, <1>2, <1>3, <1>4 DEF GrownFrom, Became
<1> QED
  BY <1>5 DEF u

-----------------------------------------------------------------------------
(* The steps.                                                               *)

LEMMA RecordType ==
    ASSUME TypeOK, NEW s \in ScanId, pos <= Len(batch[s])
    PROVE  Raw(s) \in RawPaper /\ Score(s) \in Nat
<1>1. batch[s] \in Seq(Scored) /\ pos \in 1..Len(batch[s])
  BY DEF TypeOK
<1>2. batch[s][pos] \in Scored
  BY <1>1
<1> QED
  BY <1>2 DEF Raw, Score, Scored

LEMMA InitIInv == Init => IInv
<1> SUFFICES ASSUME Init PROVE IInv
  OBVIOUS
<1>1. EmptyTables \in Tables
  BY DEF EmptyTables, Tables, Maybe
<1>2. TypeOK
  BY <1>1 DEF Init, TypeOK, Locals, NoWork, Phase, Maybe
<1>3. Control /\ Record /\ Scans
  BY NoneIsNoId DEF Init, Control, Record, Scans, EmptyTables
<1>4. Whole(tx) /\ Whole(db)
  BY DEF Init, Whole, ForeignKeys, EmptyTables
<1>5. Index
  BY NoneIsNoId DEF Init, Index, Indexed, NoAliasConflict, EmptyTables
<1>6. GrownFrom(db, tx)
  BY <1>1, <1>4, GrownReflexive DEF Init
<1> QED
  BY <1>2, <1>3, <1>4, <1>5, <1>6 DEF IInv

\* A step that changes only where calls are that do not hold the lock.
LEMMA WaitingStep ==
    ASSUME IInv, calls' \in [ScanId -> Phase],
           batch' \in [ScanId -> Seq(Scored)], stamp' \in [ScanId -> Maybe(Time)],
           UNCHANGED <<db, tx, holder, pos, stage, cur>>,
           \A s \in ScanId :
              \/ calls'[s] = calls[s] /\ batch'[s] = batch[s]
              \/ /\ calls[s] \in {"unused", "waiting"}
                 /\ calls'[s] \in {"waiting", "failed"}
    PROVE  IInv'
<1>1. TypeOK'
  BY DEF IInv, TypeOK
<1>2. \A s \in ScanId : holder = s => batch'[s] = batch[s]
  BY DEF IInv, Control
<1>3. stage = "merge" => holder \in ScanId
  BY DEF IInv, Control, TypeOK, Maybe
<1>4. stage = "merge" => batch'[holder] = batch[holder]
  BY <1>2, <1>3
<1>5. Control'
  BY <1>4 DEF IInv, Control
<1>6. Record'
  BY <1>4 DEF IInv, Record, Raw
<1>7. Scans'
  BY DEF IInv, Scans
<1>8. Index'
  <2>1. NoAliasConflict'
    BY DEF IInv, Index, NoAliasConflict
  <2>2. stage = "merge" => DoiAtHand'
    BY <1>4 DEF IInv, Index, DoiAtHand, Raw
  <2> QED
    BY <2>1, <2>2 DEF IInv, Index
<1> QED
  BY <1>1, <1>5, <1>6, <1>7, <1>8 DEF IInv

\* A step after which nobody holds the lock and the tables are as committed.
LEMMA ReleaseStep ==
    ASSUME IInv, calls' \in [ScanId -> Phase], UNCHANGED <<db, batch, stamp>>,
           holder' = None, tx' = db, pos' = 1, stage' = "match", cur' = NoWork,
           \A s \in ScanId : /\ calls'[s] \notin {"saving", "conflict"}
                             /\ calls'[s] = "committed" <=> calls[s] = "committed"
    PROVE  IInv'
<1>1. TypeOK'
  BY DEF IInv, TypeOK, Locals, NoWork, Maybe
<1>2. Control'
  BY NoneIsNoId DEF Control
<1>3. Record'
  BY DEF Record
<1>4. Whole(tx)' /\ Whole(db)'
  BY DEF IInv
<1>5. Scans'
  BY DEF IInv, Scans
<1>6. Index'
  BY DEF IInv, Index, NoAliasConflict
<1>7. GrownFrom(db, tx)'
  <2>1. GrownFrom(db, db)
    BY GrownReflexive DEF IInv, TypeOK
  <2> QED
    BY <2>1
<1> QED
  BY <1>1, <1>2, <1>3, <1>4, <1>5, <1>6, <1>7 DEF IInv

LEMMA CallStep ==
    ASSUME IInv, NEW s \in ScanId, NEW b \in Seq(Scored), NEW now \in Time,
           CallWith(s, b, now)
    PROVE  IInv'
<1>1. batch' = [batch EXCEPT ![s] = b] /\ stamp' = [stamp EXCEPT ![s] = now]
  BY DEF CallWith
<1>2. calls' = [calls EXCEPT ![s] = "waiting"] /\ calls[s] = "unused"
        /\ UNCHANGED <<db, tx, holder, pos, stage, cur>>
  BY DEF CallWith
<1>3. calls' \in [ScanId -> Phase]
  BY <1>2 DEF IInv, TypeOK, Phase
<1>4. batch' \in [ScanId -> Seq(Scored)] /\ stamp' \in [ScanId -> Maybe(Time)]
  BY <1>1 DEF IInv, TypeOK, Maybe
<1>5. \A r \in ScanId :
         \/ calls'[r] = calls[r] /\ batch'[r] = batch[r]
         \/ calls[r] \in {"unused", "waiting"} /\ calls'[r] \in {"waiting", "failed"}
  BY <1>1, <1>2 DEF IInv, TypeOK
<1> QED
  BY <1>2, <1>3, <1>4, <1>5, WaitingStep

LEMMA BusyTimeoutStep ==
    ASSUME IInv, NEW s \in ScanId, BusyTimeout(s)
    PROVE  IInv'
<1>1. calls' = [calls EXCEPT ![s] = "failed"] /\ calls[s] = "waiting"
        /\ UNCHANGED <<db, tx, holder, batch, stamp, pos, stage, cur>>
  BY DEF BusyTimeout
<1>2. calls' \in [ScanId -> Phase]
  BY <1>1 DEF IInv, TypeOK, Phase
<1>3. batch' \in [ScanId -> Seq(Scored)] /\ stamp' \in [ScanId -> Maybe(Time)]
  BY <1>1 DEF IInv, TypeOK
<1>4. \A r \in ScanId :
         \/ calls'[r] = calls[r] /\ batch'[r] = batch[r]
         \/ calls[r] \in {"unused", "waiting"} /\ calls'[r] \in {"waiting", "failed"}
  BY <1>1 DEF IInv, TypeOK
<1> QED
  BY <1>1, <1>2, <1>3, <1>4, WaitingStep

LEMMA AbortStep ==
    ASSUME IInv, NEW s \in ScanId, Abort(s)
    PROVE  IInv'
<1>1. holder = s /\ calls' = [calls EXCEPT ![s] = "failed"]
  BY DEF Abort, Release
<1>2. calls' \in [ScanId -> Phase]
  BY <1>1 DEF IInv, TypeOK, Phase
<1>3. \A r \in ScanId : /\ calls'[r] \notin {"saving", "conflict"}
                        /\ calls'[r] = "committed" <=> calls[r] = "committed"
  BY <1>1 DEF IInv, TypeOK, Control, Index, NoAliasConflict
<1> QED
  BY <1>2, <1>3, ReleaseStep DEF Abort, Release

LEMMA CrashStep ==
    ASSUME IInv, Die
    PROVE  IInv'
<1>1. calls' = [s \in ScanId |->
                   IF calls[s] \in {"waiting", "saving"} THEN "failed" ELSE calls[s]]
  BY DEF Die
<1>2. calls' \in [ScanId -> Phase]
  BY <1>1 DEF IInv, TypeOK, Phase
<1>3. \A r \in ScanId : /\ calls'[r] \notin {"saving", "conflict"}
                        /\ calls'[r] = "committed" <=> calls[r] = "committed"
  BY <1>1 DEF IInv, Index, NoAliasConflict
<1> QED
  BY <1>2, <1>3, ReleaseStep DEF Die

LEMMA BeginStep ==
    ASSUME IInv, NEW s \in ScanId, Begin(s)
    PROVE  IInv'
<1>1. /\ calls[s] = "waiting" /\ holder = None /\ holder' = s
      /\ tx' = InsertScan(db, s) /\ calls' = [calls EXCEPT ![s] = "saving"]
      /\ pos' = 1 /\ stage' = "match" /\ cur' = NoWork /\ UNCHANGED <<db, batch, stamp>>
  BY DEF Begin
<1>2. db \in Tables /\ Whole(db)
  BY DEF IInv, TypeOK
<1>3. TypeOK'
  BY <1>1, <1>2, InsertScanType DEF IInv, TypeOK, Locals, NoWork, Maybe, Phase
<1>4. Control'
  BY <1>1, NoneIsNoId DEF IInv, TypeOK, Control
<1>5. Record'
  BY <1>1 DEF Record
<1>6. Whole(tx)' /\ Whole(db)'
  BY <1>1, <1>2, InsertScanWhole
<1>7. Scans'
  <2>1. db' = db /\ tx'.scans = db.scans \cup {s}
    BY <1>1 DEF InsertScan
  <2>2. \A r \in ScanId : calls[r] # "saving"
    BY <1>1, NoneIsNoId DEF IInv, Control
  <2>3. \A r \in ScanId : calls'[r] = IF r = s THEN "saving" ELSE calls[r]
    BY <1>1 DEF IInv, TypeOK
  <2> QED
    BY <1>1, <2>1, <2>2, <2>3 DEF IInv, Scans
<1>8. Index'
  <2>1. Indexed(tx)'
    BY <1>1 DEF IInv, Index, Indexed, InsertScan
  <2>2. NoAliasConflict'
    BY <1>1 DEF IInv, TypeOK, Index, NoAliasConflict
  <2> QED
    BY <1>1, <2>1, <2>2 DEF IInv, Index
<1>9. GrownFrom(db, tx)'
  BY <1>1, <1>2, GrownInsertScan
<1> QED
  BY <1>3, <1>4, <1>5, <1>6, <1>7, <1>8, <1>9 DEF IInv

LEMMA MatchStep ==
    ASSUME IInv, NEW s \in ScanId, Match(s)
    PROVE  IInv'
<1> DEFINE raw == Raw(s)
           incoming == Prepare(raw)
           matches == FindMatches(tx, raw)
<1>1. /\ holder = s /\ stage = "match" /\ pos <= Len(batch[s]) /\ stage' = "merge"
      /\ UNCHANGED <<db, tx, holder, calls, batch, stamp, pos>>
  BY DEF Match
<1>2. raw \in RawPaper /\ incoming \in Paper
  BY <1>1, RecordType, PrepareType DEF IInv
<1>3. tx \in Tables /\ Whole(tx) /\ Indexed(tx)
  BY <1>1 DEF IInv, TypeOK, Index
<1>4. \A p \in matches : p \in PaperId /\ tx.papers[p] # None /\ tx.papers[p] \in Paper
  <2>1. \A p \in PaperId : tx.papers[p] \in Maybe(Paper)
    BY <1>3 DEF Tables
  <2> QED
    BY <1>2, <1>3, <2>1, FindMatchesType DEF Maybe
<1>5. \/ /\ matches = {}
         /\ cur' = [id |-> None, paper |-> incoming, pending |-> {}]
      \/ \E p \in matches :
            /\ IsCanonical(tx, raw, matches, p)
            /\ cur' = [id |-> p, paper |-> tx.papers[p], pending |-> matches \ {p}]
  BY DEF Match
<1>6. Raw(holder)' = raw
  BY <1>1 DEF Raw
<1>7. ASSUME incoming.doi # None
      PROVE  LET owner == tx.alias[<<"doi", incoming.doi>>]
             IN  owner # None =>
                   /\ owner \in matches
                   /\ \A S, p : owner \in S /\ IsFirst(tx, raw, S, p) => p = owner
  <2>1. <<"doi", incoming.doi>> \in Key
    BY <1>2, <1>7 DEF Paper, Maybe, Key
  <2>2. tx.alias[<<"doi", incoming.doi>>] \in Maybe(PaperId)
    BY <1>3, <2>1 DEF Tables
  <2>3. tx.alias[<<"doi", incoming.doi>>] # None =>
           HasKey(tx.papers[tx.alias[<<"doi", incoming.doi>>]], <<"doi", incoming.doi>>)
    BY <1>3, <2>1, <2>2 DEF Indexed, Maybe
  <2> QED
    BY <1>2, <1>3, <1>7, <2>2, <2>3, DoiOwnerIsFirst DEF Maybe
<1> HIDE DEF raw, incoming, matches
<1>8. CASE matches = {} /\ cur' = [id |-> None, paper |-> incoming, pending |-> {}]
  <2>1. cur' \in Locals
    BY <1>2, <1>8 DEF Locals, Maybe
  <2>2. Record'
    BY <1>2, <1>6, <1>8, NoneIsNoValue DEF Record, incoming
  <2>3. IndexedBut(tx, cur.id, cur.paper)'
    BY <1>1, <1>3, <1>8 DEF IndexedBut, Indexed
  <2>4. DoiAtHand'
    BY <1>1, <1>6, <1>7, <1>8 DEF DoiAtHand, incoming
  <2> QED
    BY <2>1, <2>2, <2>3, <2>4, <1>1, NoneIsNoId
       DEF IInv, TypeOK, Control, Scans, Index, NoAliasConflict
<1>9. ASSUME NEW p \in matches, IsCanonical(tx, raw, matches, p),
             cur' = [id |-> p, paper |-> tx.papers[p], pending |-> matches \ {p}]
      PROVE  IInv'
  <2>1. cur' \in Locals
    BY <1>4, <1>9 DEF Locals, Maybe
  <2>2. Record'
    BY <1>1, <1>4, <1>9, NoneIsNoId DEF Record
  <2>3. IndexedBut(tx, cur.id, cur.paper)'
    BY <1>1, <1>3, <1>4, <1>9 DEF IndexedBut, Indexed
  <2>4. ASSUME incoming.doi # None
        PROVE  LET owner == tx.alias[<<"doi", incoming.doi>>]
               IN  \/ owner \in {None, p}
                   \/ /\ owner \in matches \ {p}
                      /\ Compatible(tx.papers[p], tx.papers[owner], "provider")
    <3> DEFINE owner == tx.alias[<<"doi", incoming.doi>>]
    <3>1. CASE owner = None
      BY <3>1
    <3>2. CASE owner # None
      <4>1. owner \in matches /\ \A q : IsFirst(tx, raw, matches, q) => q = owner
        BY <1>7, <2>4, <3>2
      <4>2. IF \A q \in matches : Compatible(tx.papers[owner], tx.papers[q], "provider")
            THEN p \in matches ELSE p = owner
        BY <1>9, <4>1 DEF IsCanonical
      <4>3. p = owner \/ Compatible(tx.papers[owner], tx.papers[p], "provider")
        BY <4>2
      <4> QED
        BY <4>1, <4>3, CompatibleSymmetric
    <3> QED
      BY <3>1, <3>2
  <2>5. DoiAtHand'
    BY <1>1, <1>6, <1>9, <2>4 DEF DoiAtHand, incoming
  <2> QED
    BY <2>1, <2>2, <2>3, <2>5, <1>1, NoneIsNoId
       DEF IInv, TypeOK, Control, Scans, Index, NoAliasConflict
<1> QED
  BY <1>5, <1>8, <1>9

\* What both turns of reconcile's loop know of the duplicate at hand: it has a
\* row, and if the record's DOI is owned by a pending match, it is that match.
LEMMA Duplicate ==
    ASSUME IInv, NEW s \in ScanId, holder = s, stage = "merge",
           NEW q \in cur.pending, IsFirst(tx, Raw(s), cur.pending, q)
    PROVE  /\ cur.id \in PaperId /\ tx.papers[cur.id] # None
           /\ q \in PaperId /\ q # cur.id /\ tx.papers[q] \in Paper /\ tx.papers[q] # None
           /\ cur.paper \in Paper
           /\ LET incoming == Prepare(Raw(s))
                  owner == tx.alias[<<"doi", incoming.doi>>]
              IN  incoming.doi # None =>
                    \/ owner \in {None, cur.id}
                    \/ owner = q /\ Compatible(cur.paper, tx.papers[q], "provider")
<1>1. cur \in Locals /\ tx \in Tables /\ Record
  BY DEF IInv, TypeOK
<1>2. cur.id \in PaperId /\ tx.papers[cur.id] # None /\ cur.id \notin cur.pending
        /\ tx.papers[q] # None /\ cur.paper \in Paper
  BY <1>1 DEF Record, Locals, Maybe
<1>3. q \in PaperId /\ tx.papers[q] \in Paper
  <2>1. q \in PaperId
    BY <1>1 DEF Locals
  <2>2. tx.papers[q] \in Maybe(Paper)
    BY <1>1, <2>1 DEF Tables
  <2> QED
    BY <1>2, <2>1, <2>2 DEF Maybe
<1>4. Raw(s) \in RawPaper
  BY RecordType DEF IInv, Control
<1> DEFINE incoming == Prepare(Raw(s))
           key == <<"doi", incoming.doi>>
           owner == tx.alias[key]
<1>5. ASSUME incoming.doi # None, owner \notin {None, cur.id}
      PROVE  owner = q /\ Compatible(cur.paper, tx.papers[q], "provider")
  <2>1. owner \in cur.pending /\ Compatible(cur.paper, tx.papers[owner], "provider")
    BY <1>5 DEF IInv, Index, DoiAtHand
  <2>2. owner \in PaperId
    BY <1>1, <2>1 DEF Locals
  <2>3. key \in Key
    BY <1>4, <1>5, PrepareType DEF Paper, Maybe, Key
  <2>4. HasKey(tx.papers[owner], key)
    <3> HIDE DEF key
    <3> QED
      BY <1>5, <2>2, <2>3 DEF IInv, Index, IndexedBut
  <2>5. \A S, p : owner \in S /\ IsFirst(tx, Raw(s), S, p) => p = owner
    BY <1>1, <1>4, <1>5, <2>2, <2>4, DoiOwnerIsFirst
  <2> QED
    BY <2>1, <2>5
<1> QED
  BY <1>2, <1>3, <1>5

LEMMA MergeDuplicateStep ==
    ASSUME IInv, NEW s \in ScanId, MergeDuplicate(s)
    PROVE  IInv'
<1>1. /\ holder = s /\ stage = "merge"
      /\ UNCHANGED <<db, holder, calls, batch, stamp, pos, stage>>
  BY DEF MergeDuplicate
<1>2. PICK q \in cur.pending :
         /\ IsFirst(tx, Raw(s), cur.pending, q)
         /\ Compatible(cur.paper, tx.papers[q], "provider")
         /\ cur' = [id |-> cur.id, paper |-> Enrich(cur.paper, tx.papers[q]),
                    pending |-> cur.pending \ {q}]
         /\ tx' = Reparent(tx, q, cur.id)
  BY DEF MergeDuplicate
<1>3. /\ cur.id \in PaperId /\ tx.papers[cur.id] # None
      /\ q \in PaperId /\ q # cur.id /\ tx.papers[q] \in Paper /\ tx.papers[q] # None
      /\ cur.paper \in Paper
  BY <1>1, <1>2, Duplicate
<1>4. tx \in Tables /\ db \in Tables /\ Whole(tx) /\ Whole(db) /\ cur \in Locals
  BY DEF IInv, TypeOK
<1>5. tx' \in Tables /\ Whole(tx') /\ GrownFrom(db, tx')
  BY <1>2, <1>3, <1>4, ReparentType, ReparentWhole, GrownReparent DEF IInv
<1>6. Enrich(cur.paper, tx.papers[q]) \in Paper
  BY <1>3, EnrichType
<1>7. cur' \in Locals
  BY <1>2, <1>3, <1>4, <1>6 DEF Locals, Maybe
<1>8. \A p \in PaperId : p # q => tx'.papers[p] = tx.papers[p]
  BY <1>2, <1>4 DEF Reparent, Tables
<1>9. Record'
  <2>1. \A p \in cur.pending : p \in PaperId /\ tx.papers[p] # None
    BY <1>1, <1>4 DEF IInv, Record, Locals
  <2>2. cur.id \notin cur.pending
    BY <1>1, <1>3, NoneIsNoId DEF IInv, Record
  <2> QED
    BY <1>2, <1>3, <1>6, <1>8, <2>1, <2>2, NoneIsNoId, NoneIsNoValue DEF Record
<1>10. tx'.scans = tx.scans
  BY <1>2 DEF Reparent
<1>11. IndexedBut(tx, cur.id, cur.paper)'
  <2>1. IndexedBut(tx, cur.id, cur.paper)
    BY <1>1 DEF IInv, Index
  <2>2. IndexedBut(Reparent(tx, q, cur.id), cur.id, Enrich(cur.paper, tx.papers[q]))
    BY <1>2, <1>3, <1>4, <2>1, ReparentIndex
  <2> QED
    BY <1>2, <2>2
<1>12. DoiAtHand'
  <2> DEFINE incoming == Prepare(Raw(s))
             key == <<"doi", incoming.doi>>
  <2>1. Raw(holder)' = Raw(s)
    BY <1>1 DEF Raw
  <2>2. ASSUME incoming.doi # None
        PROVE  tx'.alias[key] \in {None, cur.id}
    <3>1. tx.alias[key] \in {None, cur.id, q}
      BY <1>1, <1>2, <2>2, Duplicate
    <3>2. Raw(s) \in RawPaper
      BY <1>1, RecordType DEF IInv, Control
    <3>3. key \in Key
      BY <2>2, <3>2, PrepareType DEF Paper, Maybe, Key
    <3>4. tx'.alias[key] = Moved(tx.alias[key], q, cur.id)
      BY <1>2, <3>3 DEF Reparent
    <3> QED
      BY <1>3, <3>1, <3>4, NoneIsNoId DEF Moved
  <2>3. cur'.id = cur.id
    BY <1>2
  <2> QED
    BY <2>1, <2>2, <2>3 DEF DoiAtHand
<1> QED
  BY <1>1, <1>4, <1>5, <1>7, <1>9, <1>10, <1>11, <1>12
     DEF IInv, TypeOK, Control, Scans, Index, NoAliasConflict

LEMMA SkipDuplicateStep ==
    ASSUME IInv, NEW s \in ScanId, SkipDuplicate(s)
    PROVE  IInv'
<1>1. /\ holder = s /\ stage = "merge"
      /\ UNCHANGED <<db, tx, holder, calls, batch, stamp, pos, stage>>
  BY DEF SkipDuplicate
<1>2. PICK q \in cur.pending :
         /\ IsFirst(tx, Raw(s), cur.pending, q)
         /\ ~Compatible(cur.paper, tx.papers[q], "provider")
         /\ cur' = [id |-> cur.id, paper |-> cur.paper, pending |-> cur.pending \ {q}]
  BY DEF SkipDuplicate
<1>3. cur \in Locals /\ cur' \in Locals
  BY <1>2 DEF IInv, TypeOK, Locals
<1>4. Record'
  <2>1. Raw(holder)' = Raw(holder)
    BY <1>1 DEF Raw
  <2> QED
    BY <1>1, <1>2, <2>1 DEF IInv, Record
<1>5. DoiAtHand'
  <2>1. Raw(holder)' = Raw(s)
    BY <1>1 DEF Raw
  <2>2. Prepare(Raw(s)).doi # None =>
           tx.alias[<<"doi", Prepare(Raw(s)).doi>>] \in {None, cur.id}
    BY <1>1, <1>2, Duplicate
  <2>3. tx' = tx /\ cur'.id = cur.id
    BY <1>1, <1>2
  <2> QED
    BY <2>1, <2>2, <2>3 DEF DoiAtHand
<1>6. IndexedBut(tx, cur.id, cur.paper)'
  <2>1. IndexedBut(tx, cur.id, cur.paper)
    BY <1>1 DEF IInv, Index
  <2>2. tx' = tx /\ cur'.id = cur.id /\ cur'.paper = cur.paper
    BY <1>1, <1>2
  <2> QED
    BY <2>1, <2>2
<1> QED
  BY <1>1, <1>3, <1>4, <1>5, <1>6
     DEF IInv, TypeOK, Control, Scans, Index, NoAliasConflict

\* What is known when the record at hand is written: nobody else owns its DOI,
\* and all that is found under the canonical id is in the record in memory.
LEMMA Merged ==
    ASSUME IInv, NEW s \in ScanId, holder = s, stage = "merge", cur.pending = {},
           NEW id \in PaperId, Target(id),
           NEW merged, merged = IF cur.id = None THEN cur.paper
                                ELSE Enrich(cur.paper, Prepare(Raw(s)))
    PROVE  /\ merged \in Paper
           /\ merged.doi # None => tx.alias[<<"doi", merged.doi>>] \in {None, id}
           /\ \A k \in Key : tx.alias[k] = id => HasKey(merged, k)
           /\ \A k \in Key, p \in PaperId :
                 p # id => (tx.alias[k] = p <=> tx.papers[p] # None /\ HasKey(tx.papers[p], k))
           /\ tx.papers[id] # None \/ tx.redirect[id] = None
<1> DEFINE incoming == Prepare(Raw(s))
<1>1. cur \in Locals /\ tx \in Tables /\ Record /\ Whole(tx)
  BY DEF IInv, TypeOK
<1>2. incoming \in Paper
  BY RecordType, PrepareType DEF IInv, Control
<1>3. IndexedBut(tx, cur.id, cur.paper)
  BY DEF IInv, Index
<1>4. incoming.doi # None => tx.alias[<<"doi", incoming.doi>>] \in {None, cur.id}
  BY DEF IInv, Index, DoiAtHand
<1> HIDE DEF incoming
<1>5. CASE cur.id = None
  <2>1. merged = incoming /\ tx.papers[id] = None /\ tx.redirect[id] = None
    BY <1>1, <1>5 DEF Record, Target, Fresh, incoming
  <2>2. \A k \in Key : tx.alias[k] # id
    BY <1>1, <2>1, NoneIsNoId DEF Whole, ForeignKeys
  <2>3. \A k \in Key, p \in PaperId :
           tx.alias[k] = p <=> tx.papers[p] # None /\ HasKey(tx.papers[p], k)
    BY <1>3, <1>5, NoneIsNoId DEF IndexedBut
  <2> QED
    BY <1>2, <1>4, <1>5, <2>1, <2>2, <2>3
<1>6. CASE cur.id # None
  <2>1. id = cur.id /\ merged = Enrich(cur.paper, incoming) /\ tx.papers[id] # None
    BY <1>1, <1>6 DEF Record, Target, incoming
  <2>2. cur.paper \in Paper
    BY <1>1 DEF Record, Locals, Maybe
  <2>3. merged \in Paper
    BY <1>2, <2>1, <2>2, EnrichType
  <2>4. \A k \in Key : tx.alias[k] = id => HasKey(merged, k)
    BY <1>2, <1>3, <1>6, <2>1, <2>2, EnrichKeepsOwnKeys DEF IndexedBut
  <2>5. ASSUME merged.doi # None
        PROVE  tx.alias[<<"doi", merged.doi>>] \in {None, id}
    <3> DEFINE key == <<"doi", merged.doi>>
    <3>1. key \in Key /\ key[1] # "provider" /\ HasKey(merged, key)
      BY <2>3, <2>5 DEF Paper, Maybe, Key, HasKey
    <3>2. HasKey(cur.paper, key) \/ HasKey(incoming, key)
      BY <1>2, <2>1, <2>2, <3>1, EnrichInventsNothing
    <3>3. CASE HasKey(cur.paper, key)
      BY <1>3, <1>6, <2>1, <3>1, <3>3 DEF IndexedBut
    <3>4. CASE HasKey(incoming, key)
      BY <1>4, <2>1, <2>5, <3>4 DEF HasKey
    <3> QED
      BY <3>2, <3>3, <3>4
  <2> QED
    BY <1>3, <2>1, <2>3, <2>4, <2>5 DEF IndexedBut
<1> QED
  BY <1>5, <1>6

LEMMA StoreStep ==
    ASSUME IInv, NEW s \in ScanId, Store(s)
    PROVE  IInv'
<1>1. holder = s /\ stage = "merge" /\ cur.pending = {}
  BY DEF Store
<1>2. PICK id \in PaperId :
         /\ Target(id)
         /\ IF Conflicts(tx, id, Stored(s, id)) THEN Release(s, "conflict") ELSE Write(s, id)
  BY DEF Store
<1> DEFINE merged == IF cur.id = None THEN cur.paper ELSE Enrich(cur.paper, Prepare(Raw(s)))
           stored == DropForeign(tx, id, merged)
           link == [pos |-> pos, score |-> Score(s)]
<1>3. /\ merged \in Paper
      /\ merged.doi # None => tx.alias[<<"doi", merged.doi>>] \in {None, id}
      /\ \A k \in Key : tx.alias[k] = id => HasKey(merged, k)
      /\ \A k \in Key, p \in PaperId :
            p # id => (tx.alias[k] = p <=> tx.papers[p] # None /\ HasKey(tx.papers[p], k))
      /\ tx.papers[id] # None \/ tx.redirect[id] = None
  BY <1>1, <1>2, Merged
<1>4. Stored(s, id) = stored
  BY DEF Stored
<1> HIDE DEF merged
<1>5. tx \in Tables /\ db \in Tables /\ Whole(tx) /\ Whole(db) /\ stored \in Paper
  BY <1>3, DropForeignType DEF IInv, TypeOK
<1>6. ~Conflicts(tx, id, stored)
  BY <1>3, <1>5, NoConflict
<1>7. \A k \in Key : tx.alias[k] = id => HasKey(stored, k)
  BY <1>3, DropForeignKeepsFree
<1>8. link \in Link /\ pos \in Nat \ {0} /\ stamp[s] \in Maybe(Time)
  BY <1>1, RecordType DEF IInv, TypeOK, Control, Link
<1>9. s \in tx.scans /\ s \notin db.scans
  BY <1>1 DEF IInv, Control, Scans
<1> HIDE DEF stored, link
<1>10. /\ tx' = Upsert(tx, id, stored, stamp[s], s, link)
       /\ pos' = pos + 1 /\ stage' = "match" /\ cur' = NoWork
       /\ UNCHANGED <<db, holder, calls, batch, stamp>>
  BY <1>2, <1>4, <1>6 DEF Write, link
<1>11. tx' \in Tables /\ Whole(tx')
  BY <1>3, <1>5, <1>8, <1>9, <1>10, UpsertType, UpsertWhole
<1>12. GrownFrom(db, tx')
  BY <1>3, <1>5, <1>6, <1>9, <1>10, GrownUpsert DEF IInv
<1>13. Indexed(tx')
  BY <1>3, <1>5, <1>6, <1>7, <1>10, UpsertIndex
<1>14. TypeOK'
  BY <1>8, <1>10, <1>11 DEF IInv, TypeOK, Locals, NoWork, Maybe
<1>15. Control' /\ Record'
  BY <1>1, <1>10, NoneIsNoId DEF IInv, Control, Record
<1>16. Scans'
  <2>1. tx'.scans = tx.scans
    BY <1>10 DEF Upsert
  <2> QED
    BY <1>10, <2>1 DEF IInv, Scans
<1>17. Index'
  BY <1>10, <1>13 DEF IInv, Index, Indexed, NoAliasConflict
<1> QED
  BY <1>5, <1>10, <1>11, <1>12, <1>14, <1>15, <1>16, <1>17 DEF IInv

LEMMA CommitStep ==
    ASSUME IInv, NEW s \in ScanId, Commit(s)
    PROVE  IInv'
<1>1. /\ holder = s /\ stage = "match" /\ db' = tx /\ tx' = tx /\ holder' = None
      /\ calls' = [calls EXCEPT ![s] = "committed"] /\ pos' = 1
      /\ UNCHANGED <<batch, stamp, stage, cur>>
  BY DEF Commit
<1>2. tx \in Tables /\ Whole(tx) /\ Indexed(tx)
  BY <1>1 DEF IInv, TypeOK, Index
<1>3. TypeOK'
  BY <1>1 DEF IInv, TypeOK, Phase, Maybe
<1>4. \A r \in ScanId : calls'[r] = IF r = s THEN "committed" ELSE calls[r]
  BY <1>1 DEF IInv, TypeOK
<1>5. \A r \in ScanId : calls[r] = "saving" <=> r = s
  BY <1>1 DEF IInv, Control
<1>6. Control' /\ Record'
  BY <1>1, <1>4, <1>5, NoneIsNoId DEF Control, Record
<1>7. Scans'
  BY <1>1, <1>4, <1>5 DEF IInv, Scans
<1>8. Index'
  BY <1>1, <1>2, <1>4 DEF IInv, Index, Indexed, NoAliasConflict
<1>9. GrownFrom(db, tx)' /\ Whole(db)' /\ Whole(tx)'
  BY <1>1, <1>2, GrownReflexive
<1> QED
  BY <1>3, <1>6, <1>7, <1>8, <1>9 DEF IInv

LEMMA SaveAnalysisStep ==
    ASSUME IInv, NEW a \in AnalysisId, NEW p \in PaperId, SaveAnalysis(a, p)
    PROVE  IInv'
<1>1. /\ holder = None /\ db.papers[p] # None /\ db' = InsertAnalysis(db, a, p) /\ tx' = db'
      /\ UNCHANGED <<holder, calls, batch, stamp, pos, stage, cur>>
  BY DEF SaveAnalysis
<1>2. db' \in Tables /\ Whole(db')
  BY <1>1, InsertAnalysisType, InsertAnalysisWhole DEF IInv, TypeOK
<1>3. TypeOK'
  BY <1>1, <1>2 DEF IInv, TypeOK
<1>4. stage = "match" /\ tx = db
  BY <1>1 DEF IInv, Control
<1>5. Control' /\ Record'
  BY <1>1, <1>4 DEF IInv, Control, Record
<1>6. Scans'
  BY <1>1, <1>4 DEF IInv, Scans, InsertAnalysis
<1>7. Index'
  BY <1>1, <1>4 DEF IInv, Index, Indexed, NoAliasConflict, InsertAnalysis
<1>8. GrownFrom(db', db')
  BY <1>2, GrownReflexive
<1> QED
  BY <1>1, <1>2, <1>3, <1>5, <1>6, <1>7, <1>8 DEF IInv

LEMMA StoreStutters ==
    ASSUME IInv, UNCHANGED vars
    PROVE  IInv'
BY DEF IInv, TypeOK, Control, Record, Raw, Scans, Index, DoiAtHand, NoAliasConflict, vars

LEMMA NextStep == IInv /\ [Next]_vars => IInv'
<1> SUFFICES ASSUME IInv, [Next]_vars PROVE IInv'
  OBVIOUS
<1>1. ASSUME NEW s \in ScanId, Search(s) PROVE IInv'
  <2>1. CASE Call(s)
    BY <2>1, CallStep, StoreAssumption DEF Call
  <2>2. CASE Begin(s)
    BY <2>2, BeginStep
  <2>3. CASE BusyTimeout(s)
    BY <2>3, BusyTimeoutStep
  <2>4. CASE Match(s)
    BY <2>4, MatchStep
  <2>5. CASE MergeDuplicate(s)
    BY <2>5, MergeDuplicateStep
  <2>6. CASE SkipDuplicate(s)
    BY <2>6, SkipDuplicateStep
  <2>7. CASE Store(s)
    BY <2>7, StoreStep
  <2>8. CASE Commit(s)
    BY <2>8, CommitStep
  <2>9. CASE Abort(s)
    BY <2>9, AbortStep
  <2> QED
    BY <1>1, <2>1, <2>2, <2>3, <2>4, <2>5, <2>6, <2>7, <2>8, <2>9 DEF Search, Work
<1>2. CASE Crash
  BY <1>2, CrashStep DEF Crash
<1>3. ASSUME NEW a \in AnalysisId, NEW p \in PaperId, SaveAnalysis(a, p) PROVE IInv'
  BY <1>3, SaveAnalysisStep
<1>4. CASE UNCHANGED vars
  BY <1>4, StoreStutters
<1> QED
  BY <1>1, <1>2, <1>3, <1>4 DEF Next

\* The inductive invariant holds in every behaviour.
THEOREM Inductive == Spec => []IInv
BY InitIInv, NextStep, PTL DEF Spec

-----------------------------------------------------------------------------
(* What must hold.                                                          *)

LEMMA StoreKeepsPromises ==
    IInv => /\ NoDanglingReference /\ RedirectsFlat /\ AliasIndex /\ NoAliasConflict
            /\ FailedCallLeavesNothing
<1> SUFFICES ASSUME IInv
             PROVE  /\ NoDanglingReference /\ RedirectsFlat /\ AliasIndex /\ NoAliasConflict
                    /\ FailedCallLeavesNothing
  OBVIOUS
<1>1. NoDanglingReference
  BY DEF IInv, Whole, NoDanglingReference
<1>2. RedirectsFlat
  BY DEF IInv, Whole, ForeignKeys, RedirectsFlat
<1>3. AliasIndex /\ NoAliasConflict
  BY DEF IInv, Index, AliasIndex
<1>4. FailedCallLeavesNothing
  <2>1. db.scans \subseteq ScanId
    BY DEF IInv, TypeOK, Tables
  <2> QED
    BY <2>1 DEF IInv, Scans, Whole, ForeignKeys, FailedCallLeavesNothing
<1> QED
  BY <1>1, <1>2, <1>3, <1>4

\* The tables and the locals of save() keep their types: in particular a stored
\* paper only ever holds identifiers in normal form.
THEOREM TypeCorrect == Spec => []TypeOK
<1>1. IInv => TypeOK
  BY DEF IInv
<1> QED
  BY <1>1, Inductive, PTL

\* No foreign key is ever left without its row, whatever is merged into what,
\* inside the open transaction and in the committed tables.
THEOREM ReferencesWhole == Spec => []NoDanglingReference
BY StoreKeepsPromises, Inductive, PTL

\* Redirects never form chains: one hop of get_paper always reaches a live paper.
THEOREM OneHopIsEnough == Spec => []RedirectsFlat
BY StoreKeepsPromises, Inductive, PTL

\* paper_aliases and the payloads agree, so that an identifier belongs to one
\* paper, and every paper is found under each of its identifiers.
THEOREM IndexExact == Spec => []AliasIndex
BY StoreKeepsPromises, Inductive, PTL

\* save() never raises "identity alias conflict".
THEOREM ConflictUnreachable == Spec => []NoAliasConflict
BY StoreKeepsPromises, Inductive, PTL

\* The recorded scans are exactly those of the calls that committed: a rolled
\* back, timed out or crashed call leaves no scan and no link.
THEOREM Atomic == Spec => []FailedCallLeavesNothing
BY StoreKeepsPromises, Inductive, PTL

-----------------------------------------------------------------------------
(* The store implements the catalogue.                                      *)

LEMMA CommitRefines ==
    ASSUME IInv, IInv', NEW s \in ScanId, Commit(s)
    PROVE  Catalog!RecordScan(s)
<1>1. holder = s /\ db' = tx
  BY DEF Commit
<1>2. db \in Tables /\ tx \in Tables /\ Whole(tx) /\ Whole(db) /\ GrownFrom(db, tx)
  BY DEF IInv, TypeOK
<1>3. \A r \in ScanId : r \in tx.scans <=> r \in db.scans \/ r = s
  BY <1>1 DEF IInv, Control, Scans
<1>4. s \notin db.scans /\ tx.scans = db.scans \cup {s}
  <2>1. s \notin db.scans
    BY <1>1 DEF IInv, Control, Scans
  <2> QED
    BY <1>2, <1>3, <2>1 DEF Tables
<1>5. \A p \in PaperId : Resolve(db, p) \in Maybe(PaperId) /\ Resolve(tx, p) \in Maybe(PaperId)
  BY <1>2, ResolveType
<1>6. \A p \in PaperId : Resolve(tx, p) # None => Resolve(tx, Resolve(tx, p)) = Resolve(tx, p)
  BY <1>2, <1>5, ResolveType, ResolveLive DEF Maybe
<1>7. \A p \in PaperId : Resolve(db, p) # None =>
         Resolve(tx, p) # None /\ Resolve(tx, p) = Resolve(tx, Resolve(db, p))
  BY <1>2 DEF GrownFrom, Became
<1>8. \A k \in Key : db.alias[k] # None =>
         db.alias[k] \in PaperId /\ tx.alias[k] # None /\ tx.alias[k] = Resolve(tx, db.alias[k])
  BY <1>2 DEF GrownFrom, Became, Tables, Maybe
<1>9. \A k \in Key : tx.alias[k] # None =>
         tx.alias[k] \in PaperId /\ Resolve(tx, tx.alias[k]) = tx.alias[k]
  BY <1>2, ResolveLive DEF Whole, ForeignKeys, Tables, Maybe
<1>10. \A r \in db.scans : Shown(tx, r) = {Resolve(tx, p) : p \in Shown(db, r)}
  BY <1>2 DEF GrownFrom
<1>11. \A p \in Shown(tx, s) : p \in PaperId /\ Resolve(tx, p) = p
  BY <1>2, ResolveLive DEF Shown, Whole, ForeignKeys
<1>12. \A r \in ScanId \ tx.scans : Shown(tx, r) = {}
  BY <1>2 DEF Shown, Whole, ForeignKeys
<1>13. \A a \in AnalysisId :
          IF db.analyses[a] = None THEN tx.analyses[a] = None
          ELSE /\ db.analyses[a] \in PaperId /\ tx.analyses[a] # None
               /\ tx.analyses[a] = Resolve(tx, db.analyses[a])
  BY <1>2 DEF GrownFrom, Became, Tables, Maybe
<1> DEFINE resolve == [p \in PaperId |-> Resolve(db, p)]
           shown == [r \in ScanId |-> {p \in PaperId : db.links[r][p] # None}]
<1>14. \A p \in PaperId : resolve[p] = Resolve(db, p) /\ resolve'[p] = Resolve(tx, p)
  BY <1>1 DEF Resolve
<1>15. \A r \in ScanId : shown[r] = Shown(db, r) /\ shown'[r] = Shown(tx, r)
  BY <1>1 DEF Shown
<1>16. \A r : Shown(db, r) \subseteq PaperId
  BY DEF Shown
<1> HIDE DEF resolve, shown
<1>17. \A p \in PaperId : resolve'[p] # None => resolve'[resolve'[p]] = resolve'[p]
  BY <1>5, <1>6, <1>14 DEF Maybe
<1>18. \A p \in PaperId : resolve[p] # None =>
          resolve'[p] # None /\ resolve'[p] = resolve'[resolve[p]]
  BY <1>5, <1>7, <1>14 DEF Maybe
<1>19. \A k \in Key : db.alias[k] # None =>
          tx.alias[k] # None /\ tx.alias[k] = resolve'[db.alias[k]]
  BY <1>8, <1>14
<1>20. \A k \in Key : tx.alias[k] # None => resolve'[tx.alias[k]] = tx.alias[k]
  BY <1>9, <1>14
<1>21. \A r \in db.scans : shown'[r] = {resolve'[p] : p \in shown[r]}
  <2>1. \A r \in db.scans : r \in ScanId
    BY <1>2 DEF Tables
  <2> QED
    BY <1>10, <1>14, <1>15, <1>16, <2>1
<1>22. \A p \in shown'[s] : resolve'[p] = p
  BY <1>11, <1>14, <1>15
<1>23. \A r \in ScanId \ tx.scans : shown'[r] = {}
  BY <1>12, <1>15
<1>24. \A a \in AnalysisId :
          /\ db.analyses[a] # None =>
                tx.analyses[a] # None /\ tx.analyses[a] = resolve'[db.analyses[a]]
          /\ db.analyses[a] = None => tx.analyses[a] = None
  BY <1>13, <1>14
<1>25. Catalog!Representatives'
  BY <1>17 DEF Catalog!Representatives, resolve
<1>26. /\ \A p \in PaperId : Catalog!Follows(resolve'[p], resolve[p])
       /\ \A k \in Key : Catalog!Follows(db'.alias[k], db.alias[k])
       /\ \A a \in AnalysisId : Catalog!Follows(db'.analyses[a], db.analyses[a])
  BY <1>1, <1>18, <1>19, <1>24 DEF Catalog!Follows, resolve
<1>27. /\ db.scans' = tx.scans /\ db'.alias = tx.alias /\ db'.analyses = tx.analyses
  BY <1>1
<1> QED
  BY <1>4, <1>20, <1>21, <1>22, <1>23, <1>24, <1>25, <1>26, <1>27
     DEF Catalog!RecordScan, resolve, shown

LEMMA SaveAnalysisRefines ==
    ASSUME IInv, NEW a \in AnalysisId, NEW p \in PaperId, SaveAnalysis(a, p)
    PROVE  Catalog!RecordAnalysis(a)
<1>1. db.analyses[a] = None /\ db.papers[p] # None /\ db' = InsertAnalysis(db, a, p)
  BY DEF SaveAnalysis
<1>2. Resolve(db, p) = p
  BY <1>1, ResolveLive DEF IInv, TypeOK
<1>3. /\ db'.papers = db.papers /\ db'.redirect = db.redirect /\ db'.alias = db.alias
      /\ db'.links = db.links /\ db'.scans = db.scans
      /\ db'.analyses = [db.analyses EXCEPT ![a] = p]
  BY <1>1 DEF InsertAnalysis
<1>4. [q \in PaperId |-> Resolve(db', q)] = [q \in PaperId |-> Resolve(db, q)]
  BY <1>3 DEF Resolve
<1> QED
  BY <1>1, <1>2, <1>3, <1>4 DEF Catalog!RecordAnalysis

\* Implementation of PaperCatalog: every committed scan and every stored analysis
\* is a step of the catalogue, every other step changes nothing that is promised.
THEOREM Implements == Spec => KeepsCatalog
<1>1. Init => Catalog!Init
  BY NoneIsNoId DEF Init, EmptyTables, Resolve, Catalog!Init
<1>2. IInv /\ IInv' /\ [Next]_vars => [Catalog!Next]_(Catalog!catalog)
  <2> SUFFICES ASSUME IInv, IInv', [Next]_vars
               PROVE  Catalog!Next \/ UNCHANGED Catalog!catalog
    OBVIOUS
  <2>1. CASE db' = db
    BY <2>1 DEF Catalog!catalog
  <2>2. ASSUME NEW s \in ScanId, Search(s)
        PROVE  Catalog!Next \/ db' = db
    <3>1. CASE Commit(s)
      BY <3>1, CommitRefines DEF Catalog!Next
    <3>2. CASE ~Commit(s)
      BY <2>2, <3>2 DEF Search, Work, Call, CallWith, Begin, BusyTimeout, Match, MergeDuplicate,
                        SkipDuplicate, Store, Release, Write, Abort
    <3> QED
      BY <3>1, <3>2
  <2>3. CASE Crash
    BY <2>1, <2>3 DEF Crash, Die
  <2>4. ASSUME NEW a \in AnalysisId, NEW p \in PaperId, SaveAnalysis(a, p)
        PROVE  Catalog!Next
    BY <2>4, SaveAnalysisRefines DEF Catalog!Next
  <2>5. CASE UNCHANGED vars
    BY <2>1, <2>5 DEF vars
  <2> QED
    BY <2>1, <2>2, <2>3, <2>4, <2>5 DEF Next
<1> QED
  BY <1>1, <1>2, Inductive, PTL DEF Spec, KeepsCatalog, Catalog!Spec

-----------------------------------------------------------------------------
(* The order of a scan.                                                     *)

RankedByScore(b) ==
    \A m, n \in 1..Len(b) : m <= n => b[m].score >= b[n].score

\* The links of one scan are in the order of its batch.
InOrder(row, b) ==
    \A p, q \in PaperId : p # q /\ row[p] # None /\ row[q] # None =>
        /\ row[p].pos # row[q].pos
        /\ RankedByScore(b) /\ row[p].pos < row[q].pos => row[p].score >= row[q].score

\* They come before the records from n on.
Ahead(row, b, n) ==
    \A p \in PaperId : row[p] # None =>
        /\ row[p].pos < n
        /\ RankedByScore(b) => \A m \in n..Len(b) : row[p].score >= b[m].score

OrderInv ==
    /\ \A s \in db.scans : InOrder(db.links[s], batch[s])
    /\ \A s \in tx.scans : InOrder(tx.links[s], batch[s])
    /\ holder # None => Ahead(tx.links[holder], batch[holder], pos)

\* Two links of one scan become one of the two, the scores included if the scan
\* is a ranking by score (_reparent: min position, max score).
LEMMA JoinIsOneOfThem ==
    ASSUME NEW row \in [PaperId -> Maybe(Link)], NEW b, InOrder(row, b),
           NEW p \in PaperId, NEW q \in PaperId, p # q, Join(row[p], row[q]) # None
    PROVE  \E x \in {p, q} :
              /\ row[x] # None
              /\ Join(row[p], row[q]).pos = row[x].pos
              /\ RankedByScore(b) => Join(row[p], row[q]).score = row[x].score
<1>1. CASE row[p] = None \/ row[q] = None
  BY <1>1 DEF Join
<1>2. CASE row[p] # None /\ row[q] # None
  <2>1. row[p] \in Link /\ row[q] \in Link
    BY <1>2 DEF Maybe
  <2>2. /\ row[p].pos \in Nat /\ row[q].pos \in Nat
        /\ row[p].score \in Nat /\ row[q].score \in Nat
    BY <2>1 DEF Link
  <2>3. /\ row[p].pos # row[q].pos
        /\ RankedByScore(b) /\ row[p].pos < row[q].pos => row[p].score >= row[q].score
        /\ RankedByScore(b) /\ row[q].pos < row[p].pos => row[q].score >= row[p].score
    BY <1>2 DEF InOrder
  <2>4. Join(row[p], row[q]) = [pos |-> Lower(row[p].pos, row[q].pos),
                                score |-> Higher(row[p].score, row[q].score)]
    BY <1>2 DEF Join
  <2>5. CASE row[p].pos < row[q].pos
    <3>1. Lower(row[p].pos, row[q].pos) = row[p].pos
      BY <2>5 DEF Lower
    <3>2. RankedByScore(b) => Higher(row[p].score, row[q].score) = row[p].score
      BY <2>2, <2>3, <2>5 DEF Higher
    <3> QED
      BY <1>2, <2>4, <3>1, <3>2
  <2>6. CASE row[q].pos < row[p].pos
    <3>1. Lower(row[p].pos, row[q].pos) = row[q].pos
      BY <2>2, <2>6 DEF Lower
    <3>2. RankedByScore(b) => Higher(row[p].score, row[q].score) = row[q].score
      BY <2>2, <2>3, <2>6 DEF Higher
    <3> QED
      BY <1>2, <2>4, <3>1, <3>2
  <2> QED
    BY <2>2, <2>3, <2>5, <2>6
<1> QED
  BY <1>1, <1>2

\* Absorbing a duplicate leaves every scan in order, and in its bounds.
LEMMA ReparentOrder ==
    ASSUME NEW t \in Tables, NEW id \in PaperId, NEW q \in PaperId, q # id,
           NEW s \in ScanId, NEW b, InOrder(t.links[s], b)
    PROVE  /\ InOrder(Reparent(t, q, id).links[s], b)
           /\ \A n \in Nat : Ahead(t.links[s], b, n)
                                => Ahead(Reparent(t, q, id).links[s], b, n)
<1> DEFINE row == t.links[s]
           after == Reparent(t, q, id).links[s]
<1>1. row \in [PaperId -> Maybe(Link)]
  BY DEF Tables
<1>2. \A p \in PaperId : after[p] = IF p = q THEN None
                                    ELSE IF p = id THEN Join(row[id], row[q]) ELSE row[p]
  BY DEF Reparent
<1> HIDE DEF row, after
<1>3. ASSUME NEW p \in PaperId, after[p] # None
      PROVE  \E x \in PaperId :
                /\ (x = p /\ p # q) \/ (p = id /\ x = q)
                /\ row[x] # None
                /\ after[p].pos = row[x].pos
                /\ RankedByScore(b) => after[p].score = row[x].score
  <2>1. CASE p = id
    <3>1. after[p] = Join(row[id], row[q])
      BY <1>2, <2>1
    <3>2. InOrder(row, b)
      BY DEF row
    <3>3. PICK x \in {id, q} :
              /\ row[x] # None
              /\ Join(row[id], row[q]).pos = row[x].pos
              /\ RankedByScore(b) => Join(row[id], row[q]).score = row[x].score
      BY <1>1, <1>3, <3>1, <3>2, JoinIsOneOfThem
    <3> QED
      BY <2>1, <3>1, <3>3
  <2>2. CASE p # id
    BY <1>2, <1>3, <2>2
  <2> QED
    BY <2>1, <2>2
<1>4. InOrder(after, b)
  <2> SUFFICES ASSUME NEW p \in PaperId, NEW r \in PaperId,
                      p # r, after[p] # None, after[r] # None
               PROVE  /\ after[p].pos # after[r].pos
                      /\ RankedByScore(b) /\ after[p].pos < after[r].pos
                            => after[p].score >= after[r].score
    BY DEF InOrder
  <2>1. PICK x \in PaperId : /\ (x = p /\ p # q) \/ (p = id /\ x = q)
                             /\ row[x] # None
                             /\ after[p].pos = row[x].pos
                             /\ RankedByScore(b) => after[p].score = row[x].score
    BY <1>3
  <2>2. PICK y \in PaperId : /\ (y = r /\ r # q) \/ (r = id /\ y = q)
                             /\ row[y] # None
                             /\ after[r].pos = row[y].pos
                             /\ RankedByScore(b) => after[r].score = row[y].score
    BY <1>3
  <2>3. x # y
    BY <2>1, <2>2
  <2>4. /\ row[x].pos # row[y].pos
        /\ RankedByScore(b) /\ row[x].pos < row[y].pos => row[x].score >= row[y].score
    BY <2>1, <2>2, <2>3 DEF InOrder, row
  <2> QED
    BY <2>1, <2>2, <2>4
<1>5. ASSUME NEW n \in Nat, Ahead(row, b, n)
      PROVE  Ahead(after, b, n)
  <2> SUFFICES ASSUME NEW p \in PaperId, after[p] # None
               PROVE  /\ after[p].pos < n
                      /\ RankedByScore(b) => \A m \in n..Len(b) : after[p].score >= b[m].score
    BY DEF Ahead
  <2>1. PICK x \in PaperId : /\ row[x] # None
                             /\ after[p].pos = row[x].pos
                             /\ RankedByScore(b) => after[p].score = row[x].score
    BY <1>3
  <2> QED
    BY <1>5, <2>1 DEF Ahead
<1> QED
  BY <1>4, <1>5 DEF row, after

\* Writing record n puts its paper behind the others, unless it has a link.
LEMMA UpsertOrder ==
    ASSUME NEW t \in Tables, NEW id \in PaperId, NEW paper, NEW now, NEW s \in ScanId,
           NEW b \in Seq(Scored),
           NEW n \in 1..Len(b), InOrder(t.links[s], b), Ahead(t.links[s], b, n)
    PROVE  LET link == [pos |-> n, score |-> b[n].score]
               after == Upsert(t, id, paper, now, s, link).links[s]
           IN  InOrder(after, b) /\ Ahead(after, b, n + 1)
<1> DEFINE row == t.links[s]
           link == [pos |-> n, score |-> b[n].score]
           after == Upsert(t, id, paper, now, s, link).links[s]
<1>1. row \in [PaperId -> Maybe(Link)]
  BY DEF Tables
<1>2. \A p \in PaperId : after[p] = IF p = id THEN Join(row[id], link) ELSE row[p]
  BY DEF Upsert, Tables
<1>3. n \in Nat /\ \A m \in 1..Len(b) : b[m].score \in Nat
  <2>1. \A m \in 1..Len(b) : b[m] \in Scored
    OBVIOUS
  <2> QED
    BY <2>1 DEF Scored
<1>4. link \in Link /\ link # None /\ link.pos = n /\ link.score = b[n].score
  BY <1>3, NoneIsNoId DEF Link
<1> HIDE DEF row, link, after
<1>5. \A p \in PaperId : row[p] # None =>
         /\ row[p].pos \in Nat /\ row[p].score \in Nat
         /\ row[p].pos < n
         /\ RankedByScore(b) => \A m \in n..Len(b) : row[p].score >= b[m].score
  BY <1>1 DEF Ahead, row, Link, Maybe
<1>6. row[id] # None =>
         /\ after[id] # None
         /\ after[id].pos = row[id].pos
         /\ RankedByScore(b) => after[id].score = row[id].score
  <2> HAVE row[id] # None
  <2>1. Join(row[id], link) = [pos |-> Lower(row[id].pos, n),
                               score |-> Higher(row[id].score, b[n].score)]
    BY <1>4 DEF Join
  <2>2. Lower(row[id].pos, n) = row[id].pos
    BY <1>3, <1>5 DEF Lower
  <2>3. RankedByScore(b) => Higher(row[id].score, b[n].score) = row[id].score
    BY <1>3, <1>5 DEF Higher
  <2>4. Join(row[id], link) # None
    BY <1>1, <1>4, JoinType DEF Maybe
  <2> QED
    BY <1>2, <2>1, <2>2, <2>3, <2>4
<1>7. row[id] = None => after[id] = link
  BY <1>2 DEF Join
<1>8. RankedByScore(b) => \A m \in n..Len(b) : b[n].score >= b[m].score
  BY DEF RankedByScore
<1>9. InOrder(after, b)
  <2> SUFFICES ASSUME NEW p \in PaperId, NEW q \in PaperId,
                      p # q, after[p] # None, after[q] # None
               PROVE  /\ after[p].pos # after[q].pos
                      /\ RankedByScore(b) /\ after[p].pos < after[q].pos
                            => after[p].score >= after[q].score
    BY DEF InOrder
  <2>1. row[p] # None /\ row[q] # None =>
           /\ row[p].pos # row[q].pos
           /\ RankedByScore(b) /\ row[p].pos < row[q].pos => row[p].score >= row[q].score
    BY DEF InOrder, row
  <2>2. CASE row[id] = None
    <3>1. CASE p = id
      BY <1>2, <1>4, <1>5, <1>7, <2>2, <3>1
    <3>2. CASE q = id
      BY <1>2, <1>4, <1>5, <1>7, <1>3, <2>2, <3>2
    <3>3. CASE p # id /\ q # id
      BY <1>2, <2>1, <3>3
    <3> QED
      BY <3>1, <3>2, <3>3
  <2>3. CASE row[id] # None
    <3>1. \A x \in {p, q} : /\ row[x] # None
                            /\ after[x].pos = row[x].pos
                            /\ RankedByScore(b) => after[x].score = row[x].score
      BY <1>2, <1>6, <2>3
    <3> QED
      BY <2>1, <3>1
  <2> QED
    BY <2>2, <2>3
<1>10. Ahead(after, b, n + 1)
  <2> SUFFICES ASSUME NEW p \in PaperId, after[p] # None
               PROVE  /\ after[p].pos < n + 1
                      /\ RankedByScore(b) =>
                            \A m \in (n + 1)..Len(b) : after[p].score >= b[m].score
    BY DEF Ahead
  <2>1. CASE p = id /\ row[id] = None
    BY <1>3, <1>4, <1>7, <1>8, <2>1
  <2>2. CASE ~(p = id /\ row[id] = None)
    <3>1. /\ row[p] # None
          /\ after[p].pos = row[p].pos
          /\ RankedByScore(b) => after[p].score = row[p].score
      BY <1>2, <1>6, <2>2
    <3>2. \A m \in (n + 1)..Len(b) : m \in n..Len(b)
      BY <1>3
    <3> QED
      BY <1>3, <1>5, <3>1, <3>2
  <2> QED
    BY <2>1, <2>2
<1> QED
  BY <1>9, <1>10 DEF after, link

-----------------------------------------------------------------------------
(* The steps, as far as the order is concerned.                             *)

\* A batch is fixed when its call is made; the calls of begun scans have been.
LEMMA BegunBatchesFixed ==
    ASSUME IInv, \A s \in ScanId : calls[s] # "unused" => batch'[s] = batch[s]
    PROVE  /\ \A s \in db.scans \cup tx.scans : s \in ScanId /\ batch'[s] = batch[s]
           /\ holder # None => holder \in ScanId /\ batch'[holder] = batch[holder]
<1>1. \A s \in db.scans \cup tx.scans : s \in ScanId
  BY DEF IInv, TypeOK, Tables
<1>2. \A s \in db.scans \cup tx.scans : calls[s] # "unused"
  BY <1>1 DEF IInv, Scans
<1>3. holder # None => holder \in ScanId /\ calls[holder] # "unused"
  BY DEF IInv, TypeOK, Control, Maybe
<1> QED
  BY <1>1, <1>2, <1>3

\* Steps that leave the links alone: Call, BusyTimeout, Match, SkipDuplicate,
\* SaveAnalysis.
LEMMA QuietOrder ==
    ASSUME IInv, OrderInv, \A s \in ScanId : calls[s] # "unused" => batch'[s] = batch[s],
           db'.scans = db.scans, db'.links = db.links,
           tx'.scans = tx.scans, tx'.links = tx.links, holder' = holder, pos' = pos
    PROVE  OrderInv'
BY BegunBatchesFixed DEF OrderInv

\* Nobody holds the lock, and the tables are as committed.
LEMMA ReleaseOrder ==
    ASSUME OrderInv, UNCHANGED <<db, batch>>, tx' = db, holder' = None
    PROVE  OrderInv'
BY DEF OrderInv

LEMMA BeginOrder ==
    ASSUME IInv, OrderInv, NEW s \in ScanId, Begin(s)
    PROVE  OrderInv'
<1>1. /\ calls[s] = "waiting" /\ holder' = s /\ tx' = InsertScan(db, s) /\ pos' = 1
      /\ UNCHANGED <<db, batch>>
  BY DEF Begin
<1>2. tx'.scans = db.scans \cup {s} /\ tx'.links = db.links
  BY <1>1 DEF InsertScan
<1>3. \A p \in PaperId : db.links[s][p] = None
  BY <1>1 DEF IInv, Scans, Whole, ForeignKeys
<1>4. InOrder(db.links[s], batch[s]) /\ Ahead(db.links[s], batch[s], 1)
  BY <1>3 DEF InOrder, Ahead
<1> QED
  BY <1>1, <1>2, <1>4 DEF OrderInv

LEMMA MergeDuplicateOrder ==
    ASSUME IInv, OrderInv, NEW s \in ScanId, MergeDuplicate(s)
    PROVE  OrderInv'
<1>1. holder = s /\ stage = "merge" /\ UNCHANGED <<db, holder, batch, pos>>
  BY DEF MergeDuplicate
<1>2. PICK q \in cur.pending :
         IsFirst(tx, Raw(s), cur.pending, q) /\ tx' = Reparent(tx, q, cur.id)
  BY DEF MergeDuplicate
<1>3. cur.id \in PaperId /\ q \in PaperId /\ q # cur.id
  BY <1>1, <1>2, Duplicate
<1>4. tx \in Tables /\ pos \in Nat /\ tx'.scans = tx.scans
  BY <1>2 DEF IInv, TypeOK, Reparent
<1>5. \A r \in tx.scans : r \in ScanId
  BY <1>4 DEF Tables
<1>6. \A r \in tx.scans : InOrder(tx'.links[r], batch[r])
  BY <1>2, <1>3, <1>4, <1>5, ReparentOrder DEF OrderInv
<1>7. Ahead(tx'.links[s], batch[s], pos)
  <2>1. s \in tx.scans
    BY <1>1 DEF IInv, Control, Scans
  <2>2. InOrder(tx.links[s], batch[s]) /\ Ahead(tx.links[s], batch[s], pos)
    BY <1>1, <2>1, NoneIsNoId DEF OrderInv
  <2> QED
    BY <1>2, <1>3, <1>4, <2>2, ReparentOrder
<1> QED
  BY <1>1, <1>4, <1>6, <1>7 DEF OrderInv

\* Store writes the record: the ValueError cannot happen.
LEMMA StoreWrites ==
    ASSUME IInv, NEW s \in ScanId, Store(s)
    PROVE  \E id \in PaperId :
              /\ Target(id) /\ ~Conflicts(tx, id, Stored(s, id)) /\ Stored(s, id) \in Paper
              /\ Write(s, id)
<1>1. holder = s /\ stage = "merge" /\ cur.pending = {}
  BY DEF Store
<1>2. PICK id \in PaperId :
         /\ Target(id)
         /\ IF Conflicts(tx, id, Stored(s, id)) THEN Release(s, "conflict") ELSE Write(s, id)
  BY DEF Store
<1> DEFINE merged == IF cur.id = None THEN cur.paper ELSE Enrich(cur.paper, Prepare(Raw(s)))
<1>3. merged \in Paper /\ (merged.doi # None => tx.alias[<<"doi", merged.doi>>] \in {None, id})
  BY <1>1, <1>2, Merged
<1>4. Stored(s, id) = DropForeign(tx, id, merged)
  BY DEF Stored
<1>5. tx \in Tables
  BY DEF IInv, TypeOK
<1> HIDE DEF merged
<1>6. ~Conflicts(tx, id, Stored(s, id)) /\ Stored(s, id) \in Paper
  BY <1>3, <1>4, <1>5, NoConflict, DropForeignType
<1> QED
  BY <1>2, <1>6

\* The batch of the holder, while it has a record at hand.
LEMMA BatchAtHand ==
    ASSUME IInv, NEW s \in ScanId, holder = s, stage = "merge"
    PROVE  batch[s] \in Seq(Scored) /\ pos \in 1..Len(batch[s])
BY DEF IInv, TypeOK, Control

LEMMA StoreOrder ==
    ASSUME IInv, OrderInv, NEW s \in ScanId, Store(s)
    PROVE  OrderInv'
<1>1. holder = s /\ stage = "merge"
  BY DEF Store
<1>2. PICK id \in PaperId : Write(s, id)
  BY StoreWrites
<1> DEFINE link == [pos |-> pos, score |-> Score(s)]
<1>3. /\ tx' = Upsert(tx, id, Stored(s, id), stamp[s], s, link)
      /\ pos' = pos + 1 /\ UNCHANGED <<db, holder, batch>>
  BY <1>2 DEF Write
<1>4. tx \in Tables /\ s \in tx.scans
  BY <1>1 DEF IInv, TypeOK, Control, Scans
<1>5. tx'.scans = tx.scans
  BY <1>3 DEF Upsert
<1>6. \A r \in tx.scans : r # s => tx'.links[r] = tx.links[r]
  BY <1>3, <1>4 DEF Upsert, Tables
<1>7. InOrder(tx.links[s], batch[s]) /\ Ahead(tx.links[s], batch[s], pos)
  BY <1>1, <1>4, NoneIsNoId DEF OrderInv
<1>8. InOrder(tx'.links[s], batch[s]) /\ Ahead(tx'.links[s], batch[s], pos + 1)
  <2>1. batch[s] \in Seq(Scored) /\ pos \in 1..Len(batch[s])
    BY <1>1, BatchAtHand
  <2>2. link = [pos |-> pos, score |-> batch[s][pos].score]
    BY DEF Score
  <2> HIDE DEF link
  <2> QED
    BY <1>3, <1>4, <1>7, <2>1, <2>2, UpsertOrder
<1> QED
  BY <1>1, <1>3, <1>5, <1>6, <1>8 DEF OrderInv

LEMMA NextOrder == IInv /\ OrderInv /\ [Next]_vars => OrderInv'
<1> SUFFICES ASSUME IInv, OrderInv, [Next]_vars PROVE OrderInv'
  OBVIOUS
<1>1. ASSUME NEW s \in ScanId, Search(s) PROVE OrderInv'
  <2>1. CASE Call(s)
    <3>1. \A r \in ScanId : calls[r] # "unused" => batch'[r] = batch[r]
      BY <2>1 DEF Call, CallWith, IInv, TypeOK
    <3> QED
      BY <2>1, <3>1, QuietOrder DEF Call, CallWith
  <2>2. CASE Begin(s)
    BY <2>2, BeginOrder
  <2>3. CASE BusyTimeout(s)
    BY <2>3, QuietOrder DEF BusyTimeout
  <2>4. CASE Match(s)
    BY <2>4, QuietOrder DEF Match
  <2>5. CASE MergeDuplicate(s)
    BY <2>5, MergeDuplicateOrder
  <2>6. CASE SkipDuplicate(s)
    BY <2>6, QuietOrder DEF SkipDuplicate
  <2>7. CASE Store(s)
    BY <2>7, StoreOrder
  <2>8. CASE Commit(s)
    BY <2>8 DEF Commit, OrderInv
  <2>9. CASE Abort(s)
    BY <2>9, ReleaseOrder DEF Abort, Release
  <2> QED
    BY <1>1, <2>1, <2>2, <2>3, <2>4, <2>5, <2>6, <2>7, <2>8, <2>9 DEF Search, Work
<1>2. CASE Crash
  BY <1>2, ReleaseOrder DEF Crash, Die
<1>3. ASSUME NEW a \in AnalysisId, NEW p \in PaperId, SaveAnalysis(a, p) PROVE OrderInv'
  <2>1. tx = db
    BY <1>3 DEF SaveAnalysis, IInv, Control
  <2> QED
    BY <1>3, <2>1, QuietOrder DEF SaveAnalysis, InsertAnalysis
<1>4. CASE UNCHANGED vars
  BY <1>4, QuietOrder DEF vars
<1> QED
  BY <1>1, <1>2, <1>3, <1>4 DEF Next

\* No later merge breaks the order of a stored scan: its papers never share a
\* position, and scores that fell with the position still do (scan_papers, as
\* _reparent and save() join its rows).
THEOREM RankingsStay == Spec => []ScanOrder
<1>1. Init => OrderInv
  BY DEF Init, OrderInv, EmptyTables
<1>2. OrderInv => ScanOrder
  BY DEF OrderInv, InOrder, RankedByScore, ScanOrder
<1>3. IInv /\ OrderInv /\ [Next]_vars => OrderInv'
  BY NextOrder
<1> QED
  BY Inductive, <1>1, <1>2, <1>3, PTL DEF Spec

-----------------------------------------------------------------------------
(* The records of a scan.                                                   *)

\* The key of a record that is looked up first: its paper is where the record goes.
Home(raw) == LookupKeys(raw)[1]

\* The first n records of a batch are found by their first key, and the scan shows
\* what is found, at their place or before.
KeptAt(row, p, m, score) ==
    p # None /\ row[p] # None /\ row[p].pos <= m /\ row[p].score >= score

Keeps(t, s, b, n) ==
    \A m \in 1..n : KeptAt(t.links[s], t.alias[Home(b[m].paper)], m, b[m].score)

\* And the scan shows nothing else: each of its links has its place from a record of
\* this paper, and its score from one.
Earned(t, s, b, n) ==
    \A p \in PaperId : t.links[s][p] # None =>
        /\ \E m \in 1..n : t.alias[Home(b[m].paper)] = p /\ t.links[s][p].pos = m
        /\ \E m \in 1..n : t.alias[Home(b[m].paper)] = p /\ t.links[s][p].score = b[m].score

\* No identifier that counts tells the two apart.
Agrees(paper, incoming) ==
    /\ ~Differ(paper.doi, incoming.doi)
    /\ incoming.doi = None => ~Differ(paper.arxiv, incoming.arxiv)

\* Whoever owns the first key of the record at hand is the canonical paper or will be
\* absorbed, and none of the matches contradicts the record.
HomeAtHand ==
    LET owner == tx.alias[Home(Raw(holder))]
    IN  /\ Agrees(cur.paper, Prepare(Raw(holder)))
        /\ \A q \in cur.pending : Agrees(tx.papers[q], Prepare(Raw(holder)))
        /\ \/ owner \in {None, cur.id}
           \/ owner \in cur.pending /\ Compatible(cur.paper, tx.papers[owner], "provider")

Settled(t, s, b, n) == Keeps(t, s, b, n) /\ Earned(t, s, b, n)

KeptInv ==
    /\ \A s \in db.scans : Settled(db, s, batch[s], Len(batch[s]))
    /\ \A s \in tx.scans : s # holder => Settled(tx, s, batch[s], Len(batch[s]))
    /\ holder # None => pos <= Len(batch[holder]) + 1
                          /\ Settled(tx, holder, batch[holder], pos - 1)
    /\ stage = "merge" => HomeAtHand

LEMMA StrongestType ==
    ASSUME NEW paper \in Paper, Identified(paper)
    PROVE  /\ Strongest(paper) \in Key
           /\ Strongest(paper)[1] # "provider"
           /\ HasKey(paper, Strongest(paper))
BY DEF Identified, Strongest, Paper, Key, HasKey, Maybe

LEMMA EntryType ==
    ASSUME NEW b \in Seq(Scored), NEW m \in 1..Len(b)
    PROVE  b[m].paper \in RawPaper /\ Prepare(b[m].paper) \in Paper /\ b[m].score \in Nat
<1>1. b[m] \in Scored
  OBVIOUS
<1> QED
  BY <1>1, PrepareType DEF Scored

LEMMA BatchType ==
    ASSUME IInv, NEW s \in ScanId
    PROVE  batch[s] \in Seq(Scored)
BY DEF IInv, TypeOK

\* The strongest identifier is looked up first (identity_aliases).
LEMMA StrongestIsFirstKey ==
    ASSUME NEW raw \in RawPaper, Identified(Prepare(raw))
    PROVE  1 \in DOMAIN LookupKeys(raw) /\ LookupKeys(raw)[1] = Strongest(Prepare(raw))
<1>1. CASE Prepare(raw).doi # None
  BY <1>1, DoiIsFirstKey DEF Strongest
<1>2. CASE Prepare(raw).doi = None
  <2> DEFINE arxiv == StrongKey("arxiv", Prepare(raw).arxiv)
             provider == ProviderLookups(raw)
  <2>1. arxiv \in Seq(Key) /\ provider \in Seq(Key)
    BY LookupParts
  <2>2. Len(arxiv) >= 1 /\ arxiv[1] = Strongest(Prepare(raw))
    BY <1>2 DEF StrongKey, Identified, Strongest
  <2>3. StrongKey("doi", Prepare(raw).doi) = << >>
    BY <1>2 DEF StrongKey
  <2> HIDE DEF arxiv, provider
  <2>4. << >> \o arxiv = arxiv
    BY <2>1
  <2>5. LookupKeys(raw) = arxiv \o provider
    BY <2>3, <2>4 DEF LookupKeys, arxiv, provider
  <2>6. /\ arxiv \o provider \in Seq(Key) /\ Len(arxiv \o provider) >= 1
        /\ (arxiv \o provider)[1] = arxiv[1]
    BY <2>1, <2>2, FirstOfConcat
  <2> QED
    BY <2>2, <2>5, <2>6
<1> QED
  BY <1>1, <1>2

\* Only keys of the record itself are looked up.
LEMMA LookupsAreOwn ==
    ASSUME NEW raw \in RawPaper, NEW n \in DOMAIN LookupKeys(raw)
    PROVE  LookupKeys(raw)[n] \in Key /\ HasKey(Prepare(raw), LookupKeys(raw)[n])
<1> DEFINE Own == {k \in Key : HasKey(Prepare(raw), k)}
<1>1. Prepare(raw) \in Paper
  BY PrepareType
<1>2. Prepare(raw).doi # None => <<"doi", Prepare(raw).doi>> \in Own
  BY <1>1 DEF Paper, Key, Maybe, HasKey
<1>3. Prepare(raw).arxiv # None => <<"arxiv", Prepare(raw).arxiv>> \in Own
  BY <1>1 DEF Paper, Key, Maybe, HasKey
<1>4. Len(raw.aliases) + 1 \in Nat
  BY DEF RawPaper
<1>5. \A m \in 1..Len(raw.aliases) + 1 : <<"provider", ProviderKeys(raw)[m]>> \in Own
  <2>1. \A m \in 1..Len(raw.aliases) + 1 : ProviderKeys(raw)[m] \in ProviderKey
    BY NormalFormAssumption DEF RawPaper, ProviderKeys
  <2>2. \A m \in 1..Len(raw.aliases) + 1 : ProviderKeys(raw)[m] \in Prepare(raw).aliases
    BY DEF Prepare
  <2> QED
    BY <2>1, <2>2 DEF Key, HasKey
<1> HIDE DEF Own
<1>6. ProviderLookups(raw) \in Seq(Own)
  BY <1>4, <1>5 DEF ProviderLookups
<1>7. StrongKey("doi", Prepare(raw).doi) \in Seq(Own)
  BY <1>2 DEF StrongKey
<1>8. StrongKey("arxiv", Prepare(raw).arxiv) \in Seq(Own)
  BY <1>3 DEF StrongKey
<1>9. LookupKeys(raw) \in Seq(Own)
  BY <1>6, <1>7, <1>8 DEF LookupKeys
<1>10. LookupKeys(raw)[n] \in Own
  BY <1>9
<1> QED
  BY <1>10 DEF Own

\* The first key of a record is one of its own, and the strongest (identity_aliases).
LEMMA HomeType ==
    ASSUME NEW raw \in RawPaper
    PROVE  /\ 1 \in DOMAIN LookupKeys(raw)
           /\ Home(raw) \in Key /\ HasKey(Prepare(raw), Home(raw))
           /\ Identified(Prepare(raw)) => Home(raw) = Strongest(Prepare(raw))
           /\ ~Identified(Prepare(raw)) => Home(raw)[1] = "provider"
<1>1. CASE Identified(Prepare(raw))
  BY <1>1, StrongestIsFirstKey, LookupsAreOwn DEF Home
<1>2. CASE ~Identified(Prepare(raw))
  <2> DEFINE provider == ProviderLookups(raw)
  <2>1. provider \in Seq(Key)
    BY LookupParts
  <2>2. Len(provider) >= 1 /\ provider[1][1] = "provider"
    <3>1. Len(raw.aliases) \in Nat
      BY DEF RawPaper
    <3>2. Len(provider) = Len(raw.aliases) + 1 /\ 1 \in 1..Len(raw.aliases) + 1
      BY <3>1 DEF ProviderLookups
    <3>3. provider[1] = <<"provider", ProviderKeys(raw)[1]>>
      BY <3>2 DEF ProviderLookups
    <3> QED
      BY <3>1, <3>2, <3>3
  <2>3. /\ StrongKey("doi", Prepare(raw).doi) = << >>
        /\ StrongKey("arxiv", Prepare(raw).arxiv) = << >>
    BY <1>2 DEF StrongKey, Identified
  <2> HIDE DEF provider
  <2>4. << >> \o << >> \o provider = provider
    BY <2>1
  <2>5. LookupKeys(raw) = provider
    BY <2>3, <2>4 DEF LookupKeys, provider
  <2> QED
    BY <1>2, <2>1, <2>2, <2>5, LookupsAreOwn DEF Home
<1> QED
  BY <1>1, <1>2

\* None of the matches contradicts the record (find_matches, compatible).
LEMMA MatchesAgree ==
    ASSUME NEW t \in Tables, Whole(t), Indexed(t), NEW raw \in RawPaper,
           NEW p \in FindMatches(t, raw)
    PROVE  Agrees(t.papers[p], Prepare(raw))
<1>1. CASE p \in Hits(t, raw)
  <2>1. PICK n \in DOMAIN LookupKeys(raw) : Hit(t, raw, n) = p /\ p # None
    BY <1>1 DEF Hits
  <2> DEFINE key == LookupKeys(raw)[n]
  <2>2. key \in Key /\ HasKey(Prepare(raw), key)
    BY LookupsAreOwn
  <2> HIDE DEF key
  <2>3. t.alias[key] = p /\ Compatible(t.papers[p], Prepare(raw), key[1])
    BY <2>1 DEF Hit, key
  <2>4. p \in PaperId
    BY <2>1, HitType DEF Maybe
  <2>5. HasKey(t.papers[p], key)
    BY <2>2, <2>3, <2>4 DEF Indexed
  <2>6. CASE key \in {"doi"} \X Doi
    BY <2>2, <2>3, <2>6, NoneIsNoValue DEF HasKey, Compatible, Agrees
  <2>7. CASE key \in {"arxiv"} \X ArxivId
    BY <2>2, <2>3, <2>5, <2>7 DEF HasKey, Compatible, Agrees, Differ
  <2>8. CASE key \in {"provider"} \X ProviderKey
    BY <2>3, <2>8 DEF Compatible, Agrees
  <2> QED
    BY <2>2, <2>6, <2>7, <2>8 DEF Key
<1>2. CASE p \in TitleMatches(t, raw)
  BY <1>2 DEF TitleMatches, Compatible, Agrees
<1> QED
  BY <1>1, <1>2 DEF FindMatches

\* The owner of the first key is the first of the matches.
LEMMA OwnerIsFirst ==
    ASSUME NEW t \in Tables, NEW raw \in RawPaper,
           NEW owner \in PaperId, t.alias[Home(raw)] = owner,
           HasKey(t.papers[owner], Home(raw))
    PROVE  /\ owner \in FindMatches(t, raw)
           /\ \A S, p : owner \in S /\ IsFirst(t, raw, S, p) => p = owner
<1>1. 1 \in DOMAIN LookupKeys(raw) /\ LookupKeys(raw)[1] = Home(raw)
  BY HomeType DEF Home
<1>2. Compatible(t.papers[owner], Prepare(raw), Home(raw)[1])
  <2>1. CASE Identified(Prepare(raw))
    <3>1. Home(raw) = Strongest(Prepare(raw))
      BY <2>1, HomeType
    <3> QED
      BY <2>1, <3>1 DEF HasKey, Compatible, Differ, Strongest
  <2>2. CASE ~Identified(Prepare(raw))
    BY <2>2 DEF Identified, Compatible, Differ
  <2> QED
    BY <2>1, <2>2
<1>3. Hit(t, raw, 1) = owner
  BY <1>1, <1>2, NoneIsNoId DEF Hit
<1>4. owner \in FindMatches(t, raw)
  BY <1>1, <1>3, NoneIsNoId DEF Hits, FindMatches
<1>5. ASSUME NEW S, NEW p, owner \in S, IsFirst(t, raw, S, p)
      PROVE  p = owner
  <2>1. CASE S = {p}
    BY <1>5, <2>1
  <2>2. CASE \E n \in DOMAIN LookupKeys(raw) :
               Hit(t, raw, n) = p /\ \A m \in 1..(n - 1) : Hit(t, raw, m) \notin S
    <3>1. PICK n \in DOMAIN LookupKeys(raw) :
               Hit(t, raw, n) = p /\ \A m \in 1..(n - 1) : Hit(t, raw, m) \notin S
      BY <2>2
    <3>2. n \in Nat /\ n >= 1
      BY LookupKeysType
    <3>3. n = 1
      BY <1>3, <1>5, <3>1, <3>2
    <3> QED
      BY <1>3, <3>1, <3>3
  <2> QED
    BY <1>5, <2>1, <2>2 DEF IsFirst
<1> QED
  BY <1>4, <1>5

\* Joining two links only improves what either says.
LEMMA JoinKeeps ==
    ASSUME NEW link \in Maybe(Link), NEW other \in Maybe(Link),
           NEW x \in {link, other}, x # None
    PROVE  /\ Join(link, other) # None
           /\ Join(link, other).pos <= x.pos /\ Join(link, other).score >= x.score
<1>1. x \in Link /\ x.pos \in Nat /\ x.score \in Nat
  BY DEF Maybe, Link
<1>2. CASE link = None \/ other = None
  BY <1>1, <1>2 DEF Join
<1>3. CASE link # None /\ other # None
  <2>1. /\ link.pos \in Nat /\ link.score \in Nat
        /\ other.pos \in Nat /\ other.score \in Nat
    BY <1>3 DEF Maybe, Link
  <2>2. Join(link, other) = [pos |-> Lower(link.pos, other.pos),
                             score |-> Higher(link.score, other.score)]
    BY <1>3 DEF Join
  <2>3. Lower(link.pos, other.pos) <= x.pos
    BY <2>1 DEF Lower
  <2>4. Higher(link.score, other.score) >= x.score
    BY <2>1 DEF Higher
  <2>5. Join(link, other) # None
    BY <1>3, JoinType
  <2> QED
    BY <2>2, <2>3, <2>4, <2>5
<1> QED
  BY <1>2, <1>3

\* Absorbing a duplicate loses no record of a scan.
LEMMA ReparentKeeps ==
    ASSUME NEW t \in Tables, NEW id \in PaperId, NEW q \in PaperId, q # id,
           NEW s \in ScanId, NEW b \in Seq(Scored),
           NEW n \in 0..Len(b), Keeps(t, s, b, n)
    PROVE  Keeps(Reparent(t, q, id), s, b, n)
<1> DEFINE u == Reparent(t, q, id)
<1>1. \A k \in Key : u.alias[k] = Moved(t.alias[k], q, id)
  BY DEF Reparent
<1>2. \A p \in PaperId : u.links[s][p] = IF p = q THEN None
                             ELSE IF p = id THEN Join(t.links[s][id], t.links[s][q])
                             ELSE t.links[s][p]
  BY DEF Reparent
<1> HIDE DEF u
<1>3. ASSUME NEW m \in 1..n
      PROVE  KeptAt(u.links[s], u.alias[Home(b[m].paper)], m, b[m].score)
  <2> DEFINE key == Home(b[m].paper)
             found == t.alias[key]
             link == t.links[s][found]
  <2>1. m \in 1..Len(b)
    OBVIOUS
  <2>2. key \in Key /\ b[m].score \in Nat
    BY <2>1, EntryType, HomeType
  <2> HIDE DEF key
  <2>3. found \in Maybe(PaperId) /\ KeptAt(t.links[s], found, m, b[m].score)
    BY <1>3, <2>2 DEF Tables, Keeps, key
  <2>4. found \in PaperId /\ link # None /\ link.pos <= m /\ link.score >= b[m].score
    BY <2>3 DEF KeptAt, Maybe
  <2>5. \A p \in PaperId : t.links[s][p] \in Maybe(Link)
    BY DEF Tables
  <2>6. link.pos \in Nat /\ link.score \in Nat
    BY <2>4, <2>5 DEF Maybe, Link
  <2> HIDE DEF found, link
  <2>7. CASE found \in {id, q}
    <3> DEFINE joined == Join(t.links[s][id], t.links[s][q])
    <3>1. u.alias[key] = id /\ u.links[s][id] = joined
      BY <1>1, <1>2, <2>2, <2>7 DEF Moved, found
    <3>2. link \in {t.links[s][id], t.links[s][q]}
      BY <2>7 DEF link
    <3>3. joined # None /\ joined.pos <= link.pos /\ joined.score >= link.score
      BY <2>4, <2>5, <3>2, JoinKeeps
    <3>4. joined \in Link
      BY <2>5, <3>3, JoinType DEF Maybe
    <3>5. joined.pos \in Nat /\ joined.score \in Nat
      BY <3>4 DEF Link
    <3> HIDE DEF joined
    <3>6. joined.pos <= m /\ joined.score >= b[m].score
      BY <2>1, <2>2, <2>4, <2>6, <3>3, <3>5
    <3> QED
      BY <3>1, <3>3, <3>6, NoneIsNoId DEF KeptAt, key
  <2>8. CASE found \notin {id, q}
    <3>1. u.alias[key] = found /\ u.links[s][found] = link
      BY <1>1, <1>2, <2>2, <2>4, <2>8 DEF Moved, found, link
    <3> QED
      BY <2>4, <3>1, NoneIsNoId DEF KeptAt, key
  <2> QED
    BY <2>7, <2>8
<1> QED
  BY <1>3 DEF Keeps, u

\* Writing a paper loses no record of a scan.
LEMMA UpsertKeeps ==
    ASSUME NEW t \in Tables, NEW id \in PaperId, NEW paper, NEW now, NEW r \in ScanId,
           NEW link \in Link, ~Conflicts(t, id, paper),
           NEW s \in ScanId, NEW b \in Seq(Scored),
           NEW n \in 0..Len(b), Keeps(t, s, b, n)
    PROVE  Keeps(Upsert(t, id, paper, now, r, link), s, b, n)
<1> DEFINE u == Upsert(t, id, paper, now, r, link)
<1>1. \A k \in Key : t.alias[k] # None => u.alias[k] = t.alias[k]
  BY DEF Upsert, Conflicts
<1>2. \A p \in PaperId : \/ u.links[s][p] = t.links[s][p]
                         \/ u.links[s][p] = Join(t.links[s][p], link)
  BY DEF Upsert, Tables
<1> HIDE DEF u
<1>3. ASSUME NEW m \in 1..n
      PROVE  KeptAt(u.links[s], u.alias[Home(b[m].paper)], m, b[m].score)
  <2> DEFINE key == Home(b[m].paper)
             found == t.alias[key]
             old == t.links[s][found]
             new == u.links[s][found]
  <2>1. m \in 1..Len(b)
    OBVIOUS
  <2>2. key \in Key /\ b[m].score \in Nat
    BY <2>1, EntryType, HomeType
  <2> HIDE DEF key
  <2>3. found \in Maybe(PaperId) /\ KeptAt(t.links[s], found, m, b[m].score)
    BY <1>3, <2>2 DEF Tables, Keeps, key
  <2>4. found # None /\ found \in PaperId /\ old # None /\ old.pos <= m /\ old.score >= b[m].score
    BY <2>3 DEF KeptAt, Maybe
  <2>5. old \in Maybe(Link) /\ link \in Maybe(Link)
    BY <2>4 DEF Tables, Maybe
  <2>6. old.pos \in Nat /\ old.score \in Nat
    BY <2>4, <2>5 DEF Maybe, Link
  <2>7. u.alias[key] = found
    BY <1>1, <2>2, <2>4
  <2>8. new = old \/ new = Join(old, link)
    BY <1>2, <2>4
  <2> HIDE DEF found, old, new
  <2>9. new # None /\ new.pos \in Nat /\ new.score \in Nat
          /\ new.pos <= old.pos /\ new.score >= old.score
    <3>1. CASE new = old
      BY <2>4, <2>6, <3>1
    <3>2. CASE new = Join(old, link)
      <4>1. new # None /\ new.pos <= old.pos /\ new.score >= old.score
        BY <2>4, <2>5, <3>2, JoinKeeps
      <4>2. new \in Link
        BY <2>5, <3>2, <4>1, JoinType DEF Maybe
      <4> QED
        BY <4>1, <4>2 DEF Link
    <3> QED
      BY <2>8, <3>1, <3>2
  <2>10. new.pos <= m /\ new.score >= b[m].score
    BY <2>1, <2>2, <2>4, <2>6, <2>9
  <2> QED
    BY <2>4, <2>7, <2>9, <2>10 DEF KeptAt, key, new
<1> QED
  BY <1>3 DEF Keeps, u

\* The place and the score of a joined link are those of one of the two.
LEMMA JoinTakes ==
    ASSUME NEW link \in Maybe(Link), NEW other \in Maybe(Link), Join(link, other) # None
    PROVE  /\ \E x \in {link, other} : x # None /\ Join(link, other).pos = x.pos
           /\ \E x \in {link, other} : x # None /\ Join(link, other).score = x.score
<1>1. CASE link = None \/ other = None
  BY <1>1 DEF Join
<1>2. CASE link # None /\ other # None
  <2>1. Join(link, other) = [pos |-> Lower(link.pos, other.pos),
                             score |-> Higher(link.score, other.score)]
    BY <1>2 DEF Join
  <2>2. /\ Lower(link.pos, other.pos) \in {link.pos, other.pos}
        /\ Higher(link.score, other.score) \in {link.score, other.score}
    BY DEF Lower, Higher
  <2> QED
    BY <1>2, <2>1, <2>2
<1> QED
  BY <1>1, <1>2

\* Absorbing a duplicate gives a scan no place and no score that none of its records had.
LEMMA ReparentEarned ==
    ASSUME NEW t \in Tables, NEW id \in PaperId, NEW q \in PaperId, q # id,
           NEW s \in ScanId, NEW b \in Seq(Scored),
           NEW n \in 0..Len(b), Earned(t, s, b, n)
    PROVE  Earned(Reparent(t, q, id), s, b, n)
<1> DEFINE u == Reparent(t, q, id)
           home(m) == Home(b[m].paper)
<1>1. \A k \in Key : u.alias[k] = Moved(t.alias[k], q, id)
  BY DEF Reparent
<1>2. \A p \in PaperId : u.links[s][p] = IF p = q THEN None
                             ELSE IF p = id THEN Join(t.links[s][id], t.links[s][q])
                             ELSE t.links[s][p]
  BY DEF Reparent
<1>3. \A m \in 1..n : home(m) \in Key
  <2> TAKE m \in 1..n
  <2>1. m \in 1..Len(b)
    OBVIOUS
  <2> QED
    BY <2>1, EntryType, HomeType
<1>4. \A p \in PaperId : t.links[s][p] # None =>
          /\ \E m \in 1..n : t.alias[home(m)] = p /\ t.links[s][p].pos = m
          /\ \E m \in 1..n : t.alias[home(m)] = p /\ t.links[s][p].score = b[m].score
  BY DEF Earned
<1>5. \A p \in PaperId : t.links[s][p] \in Maybe(Link)
  BY DEF Tables
<1> HIDE DEF u, home
<1>6. ASSUME NEW p \in PaperId, u.links[s][p] # None
      PROVE  /\ \E m \in 1..n : u.alias[home(m)] = p /\ u.links[s][p].pos = m
             /\ \E m \in 1..n : u.alias[home(m)] = p /\ u.links[s][p].score = b[m].score
  <2>1. CASE p = id
    <3>1. u.links[s][p] = Join(t.links[s][id], t.links[s][q])
      BY <1>2, <2>1
    <3>2. \A m \in 1..n : t.alias[home(m)] \in {id, q} => u.alias[home(m)] = id
      BY <1>1, <1>3 DEF Moved
    <3>3. PICK x \in {id, q} : t.links[s][x] # None /\ u.links[s][p].pos = t.links[s][x].pos
      BY <1>5, <1>6, <3>1, JoinTakes
    <3>4. PICK y \in {id, q} : t.links[s][y] # None /\ u.links[s][p].score = t.links[s][y].score
      BY <1>5, <1>6, <3>1, JoinTakes
    <3>5. PICK m \in 1..n : t.alias[home(m)] = x /\ t.links[s][x].pos = m
      BY <1>4, <3>3
    <3>6. PICK l \in 1..n : t.alias[home(l)] = y /\ t.links[s][y].score = b[l].score
      BY <1>4, <3>4
    <3> QED
      BY <2>1, <3>2, <3>3, <3>4, <3>5, <3>6
  <2>2. CASE p \notin {id, q}
    <3>1. u.links[s][p] = t.links[s][p]
      BY <1>2, <2>2
    <3>2. \A m \in 1..n : t.alias[home(m)] = p => u.alias[home(m)] = p
      BY <1>1, <1>3, <2>2 DEF Moved
    <3> QED
      BY <1>4, <1>6, <3>1, <3>2
  <2> QED
    BY <1>2, <1>6, <2>1, <2>2
<1> QED
  BY <1>6 DEF Earned, u, home

\* Nor does writing a paper, if the link that is written is that of one of the records.
LEMMA UpsertEarned ==
    ASSUME NEW t \in Tables, NEW id \in PaperId, NEW paper, NEW now, NEW r \in ScanId,
           NEW link \in Link, ~Conflicts(t, id, paper),
           NEW s \in ScanId, NEW b \in Seq(Scored),
           NEW n \in 0..Len(b), Earned(t, s, b, n), NEW last \in 0..Len(b), n <= last,
           s = r => \E m \in 1..last :
                       /\ Upsert(t, id, paper, now, r, link).alias[Home(b[m].paper)] = id
                       /\ link.pos = m /\ link.score = b[m].score
    PROVE  Earned(Upsert(t, id, paper, now, r, link), s, b, last)
<1> DEFINE u == Upsert(t, id, paper, now, r, link)
           home(m) == Home(b[m].paper)
<1>1. \A k \in Key : t.alias[k] # None => u.alias[k] = t.alias[k]
  BY DEF Upsert, Conflicts
<1>2. \A p \in PaperId : u.links[s][p] = IF s = r /\ p = id THEN Join(t.links[s][id], link)
                                         ELSE t.links[s][p]
  BY DEF Upsert, Tables
<1>3. \A m \in 1..n : home(m) \in Key
  <2> TAKE m \in 1..n
  <2>1. m \in 1..Len(b)
    OBVIOUS
  <2> QED
    BY <2>1, EntryType, HomeType
<1>4. \A p \in PaperId : t.links[s][p] # None =>
          /\ \E m \in 1..n : t.alias[home(m)] = p /\ t.links[s][p].pos = m
          /\ \E m \in 1..n : t.alias[home(m)] = p /\ t.links[s][p].score = b[m].score
  BY DEF Earned
<1>5. \A p \in PaperId : t.links[s][p] \in Maybe(Link)
  BY DEF Tables
<1>6. s = r => \E m \in 1..last : /\ u.alias[home(m)] = id
                                  /\ link.pos = m /\ link.score = b[m].score
  OBVIOUS
<1>7. \A m \in 1..n : m \in 1..last
  OBVIOUS
<1> HIDE DEF u, home
<1>8. \A p \in PaperId : t.links[s][p] # None =>
          /\ \E m \in 1..last : u.alias[home(m)] = p /\ t.links[s][p].pos = m
          /\ \E m \in 1..last : u.alias[home(m)] = p /\ t.links[s][p].score = b[m].score
  <2> TAKE p \in PaperId
  <2> HAVE t.links[s][p] # None
  <2>1. \A m \in 1..n : t.alias[home(m)] = p => m \in 1..last /\ u.alias[home(m)] = p
    BY <1>1, <1>3, <1>7, NoneIsNoId
  <2>2. /\ \E m \in 1..n : t.alias[home(m)] = p /\ t.links[s][p].pos = m
        /\ \E m \in 1..n : t.alias[home(m)] = p /\ t.links[s][p].score = b[m].score
    BY <1>4
  <2> QED
    BY <2>1, <2>2
<1>9. ASSUME NEW p \in PaperId, u.links[s][p] # None
      PROVE  /\ \E m \in 1..last : u.alias[home(m)] = p /\ u.links[s][p].pos = m
             /\ \E m \in 1..last : u.alias[home(m)] = p /\ u.links[s][p].score = b[m].score
  <2>1. CASE s = r /\ p = id
    <3>1. u.links[s][p] = Join(t.links[s][id], link) /\ link \in Maybe(Link)
      BY <1>2, <2>1 DEF Maybe
    <3>2. PICK x \in {t.links[s][id], link} : x # None /\ u.links[s][p].pos = x.pos
      BY <1>5, <1>9, <3>1, JoinTakes
    <3>3. PICK y \in {t.links[s][id], link} : y # None /\ u.links[s][p].score = y.score
      BY <1>5, <1>9, <3>1, JoinTakes
    <3>4. \E m \in 1..last : u.alias[home(m)] = id /\ x.pos = m
      BY <1>6, <1>8, <2>1, <3>2
    <3>5. \E m \in 1..last : u.alias[home(m)] = id /\ y.score = b[m].score
      BY <1>6, <1>8, <2>1, <3>3
    <3> QED
      BY <2>1, <3>2, <3>3, <3>4, <3>5
  <2>2. CASE ~(s = r /\ p = id)
    BY <1>2, <1>8, <1>9, <2>2
  <2> QED
    BY <2>1, <2>2
<1> QED
  BY <1>9 DEF Earned, u, home

LEMMA EnrichAgrees ==
    ASSUME NEW paper, NEW other, NEW incoming,
           Agrees(paper, incoming), Agrees(other, incoming)
    PROVE  Agrees(Enrich(paper, other), incoming)
BY DEF Agrees, Enrich, FirstKnown, Differ

\* A record that does not contradict the canonical paper gives it its first key.
LEMMA EnrichTakesHome ==
    ASSUME NEW paper \in Paper, NEW raw \in RawPaper, Agrees(paper, Prepare(raw))
    PROVE  HasKey(Enrich(paper, Prepare(raw)), Home(raw))
<1> DEFINE incoming == Prepare(raw)
<1>1. incoming \in Paper /\ HasKey(incoming, Home(raw))
  BY PrepareType, HomeType
<1>2. CASE Identified(incoming)
  <2>1. Home(raw) = Strongest(incoming)
    BY <1>2, HomeType
  <2> HIDE DEF incoming
  <2>2. HasKey(Enrich(paper, incoming), Strongest(incoming))
    BY <1>1, <1>2 DEF incoming, Agrees, Enrich, FirstKnown, Differ, HasKey, Strongest, Identified
  <2> QED
    BY <2>1, <2>2 DEF incoming
<1>3. CASE ~Identified(incoming)
  <2>1. Home(raw)[1] = "provider"
    BY <1>3, HomeType
  <2> HIDE DEF incoming
  <2>2. HasKey(Enrich(paper, incoming), Home(raw))
    BY <1>1, <2>1 DEF HasKey, Enrich
  <2> QED
    BY <2>2 DEF incoming
<1> QED
  BY <1>2, <1>3

-----------------------------------------------------------------------------
(* The steps, as far as the records are concerned.                          *)

\* Steps that leave keys and links alone, with no record at hand afterwards or
\* the same one: Call, BusyTimeout, SaveAnalysis.
LEMMA QuietKept ==
    ASSUME IInv, KeptInv, \A s \in ScanId : calls[s] # "unused" => batch'[s] = batch[s],
           db'.scans = db.scans, db'.links = db.links, db'.alias = db.alias,
           tx'.scans = tx.scans, tx'.links = tx.links, tx'.alias = tx.alias,
           UNCHANGED <<holder, pos, stage>>,
           stage = "merge" => tx' = tx /\ cur' = cur
    PROVE  KeptInv'
<1>1. /\ \A s \in db.scans \cup tx.scans : batch'[s] = batch[s]
      /\ holder # None => holder \in ScanId /\ batch'[holder] = batch[holder]
  BY BegunBatchesFixed
<1>2. (stage = "merge" => HomeAtHand)'
  <2> SUFFICES ASSUME stage' = "merge" PROVE HomeAtHand'
    OBVIOUS
  <2>1. holder # None
    BY DEF IInv, Control
  <2>2. Raw(holder)' = Raw(holder)
    BY <1>1, <2>1 DEF Raw
  <2> QED
    BY <2>2 DEF KeptInv, HomeAtHand
<1>3. \A s \in db.scans : Settled(db, s, batch[s], Len(batch[s]))'
  <2>1. \A s, b, n : Settled(db, s, b, n) => Settled(db', s, b, n)
    BY DEF Settled, Keeps, Earned
  <2>2. \A s \in db.scans : Settled(db', s, batch'[s], Len(batch'[s]))
    BY <1>1, <2>1 DEF KeptInv
  <2> QED
    BY <2>2 DEF Settled, Keeps, Earned
<1>4. \A s \in tx.scans : (s # holder => Settled(tx, s, batch[s], Len(batch[s])))'
  BY <1>1 DEF KeptInv, Settled, Keeps, Earned
<1>5. (holder # None => pos <= Len(batch[holder]) + 1
                        /\ Settled(tx, holder, batch[holder], pos - 1))'
  BY <1>1 DEF KeptInv, Settled, Keeps, Earned
<1> QED
  BY <1>2, <1>3, <1>4, <1>5 DEF KeptInv

LEMMA ReleaseKept ==
    ASSUME KeptInv, UNCHANGED <<db, batch>>, tx' = db, holder' = None, stage' = "match"
    PROVE  KeptInv'
BY DEF KeptInv

LEMMA BeginKept ==
    ASSUME IInv, KeptInv, NEW s \in ScanId, Begin(s)
    PROVE  KeptInv'
<1>1. /\ holder = None /\ holder' = s /\ tx' = InsertScan(db, s) /\ pos' = 1
      /\ stage' = "match" /\ UNCHANGED <<db, batch>>
  BY DEF Begin
<1>2. tx'.scans = db.scans \cup {s} /\ tx'.links = db.links /\ tx'.alias = db.alias
  BY <1>1 DEF InsertScan
<1>3. \A r \in db.scans : Settled(tx', r, batch[r], Len(batch[r]))
  BY <1>2 DEF KeptInv, Settled, Keeps, Earned
<1>4. Settled(tx', s, batch[s], 0)
  <2>1. \A p \in PaperId : db.links[s][p] = None
    BY DEF Begin, IInv, Scans, Whole, ForeignKeys
  <2> QED
    BY <1>2, <2>1 DEF Settled, Keeps, Earned
<1> QED
  BY <1>1, <1>2, <1>3, <1>4 DEF KeptInv

LEMMA CommitKept ==
    ASSUME IInv, KeptInv, NEW s \in ScanId, Commit(s)
    PROVE  KeptInv'
<1>1. /\ holder = s /\ stage = "match" /\ db' = tx /\ tx' = tx /\ holder' = None
      /\ pos > Len(batch[s]) /\ UNCHANGED <<batch, stage>>
  BY DEF Commit
<1>2. pos \in Nat /\ Len(batch[s]) \in Nat
  BY BatchType DEF IInv, TypeOK
<1>3. Settled(tx, s, batch[s], pos - 1)
  BY <1>1, NoneIsNoId DEF KeptInv
<1>4. Settled(tx, s, batch[s], Len(batch[s]))
  <2>1. pos - 1 = Len(batch[s])
    BY <1>1, <1>2, NoneIsNoId DEF KeptInv
  <2> QED
    BY <1>3, <2>1
<1> QED
  BY <1>1, <1>4 DEF KeptInv

LEMMA MatchKept ==
    ASSUME IInv, KeptInv, NEW s \in ScanId, Match(s)
    PROVE  KeptInv'
<1> DEFINE raw == Raw(s)
           incoming == Prepare(raw)
           matches == FindMatches(tx, raw)
           owner == tx.alias[Home(raw)]
<1>1. /\ holder = s /\ stage = "match" /\ pos <= Len(batch[s])
      /\ UNCHANGED <<db, tx, holder, batch, pos>>
  BY DEF Match
<1>2. \/ /\ matches = {}
         /\ cur' = [id |-> None, paper |-> incoming, pending |-> {}]
      \/ \E p \in matches :
            /\ IsCanonical(tx, raw, matches, p)
            /\ cur' = [id |-> p, paper |-> tx.papers[p], pending |-> matches \ {p}]
  BY DEF Match
<1>3. raw \in RawPaper /\ incoming \in Paper
  BY <1>1, RecordType, PrepareType DEF IInv
<1>4. tx \in Tables /\ Whole(tx) /\ Indexed(tx)
  BY <1>1 DEF IInv, TypeOK, Index
<1>5. \A p \in matches : Agrees(tx.papers[p], incoming)
  BY <1>3, <1>4, MatchesAgree
<1>6. owner # None =>
         /\ owner \in matches
         /\ \A S, p : owner \in S /\ IsFirst(tx, raw, S, p) => p = owner
  <2> HAVE owner # None
  <2> DEFINE key == Home(raw)
  <2>1. key \in Key
    BY <1>3, HomeType
  <2>2. owner \in PaperId
    BY <1>4, <2>1 DEF Tables, Maybe
  <2>3. tx.alias[key] = owner
    OBVIOUS
  <2> HIDE DEF key, owner
  <2>4. HasKey(tx.papers[owner], key)
    BY <1>4, <2>1, <2>2, <2>3 DEF Indexed
  <2> QED
    BY <1>3, <1>4, <2>2, <2>3, <2>4, OwnerIsFirst DEF key
<1>7. Raw(holder)' = raw
  BY <1>1 DEF Raw
<1>8. HomeAtHand' =
         /\ Agrees(cur'.paper, incoming)
         /\ \A q \in cur'.pending : Agrees(tx.papers[q], incoming)
         /\ \/ owner \in {None, cur'.id}
            \/ owner \in cur'.pending /\ Compatible(cur'.paper, tx.papers[owner], "provider")
  BY <1>1, <1>7 DEF HomeAtHand
<1> HIDE DEF raw, incoming, matches, owner
<1>9. CASE matches = {} /\ cur' = [id |-> None, paper |-> incoming, pending |-> {}]
  <2>1. Agrees(incoming, incoming)
    BY DEF Agrees, Differ
  <2>2. HomeAtHand'
    BY <1>6, <1>8, <1>9, <2>1
  <2> QED
    BY <1>1, <2>2 DEF KeptInv
<1>10. ASSUME NEW p \in matches, IsCanonical(tx, raw, matches, p),
              cur' = [id |-> p, paper |-> tx.papers[p], pending |-> matches \ {p}]
       PROVE  KeptInv'
  <2>1. ASSUME owner # None, owner # p
        PROVE  owner \in matches \ {p} /\ Compatible(tx.papers[p], tx.papers[owner], "provider")
    <3>1. owner \in matches /\ \A q : IsFirst(tx, raw, matches, q) => q = owner
      BY <1>6, <2>1
    <3>2. IF \A q \in matches : Compatible(tx.papers[owner], tx.papers[q], "provider")
          THEN p \in matches ELSE p = owner
      BY <1>10, <3>1 DEF IsCanonical
    <3>3. Compatible(tx.papers[owner], tx.papers[p], "provider")
      BY <2>1, <3>2
    <3> QED
      BY <2>1, <3>1, <3>3, CompatibleSymmetric
  <2>2. HomeAtHand'
    BY <1>5, <1>8, <1>10, <2>1
  <2> QED
    BY <1>1, <2>2 DEF KeptInv
<1> QED
  BY <1>2, <1>9, <1>10

\* If the record's first key is owned by a pending match, it is the one that comes next.
LEMMA DuplicateOwns ==
    ASSUME IInv, KeptInv, NEW s \in ScanId, holder = s, stage = "merge",
           NEW q \in cur.pending, IsFirst(tx, Raw(s), cur.pending, q)
    PROVE  LET owner == tx.alias[Home(Raw(s))]
           IN  \/ owner \in {None, cur.id}
               \/ owner = q /\ Compatible(cur.paper, tx.papers[q], "provider")
<1> DEFINE key == Home(Raw(s))
           owner == tx.alias[key]
<1>1. tx \in Tables /\ cur \in Locals
  BY DEF IInv, TypeOK
<1>2. Raw(s) \in RawPaper
  BY RecordType DEF IInv, Control
<1> SUFFICES ASSUME owner \notin {None, cur.id}
             PROVE  owner = q /\ Compatible(cur.paper, tx.papers[q], "provider")
  OBVIOUS
<1>3. owner \in cur.pending /\ Compatible(cur.paper, tx.papers[owner], "provider")
  BY DEF KeptInv, HomeAtHand
<1>4. owner \in PaperId
  BY <1>1, <1>3 DEF Locals
<1>5. key \in Key
  BY <1>2, HomeType
<1>6. HasKey(tx.papers[owner], key)
  <2> HIDE DEF key
  <2> QED
    BY <1>4, <1>5 DEF IInv, Index, IndexedBut
<1>7. \A S, p : owner \in S /\ IsFirst(tx, Raw(s), S, p) => p = owner
  BY <1>1, <1>2, <1>4, <1>6, OwnerIsFirst
<1> QED
  BY <1>3, <1>7

LEMMA MergeDuplicateKept ==
    ASSUME IInv, KeptInv, NEW s \in ScanId, MergeDuplicate(s)
    PROVE  KeptInv'
<1> DEFINE incoming == Prepare(Raw(s))
           key == Home(Raw(s))
<1>1. holder = s /\ stage = "merge" /\ UNCHANGED <<db, holder, batch, pos, stage>>
  BY DEF MergeDuplicate
<1>2. PICK q \in cur.pending :
         /\ IsFirst(tx, Raw(s), cur.pending, q)
         /\ cur' = [id |-> cur.id, paper |-> Enrich(cur.paper, tx.papers[q]),
                    pending |-> cur.pending \ {q}]
         /\ tx' = Reparent(tx, q, cur.id)
  BY DEF MergeDuplicate
<1>3. cur.id \in PaperId /\ q \in PaperId /\ q # cur.id
  BY <1>1, <1>2, Duplicate
<1>4. tx \in Tables /\ cur \in Locals /\ tx'.scans = tx.scans
  BY <1>2 DEF IInv, TypeOK, Reparent
<1>5. \A r \in tx.scans : r \in ScanId
  BY <1>4 DEF Tables
<1>6. \A r \in tx.scans : r # s => Settled(tx', r, batch[r], Len(batch[r]))
  <2> TAKE r \in tx.scans
  <2> HAVE r # s
  <2>1. batch[r] \in Seq(Scored) /\ r \in ScanId
    BY <1>5, BatchType
  <2>2. Len(batch[r]) \in 0..Len(batch[r])
    BY <2>1
  <2>3. Settled(tx, r, batch[r], Len(batch[r]))
    BY <1>1 DEF KeptInv
  <2> QED
    BY <1>2, <1>3, <1>4, <2>1, <2>2, <2>3, ReparentKeeps, ReparentEarned DEF Settled
<1>7. Settled(tx', s, batch[s], pos - 1)
  <2>1. batch[s] \in Seq(Scored) /\ pos \in 1..Len(batch[s])
    BY <1>1, BatchAtHand
  <2>2. pos - 1 \in 0..Len(batch[s])
    BY <2>1
  <2>3. Settled(tx, s, batch[s], pos - 1)
    BY <1>1, NoneIsNoId DEF KeptInv
  <2> QED
    BY <1>2, <1>3, <1>4, <2>1, <2>2, <2>3, ReparentKeeps, ReparentEarned DEF Settled
<1>8. HomeAtHand'
  <2>1. Raw(holder)' = Raw(s)
    BY <1>1 DEF Raw
  <2>2. Agrees(cur.paper, incoming) /\ \A p \in cur.pending : Agrees(tx.papers[p], incoming)
    BY <1>1 DEF KeptInv, HomeAtHand
  <2>3. Agrees(cur'.paper, incoming)
    BY <1>2, <2>2, EnrichAgrees
  <2>4. \A p \in cur'.pending : tx'.papers[p] = tx.papers[p]
    BY <1>2, <1>4 DEF Reparent, Tables, Locals
  <2>5. tx'.alias[key] \in {None, cur.id}
    <3>1. tx.alias[key] \in {None, cur.id, q}
      BY <1>1, <1>2, DuplicateOwns
    <3>2. Raw(s) \in RawPaper
      BY <1>1, RecordType DEF IInv, Control
    <3>3. key \in Key
      BY <3>2, HomeType
    <3>4. tx'.alias[key] = Moved(tx.alias[key], q, cur.id)
      BY <1>2, <3>3 DEF Reparent
    <3> QED
      BY <1>3, <3>1, <3>4, NoneIsNoId DEF Moved
  <2>6. cur'.id = cur.id /\ cur'.pending \subseteq cur.pending
    BY <1>2
  <2> QED
    BY <2>1, <2>2, <2>3, <2>4, <2>5, <2>6 DEF HomeAtHand
<1> QED
  BY <1>1, <1>4, <1>6, <1>7, <1>8 DEF KeptInv

LEMMA SkipDuplicateKept ==
    ASSUME IInv, KeptInv, NEW s \in ScanId, SkipDuplicate(s)
    PROVE  KeptInv'
<1>1. holder = s /\ stage = "merge" /\ UNCHANGED <<db, tx, holder, batch, pos, stage>>
  BY DEF SkipDuplicate
<1>2. PICK q \in cur.pending :
         /\ IsFirst(tx, Raw(s), cur.pending, q)
         /\ ~Compatible(cur.paper, tx.papers[q], "provider")
         /\ cur' = [id |-> cur.id, paper |-> cur.paper, pending |-> cur.pending \ {q}]
  BY DEF SkipDuplicate
<1>3. Raw(holder)' = Raw(s)
  BY <1>1 DEF Raw
<1>4. tx.alias[Home(Raw(s))] \in {None, cur.id}
  BY <1>1, <1>2, DuplicateOwns
<1>5. HomeAtHand'
  BY <1>1, <1>2, <1>3, <1>4 DEF KeptInv, HomeAtHand
<1> QED
  BY <1>1, <1>5 DEF KeptInv

\* The paper that is written has the first key of its record.
LEMMA StoredIsFound ==
    ASSUME IInv, KeptInv, NEW s \in ScanId, holder = s, stage = "merge", cur.pending = {},
           NEW id \in PaperId, Target(id)
    PROVE  HasKey(Stored(s, id), Home(Raw(s)))
<1> DEFINE incoming == Prepare(Raw(s))
           key == Home(Raw(s))
           merged == IF cur.id = None THEN cur.paper ELSE Enrich(cur.paper, incoming)
<1>1. Raw(s) \in RawPaper /\ incoming \in Paper
  BY RecordType, PrepareType DEF IInv, Control
<1>2. key \in Key /\ HasKey(incoming, key)
  BY <1>1, HomeType
<1>3. Agrees(cur.paper, incoming) /\ tx.alias[key] \in {None, id}
  BY DEF KeptInv, HomeAtHand, Target
<1>4. HasKey(merged, key) /\ merged \in Paper
  <2>1. CASE cur.id = None
    <3>1. cur.paper = incoming
      BY <2>1 DEF IInv, Record
    <3> QED
      BY <1>1, <1>2, <2>1, <3>1
  <2>2. CASE cur.id # None
    <3>1. cur.paper \in Paper
      BY DEF IInv, TypeOK, Record, Locals, Maybe
    <3> QED
      BY <1>1, <1>3, <2>2, <3>1, EnrichTakesHome, EnrichType
  <2> QED
    BY <2>1, <2>2
<1>5. Stored(s, id) = DropForeign(tx, id, merged)
  BY DEF Stored
<1> HIDE DEF merged, incoming, key
<1>6. HasKey(DropForeign(tx, id, merged), key)
  BY <1>2, <1>3, <1>4, DropForeignKeepsFree
<1> QED
  BY <1>5, <1>6 DEF key

LEMMA StoreKept ==
    ASSUME IInv, KeptInv, NEW s \in ScanId, Store(s)
    PROVE  KeptInv'
<1> DEFINE link == [pos |-> pos, score |-> Score(s)]
           b == batch[s]
<1>1. holder = s /\ stage = "merge" /\ cur.pending = {}
  BY DEF Store
<1>2. PICK id \in PaperId :
         /\ Target(id) /\ ~Conflicts(tx, id, Stored(s, id)) /\ Stored(s, id) \in Paper
         /\ Write(s, id)
  BY StoreWrites
<1>3. /\ tx' = Upsert(tx, id, Stored(s, id), stamp[s], s, link)
      /\ pos' = pos + 1 /\ stage' = "match" /\ UNCHANGED <<db, holder, batch>>
  BY <1>2 DEF Write
<1>4. tx \in Tables /\ tx'.scans = tx.scans /\ s \in tx.scans
  BY <1>1, <1>3 DEF IInv, TypeOK, Control, Scans, Upsert
<1>5. \A r \in tx.scans : r \in ScanId
  BY <1>4 DEF Tables
<1>6. b \in Seq(Scored) /\ pos \in 1..Len(b)
  BY <1>1, BatchAtHand
<1>7. link \in Link /\ link.pos = pos /\ link.score = b[pos].score
  <2>1. link.pos = pos /\ link.score = Score(s) /\ Score(s) = b[pos].score
    BY DEF Score
  <2>2. pos \in Nat /\ Score(s) \in Nat
    BY <1>1, RecordType DEF IInv, TypeOK, Control
  <2> QED
    BY <2>1, <2>2 DEF Link
<1> HIDE DEF link, b
<1>8. \A r \in tx.scans : r # s => Settled(tx', r, batch[r], Len(batch[r]))
  <2> TAKE r \in tx.scans
  <2> HAVE r # s
  <2>1. batch[r] \in Seq(Scored) /\ r \in ScanId
    BY <1>5, BatchType
  <2>2. Len(batch[r]) \in 0..Len(batch[r])
    BY <2>1
  <2>3. Settled(tx, r, batch[r], Len(batch[r]))
    BY <1>1 DEF KeptInv
  <2> QED
    <3>1. Keeps(tx', r, batch[r], Len(batch[r]))
      BY <1>2, <1>3, <1>4, <1>7, <2>1, <2>2, <2>3, UpsertKeeps DEF Settled
    <3>2. Earned(tx', r, batch[r], Len(batch[r]))
      <4>1. Len(batch[r]) <= Len(batch[r]) /\ Earned(tx, r, batch[r], Len(batch[r]))
        BY <2>2, <2>3 DEF Settled
      <4> QED
        BY <1>2, <1>3, <1>4, <1>7, <2>1, <2>2, <4>1, UpsertEarned
    <3> QED
      BY <3>1, <3>2 DEF Settled
<1>9. Keeps(tx', s, b, pos - 1)
  <2>1. pos - 1 \in 0..Len(b)
    BY <1>6
  <2>2. Keeps(tx, s, b, pos - 1)
    BY <1>1, NoneIsNoId DEF KeptInv, Settled, b
  <2> QED
    BY <1>2, <1>3, <1>4, <1>6, <1>7, <2>1, <2>2, UpsertKeeps
<1>10. /\ tx'.alias[Home(b[pos].paper)] = id
       /\ KeptAt(tx'.links[s], id, pos, b[pos].score)
  <2> DEFINE key == Home(b[pos].paper)
             new == tx'.links[s][id]
  <2>1. Raw(s) = b[pos].paper
    BY DEF Raw, b
  <2>2. key \in Key
    BY <1>6, EntryType, HomeType
  <2>3. HasKey(Stored(s, id), key)
    BY <1>1, <1>2, <2>1, StoredIsFound
  <2>4. tx'.alias[key] = id
    <3> HIDE DEF key
    <3> QED
      BY <1>3, <2>2, <2>3 DEF Upsert
  <2>5. new = Join(tx.links[s][id], link)
    BY <1>3, <1>4 DEF Upsert, Tables
  <2>6. tx.links[s][id] \in Maybe(Link) /\ link \in Maybe(Link) /\ link # None
    BY <1>4, <1>7, NoneIsNoId DEF Tables, Maybe
  <2>7. new # None /\ new.pos <= link.pos /\ new.score >= link.score
    BY <2>5, <2>6, JoinKeeps
  <2> QED
    BY <1>7, <2>4, <2>7, NoneIsNoId DEF KeptAt
<1>11. Keeps(tx', s, b, pos)
  <2>1. \A m \in 1..pos : m = pos \/ m \in 1..(pos - 1)
    BY <1>6
  <2> QED
    BY <1>9, <1>10, <2>1 DEF Keeps
<1>12. Earned(tx', s, b, pos)
  <2>1. pos - 1 \in 0..Len(b) /\ pos \in 0..Len(b) /\ pos - 1 <= pos /\ pos \in 1..pos
    BY <1>6
  <2>2. Earned(tx, s, b, pos - 1)
    BY <1>1, NoneIsNoId DEF KeptInv, Settled, b
  <2>3. \E m \in 1..pos : /\ tx'.alias[Home(b[m].paper)] = id
                          /\ link.pos = m /\ link.score = b[m].score
    BY <1>7, <1>10, <2>1
  <2> QED
    BY <1>2, <1>3, <1>4, <1>6, <1>7, <2>1, <2>2, <2>3, UpsertEarned
<1>13. pos' - 1 = pos /\ pos' <= Len(b) + 1
  BY <1>3, <1>6
<1> QED
  BY <1>1, <1>3, <1>4, <1>8, <1>11, <1>12, <1>13 DEF KeptInv, Settled, b

LEMMA NextKept == IInv /\ KeptInv /\ [Next]_vars => KeptInv'
<1> SUFFICES ASSUME IInv, KeptInv, [Next]_vars PROVE KeptInv'
  OBVIOUS
<1>1. ASSUME NEW s \in ScanId, Search(s) PROVE KeptInv'
  <2>1. CASE Call(s)
    <3>1. \A r \in ScanId : calls[r] # "unused" => batch'[r] = batch[r]
      BY <2>1 DEF Call, CallWith, IInv, TypeOK
    <3> QED
      BY <2>1, <3>1, QuietKept DEF Call, CallWith
  <2>2. CASE Begin(s)
    BY <2>2, BeginKept
  <2>3. CASE BusyTimeout(s)
    BY <2>3, QuietKept DEF BusyTimeout
  <2>4. CASE Match(s)
    BY <2>4, MatchKept
  <2>5. CASE MergeDuplicate(s)
    BY <2>5, MergeDuplicateKept
  <2>6. CASE SkipDuplicate(s)
    BY <2>6, SkipDuplicateKept
  <2>7. CASE Store(s)
    BY <2>7, StoreKept
  <2>8. CASE Commit(s)
    BY <2>8, CommitKept
  <2>9. CASE Abort(s)
    BY <2>9, ReleaseKept DEF Abort, Release
  <2> QED
    BY <1>1, <2>1, <2>2, <2>3, <2>4, <2>5, <2>6, <2>7, <2>8, <2>9 DEF Search, Work
<1>2. CASE Crash
  BY <1>2, ReleaseKept DEF Crash, Die
<1>3. ASSUME NEW a \in AnalysisId, NEW p \in PaperId, SaveAnalysis(a, p) PROVE KeptInv'
  <2>1. tx = db /\ stage = "match"
    BY <1>3 DEF SaveAnalysis, IInv, Control
  <2> QED
    BY <1>3, <2>1, QuietKept DEF SaveAnalysis, InsertAnalysis
<1>4. CASE UNCHANGED vars
  BY <1>4, QuietKept DEF vars
<1> QED
  BY <1>1, <1>2, <1>3, <1>4 DEF Next

\* No merge makes a stored scan lose a record: by its strongest identifier each is
\* found for ever, among the papers that the scan shows, where the search had
\* ranked it or before (find_matches, enrich and the filters of save() leave a
\* record its DOI, or its arXiv id if it has no DOI).
THEOREM RecordsStay == Spec => []ScanKeepsItsRecords
<1>1. Init => KeptInv
  BY DEF Init, KeptInv, EmptyTables
<1>2. IInv /\ KeptInv => ScanKeepsItsRecords
  <2> SUFFICES ASSUME IInv, KeptInv, NEW s \in db.scans, NEW n \in 1..Len(batch[s]),
                      Identified(Prepare(batch[s][n].paper))
               PROVE  KeptAt(db.links[s], db.alias[Strongest(Prepare(batch[s][n].paper))],
                             n, batch[s][n].score)
    BY DEF ScanKeepsItsRecords, KeptAt
  <2>1. batch[s] \in Seq(Scored)
    BY BatchType DEF IInv, TypeOK, Tables
  <2>2. Home(batch[s][n].paper) = Strongest(Prepare(batch[s][n].paper))
    BY <2>1, EntryType, HomeType
  <2>3. Keeps(db, s, batch[s], Len(batch[s]))
    BY DEF KeptInv, Settled
  <2> QED
    BY <2>2, <2>3 DEF Keeps
<1>3. IInv /\ KeptInv /\ [Next]_vars => KeptInv'
  BY NextKept
<1> QED
  BY Inductive, <1>1, <1>2, <1>3, PTL DEF Spec

\* A link of one of two scans with the same records is a link of the other, no further
\* down and with no lower a score.
LEMMA SameRecordsSameLinks ==
    ASSUME IInv, KeptInv, NEW r \in db.scans, NEW s \in db.scans, batch[r] = batch[s],
           NEW p \in PaperId, db.links[r][p] # None
    PROVE  /\ db.links[s][p] # None
           /\ db.links[s][p].pos <= db.links[r][p].pos
           /\ db.links[s][p].score >= db.links[r][p].score
<1>1. Keeps(db, s, batch[r], Len(batch[r])) /\ Earned(db, r, batch[r], Len(batch[r]))
  BY DEF KeptInv, Settled
<1>2. PICK m \in 1..Len(batch[r]) : /\ db.alias[Home(batch[r][m].paper)] = p
                                    /\ db.links[r][p].pos = m
  BY <1>1 DEF Earned
<1>3. PICK l \in 1..Len(batch[r]) : /\ db.alias[Home(batch[r][l].paper)] = p
                                    /\ db.links[r][p].score = batch[r][l].score
  BY <1>1 DEF Earned
<1>4. /\ KeptAt(db.links[s], p, m, batch[r][m].score)
      /\ KeptAt(db.links[s], p, l, batch[r][l].score)
  BY <1>1, <1>2, <1>3 DEF Keeps
<1> QED
  BY <1>2, <1>3, <1>4 DEF KeptAt

\* Two scans of the same list of records are one and the same for every reader, however
\* far apart they were saved and whatever was merged before, between and after: what a
\* scan shows depends on its records and on the keys alone (save, _reparent).
THEOREM RepeatsAgree == Spec => []RepeatShowsTheSame
<1>1. Init => KeptInv
  BY DEF Init, KeptInv, EmptyTables
<1>2. IInv /\ KeptInv => RepeatShowsTheSame
  <2> SUFFICES ASSUME IInv, KeptInv, NEW r \in db.scans, NEW s \in db.scans,
                      batch[r] = batch[s]
               PROVE  db.links[r] = db.links[s]
    BY DEF RepeatShowsTheSame
  <2> DEFINE one == db.links[r]
             two == db.links[s]
  <2>1. one \in [PaperId -> Maybe(Link)] /\ two \in [PaperId -> Maybe(Link)]
    BY DEF IInv, TypeOK, Tables
  <2>2. \A p \in PaperId : one[p] # None =>
           two[p] # None /\ two[p].pos <= one[p].pos /\ two[p].score >= one[p].score
    BY SameRecordsSameLinks
  <2>3. \A p \in PaperId : two[p] # None =>
           one[p] # None /\ one[p].pos <= two[p].pos /\ one[p].score >= two[p].score
    BY SameRecordsSameLinks
  <2> HIDE DEF one, two
  <2>4. ASSUME NEW p \in PaperId PROVE one[p] = two[p]
    <3>1. CASE one[p] = None
      BY <2>3, <3>1
    <3>2. CASE one[p] # None
      <4>1. one[p] \in Link /\ two[p] \in Link
        BY <2>1, <2>2, <3>2 DEF Maybe
      <4>2. one[p].pos = two[p].pos /\ one[p].score = two[p].score
        BY <2>2, <2>3, <3>2, <4>1 DEF Link
      <4> QED
        BY <4>1, <4>2 DEF Link
    <3> QED
      BY <3>1, <3>2
  <2>5. one = two
    BY <2>1, <2>4
  <2> QED
    BY <2>5 DEF one, two
<1>3. IInv /\ KeptInv /\ [Next]_vars => KeptInv'
  BY NextKept
<1> QED
  BY Inductive, <1>1, <1>2, <1>3, PTL DEF Spec

-----------------------------------------------------------------------------
(* The papers of a record's other identifiers.                              *)

\* The row of a paper, or its record in memory as long as its row is not written.
RowOf == [p \in PaperId |-> IF stage = "merge" /\ p = cur.id THEN cur.paper ELSE tx.papers[p]]

\* Some strong identifier tells two papers apart.
Contradict(paper, other) == ~Compatible(paper, other, "provider")

\* A key of a record finds the paper that its strongest key finds; or one that cannot
\* be united with that paper or the record; or nothing yet, as an arXiv id that this
\* paper did not take because it had one.
KeyApart(alias, rows, raw, key) ==
    LET own == alias[Strongest(Prepare(raw))]
        other == alias[key]
    IN  \/ other = own
        \/ other = None /\ key[1] = "arxiv" /\ rows[own].arxiv \notin {None, key[2]}
        \/ other # None /\ (Contradict(rows[own], rows[other])
                             \/ Contradict(Prepare(raw), rows[other]))

RecordApart(alias, rows, raw) ==
    Identified(Prepare(raw)) =>
        /\ alias[Strongest(Prepare(raw))] # None
        /\ \A m \in DOMAIN LookupKeys(raw) : KeyApart(alias, rows, raw, LookupKeys(raw)[m])

Distinct(alias, rows, b, n) == \A m \in 1..n : RecordApart(alias, rows, b[m].paper)

\* What a key of the record at hand finds is the canonical paper, or will be absorbed
\* by it or skipped, or cannot be united with it or the record.
OthersAtHand ==
    \A m \in DOMAIN LookupKeys(Raw(holder)) :
        LET other == tx.alias[LookupKeys(Raw(holder))[m]]
        IN  \/ other \in {None, cur.id} \cup cur.pending
            \/ Contradict(cur.paper, tx.papers[other])
            \/ Contradict(Prepare(Raw(holder)), tx.papers[other])

ApartInv ==
    /\ \A s \in db.scans : Distinct(db.alias, db.papers, batch[s], Len(batch[s]))
    /\ \A s \in tx.scans : s # holder => Distinct(tx.alias, RowOf, batch[s], Len(batch[s]))
    /\ holder # None => Distinct(tx.alias, RowOf, batch[holder], pos - 1)
    /\ stage = "merge" => OthersAtHand

\* What the one record says of the strong identifiers, the other says too.
Dominates(paper, other) ==
    /\ other.doi # None => paper.doi = other.doi
    /\ other.arxiv # None => paper.arxiv = other.arxiv

LEMMA ContradictStays ==
    ASSUME NEW a, NEW b, NEW c, NEW d, Contradict(a, b), Dominates(c, a), Dominates(d, b)
    PROVE  Contradict(c, d)
BY DEF Contradict, Compatible, Differ, Dominates

LEMMA EnrichDominates ==
    ASSUME NEW a, NEW b
    PROVE  /\ Dominates(Enrich(a, b), a)
           /\ Compatible(a, b, "provider") => Dominates(Enrich(a, b), b)
BY DEF Compatible, Differ, Dominates, Enrich, FirstKnown

\* Papers stay apart if each key keeps its paper, two keys of one paper stay together,
\* the records only gain identifiers, and a key is given only to a paper that has it.
LEMMA RecordStaysApart ==
    ASSUME NEW raw \in RawPaper, NEW alias, NEW rows, NEW alias2, NEW rows2,
           \A k \in Key : alias[k] # None =>
              alias2[k] # None /\ Dominates(rows2[alias2[k]], rows[alias[k]]),
           \A k, l \in Key : alias[k] = alias[l] /\ alias[k] # None => alias2[k] = alias2[l],
           \A k \in Key : alias[k] = None /\ alias2[k] # None => HasKey(rows2[alias2[k]], k),
           RecordApart(alias, rows, raw)
    PROVE  RecordApart(alias2, rows2, raw)
<1> SUFFICES ASSUME Identified(Prepare(raw)) PROVE RecordApart(alias2, rows2, raw)
  BY DEF RecordApart
<1> DEFINE strong == Strongest(Prepare(raw))
<1>1. strong \in Key /\ alias[strong] # None
  BY PrepareType, StrongestType DEF RecordApart
<1>2. alias2[strong] # None /\ Dominates(rows2[alias2[strong]], rows[alias[strong]])
  BY <1>1
<1>3. ASSUME NEW m \in DOMAIN LookupKeys(raw)
      PROVE  KeyApart(alias2, rows2, raw, LookupKeys(raw)[m])
  <2> DEFINE key == LookupKeys(raw)[m]
  <2>1. key \in Key
    BY LookupsAreOwn
  <2>2. KeyApart(alias, rows, raw, key)
    BY DEF RecordApart
  <2> HIDE DEF key
  <2>3. KeyApart(alias2, rows2, raw, key)
    <3>1. CASE alias[key] = alias[strong]
      BY <1>1, <2>1, <3>1 DEF KeyApart
    <3>2. CASE /\ alias[key] = None /\ key[1] = "arxiv"
               /\ rows[alias[strong]].arxiv \notin {None, key[2]}
      <4>1. rows2[alias2[strong]].arxiv = rows[alias[strong]].arxiv
        BY <1>2, <3>2 DEF Dominates
      <4>2. key[2] # None
        BY <2>1, <3>2, NoneIsNoValue DEF Key
      <4>3. alias2[key] # None => rows2[alias2[key]].arxiv = key[2]
        BY <2>1, <3>2 DEF HasKey
      <4>4. alias2[key] # None => Contradict(rows2[alias2[strong]], rows2[alias2[key]])
        BY <3>2, <4>1, <4>2, <4>3 DEF Contradict, Compatible, Differ
      <4> QED
        BY <3>2, <4>1, <4>4 DEF KeyApart
    <3>3. CASE /\ alias[key] # None
               /\ \/ Contradict(rows[alias[strong]], rows[alias[key]])
                  \/ Contradict(Prepare(raw), rows[alias[key]])
      <4>1. alias2[key] # None /\ Dominates(rows2[alias2[key]], rows[alias[key]])
        BY <2>1, <3>3
      <4>2. Dominates(Prepare(raw), Prepare(raw))
        BY DEF Dominates
      <4>3. \/ Contradict(rows2[alias2[strong]], rows2[alias2[key]])
            \/ Contradict(Prepare(raw), rows2[alias2[key]])
        BY <1>2, <3>3, <4>1, <4>2, ContradictStays
      <4> QED
        BY <4>1, <4>3 DEF KeyApart
    <3> QED
      BY <2>2, <3>1, <3>2, <3>3 DEF KeyApart
  <2> QED
    BY <2>3 DEF key
<1> QED
  BY <1>2, <1>3 DEF RecordApart

LEMMA DistinctStays ==
    ASSUME NEW b \in Seq(Scored), NEW n \in 0..Len(b),
           NEW alias, NEW rows, NEW alias2, NEW rows2,
           \A k \in Key : alias[k] # None =>
              alias2[k] # None /\ Dominates(rows2[alias2[k]], rows[alias[k]]),
           \A k, l \in Key : alias[k] = alias[l] /\ alias[k] # None => alias2[k] = alias2[l],
           \A k \in Key : alias[k] = None /\ alias2[k] # None => HasKey(rows2[alias2[k]], k),
           Distinct(alias, rows, b, n)
    PROVE  Distinct(alias2, rows2, b, n)
<1> SUFFICES ASSUME NEW m \in 1..n PROVE RecordApart(alias2, rows2, b[m].paper)
  BY DEF Distinct
<1>1. m \in 1..Len(b)
  OBVIOUS
<1>2. b[m].paper \in RawPaper
  BY <1>1, EntryType
<1>3. RecordApart(alias, rows, b[m].paper)
  BY DEF Distinct
<1> QED
  BY <1>2, <1>3, RecordStaysApart

\* Steps that change no key and no record leave every paper where it is: Call, Begin,
\* BusyTimeout, Match, SkipDuplicate, SaveAnalysis.
LEMMA QuietApart ==
    ASSUME IInv, ApartInv, \A s \in ScanId : calls[s] # "unused" => batch'[s] = batch[s],
           db'.scans = db.scans, db'.papers = db.papers, db'.alias = db.alias,
           tx'.scans = tx.scans, tx'.alias = tx.alias, RowOf' = RowOf,
           UNCHANGED <<holder, pos>>,
           stage' = "merge" => OthersAtHand'
    PROVE  ApartInv'
<1>1. /\ \A s \in db.scans \cup tx.scans : batch'[s] = batch[s]
      /\ holder # None => holder \in ScanId /\ batch'[holder] = batch[holder]
  BY BegunBatchesFixed
<1> DEFINE rows == RowOf
<1>2. RowOf' = rows
  OBVIOUS
<1> HIDE DEF rows
<1>3. /\ \A s \in db.scans : Distinct(db.alias, db.papers, batch[s], Len(batch[s]))
      /\ \A s \in tx.scans : s # holder => Distinct(tx.alias, rows, batch[s], Len(batch[s]))
      /\ holder # None => Distinct(tx.alias, rows, batch[holder], pos - 1)
  BY DEF ApartInv, rows
<1>4. \A s \in db.scans : Distinct(db.alias, db.papers, batch[s], Len(batch[s]))'
  <2>1. \A s \in db.scans : Distinct(db'.alias, db'.papers, batch'[s], Len(batch'[s]))
    BY <1>1, <1>3
  <2> QED
    BY <2>1 DEF Distinct
<1>5. \A s \in tx'.scans : s # holder' => Distinct(tx'.alias, RowOf', batch'[s], Len(batch'[s]))
  BY <1>1, <1>2, <1>3
<1>6. holder' # None => Distinct(tx'.alias, RowOf', batch'[holder'], pos' - 1)
  BY <1>1, <1>2, <1>3
<1> QED
  BY <1>4, <1>5, <1>6 DEF ApartInv

\* Between records the rows are those of the table.
LEMMA RowsBetween ==
    ASSUME TypeOK, stage = "match"
    PROVE  RowOf = tx.papers
BY DEF TypeOK, Tables, RowOf

LEMMA ReleaseApart ==
    ASSUME TypeOK', ApartInv, UNCHANGED <<db, batch>>, tx' = db, holder' = None, stage' = "match"
    PROVE  ApartInv'
<1>1. RowOf' = db.papers
  BY DEF TypeOK, Tables, RowOf
<1> QED
  BY <1>1 DEF ApartInv

LEMMA BeginApart ==
    ASSUME IInv, IInv', ApartInv, NEW s \in ScanId, Begin(s)
    PROVE  ApartInv'
<1>1. /\ holder = None /\ holder' = s /\ tx' = InsertScan(db, s) /\ pos' = 1
      /\ stage' = "match" /\ UNCHANGED <<db, batch>>
  BY DEF Begin
<1>2. tx'.scans = db.scans \cup {s} /\ tx'.papers = db.papers /\ tx'.alias = db.alias
  BY <1>1 DEF InsertScan
<1>3. RowOf' = db.papers
  BY <1>1, <1>2 DEF IInv, TypeOK, Tables, RowOf
<1>4. \A r \in db.scans : Distinct(tx'.alias, RowOf', batch[r], Len(batch[r]))
  BY <1>2, <1>3 DEF ApartInv
<1>5. Distinct(tx'.alias, RowOf', batch[s], 0)
  BY DEF Distinct
<1> QED
  BY <1>1, <1>2, <1>4, <1>5 DEF ApartInv

LEMMA CommitApart ==
    ASSUME IInv, ApartInv, NEW s \in ScanId, Commit(s)
    PROVE  ApartInv'
<1>1. /\ holder = s /\ stage = "match" /\ db' = tx /\ tx' = tx /\ holder' = None
      /\ pos > Len(batch[s]) /\ UNCHANGED <<batch, stage>>
  BY DEF Commit
<1>2. RowOf = tx.papers /\ RowOf' = tx.papers
  BY <1>1 DEF IInv, TypeOK, Tables, RowOf
<1>3. pos \in Nat /\ Len(batch[s]) \in Nat
  BY BatchType DEF IInv, TypeOK
<1>4. Distinct(tx.alias, tx.papers, batch[s], pos - 1)
  BY <1>1, <1>2, NoneIsNoId DEF ApartInv
<1>5. Distinct(tx.alias, tx.papers, batch[s], Len(batch[s]))
  <2>1. \A m \in 1..Len(batch[s]) : m \in 1..(pos - 1)
    BY <1>1, <1>3
  <2> QED
    BY <1>4, <2>1 DEF Distinct
<1>6. \A r \in tx.scans : Distinct(tx.alias, tx.papers, batch[r], Len(batch[r]))
  BY <1>1, <1>2, <1>5 DEF ApartInv
<1> QED
  BY <1>1, <1>2, <1>6 DEF ApartInv

\* A key of the record either finds a match, or a paper that compatible() refuses.
LEMMA MatchApart ==
    ASSUME IInv, ApartInv, NEW s \in ScanId, Match(s)
    PROVE  ApartInv'
<1> DEFINE raw == Raw(s)
           incoming == Prepare(raw)
           matches == FindMatches(tx, raw)
<1>1. /\ holder = s /\ stage = "match" /\ pos <= Len(batch[s])
      /\ UNCHANGED <<db, tx, holder, batch, pos>>
  BY DEF Match
<1>2. \/ /\ matches = {}
         /\ cur' = [id |-> None, paper |-> incoming, pending |-> {}]
      \/ \E p \in matches :
            cur' = [id |-> p, paper |-> tx.papers[p], pending |-> matches \ {p}]
  BY DEF Match
<1>3. tx \in Tables /\ RowOf = tx.papers
  BY <1>1, RowsBetween DEF IInv, TypeOK
<1>4. RowOf' = tx.papers
  BY <1>1, <1>2, <1>3, NoneIsNoId DEF RowOf, Tables
<1>5. ASSUME NEW m \in DOMAIN LookupKeys(raw)
      PROVE  LET other == tx.alias[LookupKeys(raw)[m]]
             IN  other \in {None} \cup matches \/ Contradict(incoming, tx.papers[other])
  <2> DEFINE key == LookupKeys(raw)[m]
             other == tx.alias[key]
  <2>1. CASE other # None /\ Compatible(tx.papers[other], incoming, key[1])
    <3>1. Hit(tx, raw, m) = other
      BY <2>1 DEF Hit
    <3> QED
      BY <2>1, <3>1 DEF Hits, FindMatches
  <2>2. CASE ~Compatible(tx.papers[other], incoming, key[1])
    BY <2>2 DEF Compatible, Contradict, Differ
  <2> QED
    BY <2>1, <2>2
<1>6. Raw(holder)' = raw
  BY <1>1 DEF Raw
<1>7. {None} \cup matches \subseteq {None, cur'.id} \cup cur'.pending
  BY <1>2
<1>8. OthersAtHand'
  BY <1>1, <1>5, <1>6, <1>7 DEF OthersAtHand
<1> QED
  BY <1>1, <1>3, <1>4, <1>8, QuietApart

LEMMA SkipDuplicateApart ==
    ASSUME IInv, ApartInv, NEW s \in ScanId, SkipDuplicate(s)
    PROVE  ApartInv'
<1>1. holder = s /\ stage = "merge" /\ UNCHANGED <<db, tx, holder, batch, pos, stage>>
  BY DEF SkipDuplicate
<1>2. PICK q \in cur.pending :
         /\ ~Compatible(cur.paper, tx.papers[q], "provider")
         /\ cur' = [id |-> cur.id, paper |-> cur.paper, pending |-> cur.pending \ {q}]
  BY DEF SkipDuplicate
<1>3. RowOf' = RowOf
  BY <1>1, <1>2 DEF RowOf
<1>4. Raw(holder)' = Raw(holder)
  BY <1>1 DEF Raw
<1>5. OthersAtHand'
  BY <1>1, <1>2, <1>4 DEF ApartInv, OthersAtHand, Contradict
<1> QED
  BY <1>1, <1>3, <1>5, QuietApart

LEMMA MergeDuplicateApart ==
    ASSUME IInv, ApartInv, NEW s \in ScanId, MergeDuplicate(s)
    PROVE  ApartInv'
<1>1. holder = s /\ stage = "merge" /\ UNCHANGED <<db, holder, batch, pos, stage>>
  BY DEF MergeDuplicate
<1>2. PICK q \in cur.pending :
         /\ IsFirst(tx, Raw(s), cur.pending, q)
         /\ Compatible(cur.paper, tx.papers[q], "provider")
         /\ cur' = [id |-> cur.id, paper |-> Enrich(cur.paper, tx.papers[q]),
                    pending |-> cur.pending \ {q}]
         /\ tx' = Reparent(tx, q, cur.id)
  BY DEF MergeDuplicate
<1> DEFINE id == cur.id
           paper == cur.paper
           grown == Enrich(cur.paper, tx.papers[q])
           alias == tx.alias
           alias2 == tx'.alias
           rows == RowOf
           rows2 == RowOf'
<1>3. id \in PaperId /\ q \in PaperId /\ q # id
  BY <1>1, <1>2, Duplicate
<1>4. tx \in Tables /\ cur \in Locals /\ tx'.scans = tx.scans
  BY <1>2 DEF IInv, TypeOK, Reparent
<1>5. \A r \in tx.scans : r \in ScanId
  BY <1>4 DEF Tables
<1>6. Dominates(grown, paper) /\ Dominates(grown, tx.papers[q])
  BY <1>2, EnrichDominates
<1>7. \A k \in Key : alias2[k] = Moved(alias[k], q, id) /\ alias[k] \in Maybe(PaperId)
  BY <1>2, <1>4 DEF Reparent, Tables
<1>8. \A p \in PaperId : rows[p] = IF p = id THEN paper ELSE tx.papers[p]
  BY <1>1 DEF RowOf
<1>9. \A p \in PaperId : p # q => rows2[p] = IF p = id THEN grown ELSE tx.papers[p]
  <2>1. \A p \in PaperId : p # q => tx'.papers[p] = tx.papers[p]
    BY <1>2, <1>4 DEF Reparent, Tables
  <2> QED
    BY <1>1, <1>2, <2>1 DEF RowOf
<1> HIDE DEF id, paper, grown, alias, alias2, rows, rows2
<1>10. \A x : Dominates(x, x)
  BY DEF Dominates
<1>11. \A k \in Key : alias[k] # None =>
           alias2[k] # None /\ Dominates(rows2[alias2[k]], rows[alias[k]])
  <2> TAKE k \in Key
  <2> HAVE alias[k] # None
  <2>1. alias[k] \in PaperId
    BY <1>7 DEF Maybe
  <2>2. CASE alias[k] = q
    <3>1. alias2[k] = id /\ rows2[id] = grown /\ rows[q] = tx.papers[q]
      BY <1>3, <1>7, <1>8, <1>9, <2>2 DEF Moved
    <3> QED
      BY <1>3, <1>6, <2>2, <3>1, NoneIsNoId
  <2>3. CASE alias[k] = id
    <3>1. alias2[k] = id /\ rows2[id] = grown /\ rows[id] = paper
      BY <1>3, <1>7, <1>8, <1>9, <2>3 DEF Moved
    <3> QED
      BY <1>3, <1>6, <2>3, <3>1, NoneIsNoId
  <2>4. CASE alias[k] \notin {q, id}
    <3>1. alias2[k] = alias[k] /\ rows2[alias[k]] = rows[alias[k]]
      BY <1>7, <1>8, <1>9, <2>1, <2>4 DEF Moved
    <3> QED
      BY <1>10, <3>1
  <2> QED
    BY <2>2, <2>3, <2>4
<1>12. \A k, l \in Key : alias[k] = alias[l] /\ alias[k] # None => alias2[k] = alias2[l]
  BY <1>7
<1>13. \A k \in Key : alias[k] = None /\ alias2[k] # None => HasKey(rows2[alias2[k]], k)
  BY <1>3, <1>7, NoneIsNoId DEF Moved
<1>14. \A r \in tx.scans : r # s => Distinct(alias2, rows2, batch[r], Len(batch[r]))
  <2> TAKE r \in tx.scans
  <2> HAVE r # s
  <2>1. batch[r] \in Seq(Scored)
    BY <1>5, BatchType
  <2>2. Len(batch[r]) \in 0..Len(batch[r])
    BY <2>1
  <2>3. Distinct(alias, rows, batch[r], Len(batch[r]))
    BY <1>1 DEF ApartInv, alias, rows
  <2> QED
    BY <1>11, <1>12, <1>13, <2>1, <2>2, <2>3, DistinctStays
<1>15. Distinct(alias2, rows2, batch[s], pos - 1)
  <2>1. batch[s] \in Seq(Scored) /\ pos \in 1..Len(batch[s])
    BY <1>1, BatchAtHand
  <2>2. pos - 1 \in 0..Len(batch[s])
    BY <2>1
  <2>3. Distinct(alias, rows, batch[s], pos - 1)
    BY <1>1, NoneIsNoId DEF ApartInv, alias, rows
  <2> QED
    BY <1>11, <1>12, <1>13, <2>1, <2>2, <2>3, DistinctStays
<1>16. OthersAtHand'
  <2>1. Raw(holder)' = Raw(s) /\ Raw(s) \in RawPaper
    BY <1>1, RecordType DEF Raw, IInv, Control
  <2>2. ASSUME NEW m \in DOMAIN LookupKeys(Raw(s))
        PROVE  LET other == alias2[LookupKeys(Raw(s))[m]]
               IN  \/ other \in {None, id} \cup (cur.pending \ {q})
                   \/ Contradict(grown, tx'.papers[other])
                   \/ Contradict(Prepare(Raw(s)), tx'.papers[other])
    <3> DEFINE key == LookupKeys(Raw(s))[m]
    <3>1. key \in Key
      BY <2>1, LookupsAreOwn
    <3>2. \/ alias[key] \in {None, id} \cup cur.pending
          \/ Contradict(paper, tx.papers[alias[key]])
          \/ Contradict(Prepare(Raw(s)), tx.papers[alias[key]])
      BY <1>1 DEF ApartInv, OthersAtHand, alias, id, paper
    <3> HIDE DEF key
    <3>3. \/ alias2[key] \in {None, id} \cup (cur.pending \ {q})
          \/ Contradict(grown, tx'.papers[alias2[key]])
          \/ Contradict(Prepare(Raw(s)), tx'.papers[alias2[key]])
      <4>1. CASE alias[key] = q
        BY <1>7, <3>1, <4>1 DEF Moved
      <4>2. CASE alias[key] # q
        <5>1. alias2[key] = alias[key] /\ alias[key] \in Maybe(PaperId)
          BY <1>7, <3>1, <4>2 DEF Moved
        <5>2. alias[key] # None => tx'.papers[alias[key]] = tx.papers[alias[key]]
          BY <1>2, <1>4, <4>2, <5>1 DEF Reparent, Tables, Maybe
        <5>3. Contradict(paper, tx.papers[alias[key]]) => Contradict(grown, tx.papers[alias[key]])
          BY <1>6, <1>10, ContradictStays
        <5> QED
          BY <3>2, <4>2, <5>1, <5>2, <5>3
      <4> QED
        BY <4>1, <4>2
    <3> QED
      BY <3>3 DEF key
  <2>3. cur'.id = id /\ cur'.paper = grown /\ cur'.pending = cur.pending \ {q}
    BY <1>2 DEF id, grown
  <2> QED
    BY <2>1, <2>2, <2>3 DEF OthersAtHand, alias2
<1>17. \A r \in db.scans : Distinct(db.alias, db.papers, batch[r], Len(batch[r]))
  BY DEF ApartInv
<1> QED
  BY <1>1, <1>4, <1>14, <1>15, <1>16, <1>17 DEF ApartInv, alias2, rows2

\* The record that is written keeps the strong identifiers of the record in memory:
\* what the canonical paper has, it owns, and its own identifiers are not dropped.
LEMMA StoredDominates ==
    ASSUME IInv, NEW s \in ScanId, holder = s, stage = "merge", cur.id # None,
           cur.id \in PaperId, cur.paper \in Paper
    PROVE  Dominates(Stored(s, cur.id), cur.paper)
<1> DEFINE merged == Enrich(cur.paper, Prepare(Raw(s)))
<1>1. Stored(s, cur.id) = DropForeign(tx, cur.id, merged)
  BY DEF Stored
<1>2. Dominates(merged, cur.paper)
  BY EnrichDominates
<1>3. cur.paper.arxiv # None => tx.alias[<<"arxiv", cur.paper.arxiv>>] = cur.id
  <2> DEFINE key == <<"arxiv", cur.paper.arxiv>>
  <2> SUFFICES ASSUME cur.paper.arxiv # None PROVE tx.alias[key] = cur.id
    OBVIOUS
  <2>1. key \in Key /\ key[1] # "provider" /\ HasKey(cur.paper, key)
    BY DEF Paper, Maybe, Key, HasKey
  <2> HIDE DEF key
  <2> QED
    BY <2>1 DEF IInv, Index, IndexedBut
<1> HIDE DEF merged
<1> QED
  BY <1>1, <1>2, <1>3 DEF Dominates, DropForeign

\* An identifier of the record at hand that the written paper does not take is a
\* paper's already, or is an arXiv id and the written paper has another one.
LEMMA NotTaken ==
    ASSUME IInv, KeptInv, NEW s \in ScanId, holder = s, stage = "merge", cur.pending = {},
           NEW id \in PaperId, Target(id), NEW key \in Key, HasKey(Prepare(Raw(s)), key),
           ~HasKey(Stored(s, id), key), tx.alias[key] = None
    PROVE  key[1] = "arxiv" /\ Stored(s, id).arxiv \notin {None, key[2]}
<1> DEFINE incoming == Prepare(Raw(s))
           merged == IF cur.id = None THEN cur.paper ELSE Enrich(cur.paper, incoming)
<1>1. Stored(s, id) = DropForeign(tx, id, merged)
  BY DEF Stored
<1>2. incoming \in Paper
  BY RecordType, PrepareType DEF IInv, Control
<1>3. cur.id = None => merged = incoming
  BY DEF IInv, Record
<1>4. cur.id # None => id = cur.id /\ cur.paper \in Paper
  BY DEF IInv, TypeOK, Record, Locals, Maybe, Target
<1>5. cur.id # None => Dominates(Stored(s, id), cur.paper)
  BY <1>4, StoredDominates
<1>6. Agrees(cur.paper, incoming)
  BY DEF KeptInv, HomeAtHand
<1>7. cur.id # None => merged = Enrich(cur.paper, incoming)
  OBVIOUS
<1> HIDE DEF incoming, merged
<1>8. HasKey(incoming, key)
  BY DEF incoming
<1>9. CASE key \in {"doi"} \X Doi
  <2>1. incoming.doi = key[2] /\ key[2] # None
    BY <1>8, <1>9, NoneIsNoValue DEF HasKey
  <2>2. merged.doi = key[2]
    BY <1>3, <1>6, <1>7, <2>1 DEF Agrees, Differ, Enrich, FirstKnown
  <2> QED
    BY <1>1, <1>9, <2>2 DEF HasKey, DropForeign
<1>10. CASE key \in {"provider"} \X ProviderKey
  <2>1. key = <<"provider", key[2]>> /\ key[2] \in incoming.aliases
    BY <1>8, <1>10 DEF HasKey
  <2>2. key[2] \in merged.aliases
    BY <1>3, <1>7, <2>1 DEF Enrich
  <2>3. key[2] \in DropForeign(tx, id, merged).aliases
    BY <2>1, <2>2 DEF DropForeign
  <2> QED
    BY <1>1, <2>1, <2>3 DEF HasKey
<1>11. CASE key \in {"arxiv"} \X ArxivId
  <2>1. key = <<"arxiv", key[2]>> /\ incoming.arxiv = key[2] /\ key[2] # None
    BY <1>8, <1>11, NoneIsNoValue DEF HasKey
  <2>2. merged.arxiv # key[2]
    <3> SUFFICES ASSUME merged.arxiv = key[2] PROVE FALSE
      OBVIOUS
    <3>1. tx.alias[<<"arxiv", merged.arxiv>>] = None
      BY <2>1
    <3>2. DropForeign(tx, id, merged).arxiv = merged.arxiv
      BY <3>1 DEF DropForeign
    <3> QED
      BY <1>1, <2>1, <3>2 DEF HasKey
  <2>3. cur.id # None /\ merged.arxiv = cur.paper.arxiv /\ cur.paper.arxiv # None
    BY <1>3, <1>7, <2>1, <2>2 DEF Enrich, FirstKnown
  <2>4. Stored(s, id).arxiv = cur.paper.arxiv
    BY <1>5, <2>3 DEF Dominates
  <2> QED
    BY <2>1, <2>2, <2>3, <2>4
<1> QED
  BY <1>9, <1>10, <1>11 DEF Key

LEMMA StoreApart ==
    ASSUME IInv, KeptInv, ApartInv, NEW s \in ScanId, Store(s)
    PROVE  ApartInv'
<1> DEFINE b == batch[s]
           alias == tx.alias
           alias2 == tx'.alias
           rows == RowOf
           rows2 == RowOf'
<1>1. holder = s /\ stage = "merge" /\ cur.pending = {}
  BY DEF Store
<1>2. PICK id \in PaperId :
         /\ Target(id) /\ ~Conflicts(tx, id, Stored(s, id)) /\ Stored(s, id) \in Paper
         /\ Write(s, id)
  BY StoreWrites
<1> DEFINE paper == Stored(s, id)
<1>3. /\ \E link : tx' = Upsert(tx, id, paper, stamp[s], s, link)
      /\ pos' = pos + 1 /\ stage' = "match" /\ UNCHANGED <<db, holder, batch>>
  BY <1>2 DEF Write
<1>4. tx \in Tables /\ cur \in Locals /\ tx'.scans = tx.scans
  BY <1>3 DEF IInv, TypeOK, Upsert
<1>5. \A r \in tx.scans : r \in ScanId
  BY <1>4 DEF Tables
<1>6. \A k \in Key : alias[k] \in Maybe(PaperId)
                       /\ alias2[k] = IF HasKey(paper, k) THEN id ELSE alias[k]
  BY <1>3, <1>4 DEF Upsert, Tables
<1>7. \A p \in PaperId : rows2[p] = IF p = id THEN paper ELSE tx.papers[p]
  <2>1. \A p \in PaperId : tx'.papers[p] = IF p = id THEN paper ELSE tx.papers[p]
    BY <1>3, <1>4 DEF Upsert, Tables
  <2> QED
    BY <1>3, <2>1 DEF RowOf
<1>8. \A p \in PaperId : rows[p] = IF p = cur.id THEN cur.paper ELSE tx.papers[p]
  BY <1>1 DEF RowOf
<1>9. \A k \in Key : HasKey(paper, k) => alias[k] \in {None, id}
  BY <1>2 DEF Conflicts
<1>10. cur.id # None => id = cur.id /\ cur.paper \in Paper
  BY <1>1, <1>2 DEF IInv, TypeOK, Record, Locals, Maybe, Target
<1>11. cur.id = None => cur.paper = Prepare(Raw(s)) /\ \A k \in Key : alias[k] # id
  <2> HAVE cur.id = None
  <2>1. cur.paper = Prepare(Raw(s)) /\ tx.papers[id] = None
    BY <1>1, <1>2 DEF IInv, Record, Target, Fresh
  <2>2. \A k \in Key : tx.alias[k] # None => tx.papers[tx.alias[k]] # None
    BY DEF IInv, Whole, ForeignKeys
  <2> QED
    BY <2>1, <2>2, NoneIsNoId
<1>12. cur.id # None => Dominates(paper, cur.paper)
  BY <1>1, <1>10, StoredDominates
<1>13. \A x : Dominates(x, x)
  BY DEF Dominates
<1> HIDE DEF b, alias, alias2, rows, rows2, paper
<1>14. \A k \in Key : alias[k] # None =>
           alias2[k] # None /\ Dominates(rows2[alias2[k]], rows[alias[k]])
  <2> TAKE k \in Key
  <2> HAVE alias[k] # None
  <2>1. alias[k] \in PaperId /\ alias2[k] = alias[k]
    BY <1>6, <1>9 DEF Maybe
  <2>2. CASE alias[k] = id
    <3>1. cur.id = id
      BY <1>10, <1>11, <2>2
    <3>2. rows2[id] = paper /\ rows[id] = cur.paper
      BY <1>7, <1>8, <3>1
    <3> QED
      BY <1>12, <2>1, <2>2, <3>1, <3>2, NoneIsNoId
  <2>3. CASE alias[k] # id
    <3>1. alias[k] # cur.id
      BY <1>10, <2>1, <2>3, NoneIsNoId
    <3>2. rows2[alias[k]] = rows[alias[k]]
      BY <1>7, <1>8, <2>1, <2>3, <3>1
    <3> QED
      BY <1>13, <2>1, <3>2, NoneIsNoId
  <2> QED
    BY <2>2, <2>3
<1>15. \A k, l \in Key : alias[k] = alias[l] /\ alias[k] # None => alias2[k] = alias2[l]
  BY <1>6, <1>9
<1>16. \A k \in Key : alias[k] = None /\ alias2[k] # None => HasKey(rows2[alias2[k]], k)
  BY <1>6, <1>7
<1>17. \A r \in tx.scans : r # s => Distinct(alias2, rows2, batch[r], Len(batch[r]))
  <2> TAKE r \in tx.scans
  <2> HAVE r # s
  <2>1. batch[r] \in Seq(Scored)
    BY <1>5, BatchType
  <2>2. Len(batch[r]) \in 0..Len(batch[r])
    BY <2>1
  <2>3. Distinct(alias, rows, batch[r], Len(batch[r]))
    BY <1>1 DEF ApartInv, alias, rows
  <2> QED
    BY <1>14, <1>15, <1>16, <2>1, <2>2, <2>3, DistinctStays
<1>18. b \in Seq(Scored) /\ pos \in 1..Len(b)
  BY <1>1, BatchAtHand DEF b
<1>19. Distinct(alias2, rows2, b, pos - 1)
  <2>1. pos - 1 \in 0..Len(b)
    BY <1>18
  <2>2. Distinct(alias, rows, b, pos - 1)
    BY <1>1, NoneIsNoId DEF ApartInv, alias, rows, b
  <2> QED
    BY <1>14, <1>15, <1>16, <1>18, <2>1, <2>2, DistinctStays
<1>20. RecordApart(alias2, rows2, Raw(s))
  <2> SUFFICES ASSUME Identified(Prepare(Raw(s))) PROVE RecordApart(alias2, rows2, Raw(s))
    BY DEF RecordApart
  <2> DEFINE raw == Raw(s)
             strong == Strongest(Prepare(raw))
  <2>1. raw \in RawPaper
    BY <1>1, RecordType DEF IInv, Control
  <2>2. strong \in Key
    BY <2>1, PrepareType, StrongestType
  <2>3. HasKey(paper, strong)
    BY <1>1, <1>2, <2>1, HomeType, StoredIsFound DEF paper
  <2>4. alias2[strong] = id /\ rows2[id] = paper
    <3> HIDE DEF strong
    <3> QED
      BY <1>6, <1>7, <2>2, <2>3
  <2>5. ASSUME NEW m \in DOMAIN LookupKeys(raw)
        PROVE  KeyApart(alias2, rows2, raw, LookupKeys(raw)[m])
    <3> DEFINE key == LookupKeys(raw)[m]
    <3>1. key \in Key /\ HasKey(Prepare(raw), key)
      BY <2>1, LookupsAreOwn
    <3>2. \/ alias[key] \in {None, cur.id}
          \/ Contradict(cur.paper, tx.papers[alias[key]])
          \/ Contradict(Prepare(raw), tx.papers[alias[key]])
      BY <1>1 DEF ApartInv, OthersAtHand, alias
    <3> HIDE DEF key
    <3>3. KeyApart(alias2, rows2, raw, key)
      <4>1. CASE HasKey(paper, key)
        BY <1>6, <2>4, <3>1, <4>1 DEF KeyApart
      <4>2. CASE ~HasKey(paper, key) /\ alias[key] = None
        <5>1. key[1] = "arxiv" /\ paper.arxiv \notin {None, key[2]}
          BY <1>1, <1>2, <3>1, <4>2, NotTaken DEF paper, alias
        <5>2. alias2[key] = None
          BY <1>6, <3>1, <4>2
        <5> QED
          BY <2>4, <5>1, <5>2 DEF KeyApart
      <4>3. CASE ~HasKey(paper, key) /\ alias[key] # None
        <5>1. alias2[key] = alias[key] /\ alias[key] \in PaperId
          BY <1>6, <3>1, <4>3 DEF Maybe
        <5>2. CASE alias[key] = id
          BY <2>4, <5>1, <5>2 DEF KeyApart
        <5>3. CASE alias[key] # id
          <6>1. rows2[alias[key]] = tx.papers[alias[key]]
            BY <1>7, <5>1, <5>3
          <6>2. \/ Contradict(paper, tx.papers[alias[key]])
                \/ Contradict(Prepare(raw), tx.papers[alias[key]])
            <7>1. CASE cur.id = None
              BY <1>11, <3>2, <4>3, <7>1
            <7>2. CASE cur.id # None
              <8>1. Contradict(cur.paper, tx.papers[alias[key]])
                       => Contradict(paper, tx.papers[alias[key]])
                BY <1>12, <1>13, <7>2, ContradictStays
              <8> QED
                BY <1>10, <3>2, <4>3, <5>3, <7>2, <8>1
            <7> QED
              BY <7>1, <7>2
          <6> QED
            BY <2>4, <4>3, <5>1, <6>1, <6>2 DEF KeyApart
        <5> QED
          BY <5>2, <5>3
      <4> QED
        BY <4>1, <4>2, <4>3
    <3> QED
      BY <3>3 DEF key
  <2> QED
    BY <2>4, <2>5, NoneIsNoId DEF RecordApart
<1>21. Distinct(alias2, rows2, b, pos)
  <2>1. \A m \in 1..pos : m = pos \/ m \in 1..(pos - 1)
    BY <1>18
  <2>2. Raw(s) = b[pos].paper
    BY DEF Raw, b
  <2> QED
    BY <1>19, <1>20, <2>1, <2>2 DEF Distinct
<1>22. pos' - 1 = pos
  BY <1>3, <1>18
<1>23. \A r \in db.scans : Distinct(db.alias, db.papers, batch[r], Len(batch[r]))
  BY DEF ApartInv
<1> QED
  BY <1>1, <1>3, <1>4, <1>17, <1>21, <1>22, <1>23 DEF ApartInv, alias2, rows2, b

LEMMA NextApart == IInv /\ KeptInv /\ ApartInv /\ [Next]_vars => ApartInv'
<1> SUFFICES ASSUME IInv, KeptInv, ApartInv, [Next]_vars PROVE ApartInv'
  OBVIOUS
<1>1. IInv' /\ TypeOK'
  BY NextStep DEF IInv
<1>2. ASSUME UNCHANGED <<tx, stage, cur, holder, pos>>,
             holder # None => batch'[holder] = batch[holder]
      PROVE  RowOf' = RowOf /\ (stage' = "merge" => OthersAtHand')
  <2>1. RowOf' = RowOf
    BY <1>2 DEF RowOf
  <2>2. ASSUME stage' = "merge" PROVE OthersAtHand'
    <3>1. Raw(holder)' = Raw(holder)
      BY <1>2, <2>2 DEF Raw, IInv, Control
    <3> QED
      BY <1>2, <2>2, <3>1 DEF ApartInv, OthersAtHand
  <2> QED
    BY <2>1, <2>2
<1>3. ASSUME NEW s \in ScanId, Search(s) PROVE ApartInv'
  <2>1. CASE Call(s)
    <3>1. \A r \in ScanId : calls[r] # "unused" => batch'[r] = batch[r]
      BY <2>1 DEF Call, CallWith, IInv, TypeOK
    <3>2. holder # None => batch'[holder] = batch[holder]
      BY <3>1, BegunBatchesFixed
    <3> QED
      BY <1>2, <2>1, <3>1, <3>2, QuietApart DEF Call, CallWith
  <2>2. CASE Begin(s)
    BY <1>1, <2>2, BeginApart
  <2>3. CASE BusyTimeout(s)
    BY <1>2, <2>3, QuietApart DEF BusyTimeout
  <2>4. CASE Match(s)
    BY <2>4, MatchApart
  <2>5. CASE MergeDuplicate(s)
    BY <2>5, MergeDuplicateApart
  <2>6. CASE SkipDuplicate(s)
    BY <2>6, SkipDuplicateApart
  <2>7. CASE Store(s)
    BY <2>7, StoreApart
  <2>8. CASE Commit(s)
    BY <2>8, CommitApart
  <2>9. CASE Abort(s)
    BY <1>1, <2>9, ReleaseApart DEF Abort, Release
  <2> QED
    BY <1>3, <2>1, <2>2, <2>3, <2>4, <2>5, <2>6, <2>7, <2>8, <2>9 DEF Search, Work
<1>4. CASE Crash
  BY <1>1, <1>4, ReleaseApart DEF Crash, Die
<1>5. ASSUME NEW a \in AnalysisId, NEW p \in PaperId, SaveAnalysis(a, p) PROVE ApartInv'
  <2>1. tx = db /\ stage = "match" /\ tx' = db' /\ db' = InsertAnalysis(db, a, p)
        /\ UNCHANGED <<holder, batch, pos, stage, cur>>
    BY <1>5 DEF SaveAnalysis, IInv, Control
  <2>2. db'.papers = db.papers /\ db'.alias = db.alias /\ db'.scans = db.scans
    BY <2>1 DEF InsertAnalysis
  <2>3. RowOf' = RowOf
    BY <2>1, <2>2 DEF RowOf
  <2> QED
    BY <2>1, <2>2, <2>3, QuietApart
<1>6. CASE UNCHANGED vars
  BY <1>2, <1>6, QuietApart DEF vars
<1> QED
  BY <1>3, <1>4, <1>5, <1>6 DEF Next

\* The library keeps one paper for one work: an identifier of a saved record that
\* finds another paper than its strongest one does finds a paper that compatible()
\* keeps apart from this paper or from the record, for ever (find_matches, the loop
\* of reconcile, the filters of save()).
THEOREM WorksStayOne == Spec => []ApartOnlyByConflict
<1>1. Init => KeptInv /\ ApartInv
  BY DEF Init, KeptInv, ApartInv, EmptyTables
<1>2. ApartInv => ApartOnlyByConflict
  BY DEF ApartInv, Distinct, RecordApart, KeyApart, Contradict, ApartOnlyByConflict
<1>3. IInv /\ KeptInv /\ [Next]_vars => KeptInv'
  BY NextKept
<1>4. IInv /\ KeptInv /\ ApartInv /\ [Next]_vars => ApartInv'
  BY NextApart
<1> QED
  BY Inductive, <1>1, <1>2, <1>3, <1>4, PTL DEF Spec

-----------------------------------------------------------------------------
(* What makes a paper eligible for analysis.                                *)

\* Every id that showed an eligible paper shows one in the tables being written.
EligibleInv ==
    \A p \in PaperId :
        LET now == Resolve(db, p)
            next == Resolve(tx, p)
        IN  now # None /\ AnalysisEligible(db.papers[now]) =>
               next # None /\ AnalysisEligible(RowOf[next])

\* The longer of two abstracts is a real one if either is (enrich).
LEMMA EnrichEligible ==
    ASSUME BlankMeansEmpty, NEW existing \in Paper, NEW incoming \in Paper,
           AnalysisEligible(existing) \/ AnalysisEligible(incoming)
    PROVE  AnalysisEligible(Enrich(existing, incoming))
<1>1. \A paper \in Paper : paper.abstract.length \in Nat
                             /\ (paper.abstract.blank <=> paper.abstract.length = 0)
  BY NormalFormAssumption DEF BlankMeansEmpty, Paper
<1>2. Enrich(existing, incoming).abstract
        = IF incoming.abstract.length > existing.abstract.length
          THEN incoming.abstract ELSE existing.abstract
  BY DEF Enrich
<1> QED
  BY <1>1, <1>2 DEF AnalysisEligible

\* Steps that leave rows and redirects alone: Call, BusyTimeout, Match, SkipDuplicate,
\* SaveAnalysis.
LEMMA QuietEligible ==
    ASSUME EligibleInv, db'.papers = db.papers, db'.redirect = db.redirect,
           tx'.papers = tx.papers, tx'.redirect = tx.redirect, RowOf' = RowOf
    PROVE  EligibleInv'
<1>1. \A p \in PaperId : Resolve(db, p)' = Resolve(db, p) /\ Resolve(tx, p)' = Resolve(tx, p)
  BY DEF Resolve
<1> QED
  BY <1>1 DEF EligibleInv

\* The tables are as committed: Begin, and every end of a call.
LEMMA CommittedEligible ==
    ASSUME TypeOK', tx'.papers = db'.papers, tx'.redirect = db'.redirect, stage' = "match"
    PROVE  EligibleInv'
<1>1. RowOf' = db'.papers
  BY DEF TypeOK, Tables, RowOf
<1>2. \A p \in PaperId : Resolve(tx, p)' = Resolve(db, p)'
  BY DEF Resolve
<1> QED
  BY <1>1, <1>2 DEF EligibleInv

LEMMA MatchRows ==
    ASSUME IInv, NEW s \in ScanId, Match(s)
    PROVE  RowOf' = RowOf
<1>1. stage = "match" /\ tx' = tx
  BY DEF Match
<1>2. cur'.id # None => cur'.paper = tx.papers[cur'.id]
  BY DEF Match
<1>3. RowOf = tx.papers
  BY <1>1, RowsBetween DEF IInv
<1> QED
  BY <1>1, <1>2, <1>3, NoneIsNoId DEF RowOf, IInv, TypeOK, Tables

LEMMA MergeDuplicateEligible ==
    ASSUME BlankMeansEmpty, IInv, EligibleInv, NEW s \in ScanId, MergeDuplicate(s)
    PROVE  EligibleInv'
<1>1. holder = s /\ stage = "merge" /\ UNCHANGED <<db, stage>>
  BY DEF MergeDuplicate
<1>2. PICK q \in cur.pending :
         /\ IsFirst(tx, Raw(s), cur.pending, q)
         /\ cur' = [id |-> cur.id, paper |-> Enrich(cur.paper, tx.papers[q]),
                    pending |-> cur.pending \ {q}]
         /\ tx' = Reparent(tx, q, cur.id)
  BY DEF MergeDuplicate
<1>3. /\ cur.id \in PaperId /\ q \in PaperId /\ q # cur.id /\ cur.paper \in Paper
      /\ tx.papers[q] \in Paper /\ tx.papers[q] # None /\ tx.papers[cur.id] # None
  BY <1>1, <1>2, Duplicate
<1>4. tx \in Tables /\ Whole(tx)
  BY DEF IInv, TypeOK
<1>5. \A p \in PaperId : Resolve(tx', p) = Moved(Resolve(tx, p), q, cur.id)
  BY <1>2, <1>3, <1>4, ReparentResolve
<1>6. \A p \in PaperId : p # q =>
         RowOf'[p] = IF p = cur.id THEN Enrich(cur.paper, tx.papers[q]) ELSE RowOf[p]
  <2>1. \A p \in PaperId : p # q => tx'.papers[p] = tx.papers[p]
    BY <1>2, <1>4 DEF Reparent, Tables
  <2> QED
    BY <1>1, <1>2, <2>1 DEF RowOf
<1>7. RowOf[cur.id] = cur.paper /\ RowOf[q] = tx.papers[q]
  BY <1>1, <1>3 DEF RowOf
<1>8. AnalysisEligible(cur.paper) \/ AnalysisEligible(tx.papers[q])
        => AnalysisEligible(Enrich(cur.paper, tx.papers[q]))
  BY <1>3, EnrichEligible
<1>9. ASSUME NEW p \in PaperId, Resolve(db, p) # None, AnalysisEligible(db.papers[Resolve(db, p)])
      PROVE  Resolve(tx', p) # None /\ AnalysisEligible(RowOf'[Resolve(tx', p)])
  <2> DEFINE next == Resolve(tx, p)
  <2>1. next # None /\ AnalysisEligible(RowOf[next]) /\ next \in PaperId
    BY <1>4, <1>9, ResolveType DEF EligibleInv, Maybe
  <2>2. Resolve(tx', p) = Moved(next, q, cur.id)
    BY <1>5
  <2> HIDE DEF next
  <2>3. CASE next \in {q, cur.id}
    BY <1>3, <1>6, <1>7, <1>8, <2>1, <2>2, <2>3, NoneIsNoId DEF Moved
  <2>4. CASE next \notin {q, cur.id}
    BY <1>6, <2>1, <2>2, <2>4 DEF Moved
  <2> QED
    BY <2>3, <2>4
<1> QED
  BY <1>1, <1>9 DEF EligibleInv

LEMMA StoreEligible ==
    ASSUME BlankMeansEmpty, IInv, EligibleInv, NEW s \in ScanId, Store(s)
    PROVE  EligibleInv'
<1>1. holder = s /\ stage = "merge"
  BY DEF Store
<1>2. PICK id \in PaperId : Target(id) /\ Stored(s, id) \in Paper /\ Write(s, id)
  BY StoreWrites
<1> DEFINE paper == Stored(s, id)
           link == [pos |-> pos, score |-> Score(s)]
<1>3. tx' = Upsert(tx, id, paper, stamp[s], s, link) /\ stage' = "match" /\ db' = db
  BY <1>2 DEF Write
<1>4. tx \in Tables /\ paper \in Paper
  BY <1>2 DEF IInv, TypeOK
<1>5. Prepare(Raw(s)) \in Paper
  BY <1>1, RecordType, PrepareType DEF IInv, Control
<1>6. cur.id # None => id = cur.id /\ cur.paper \in Paper /\ tx.papers[id] # None
  BY <1>1, <1>2 DEF IInv, TypeOK, Record, Locals, Maybe, Target
<1>7. cur.id = None => tx.papers[id] = None /\ tx.redirect[id] = None
  BY <1>2 DEF Target, Fresh
<1>8. cur.id # None /\ AnalysisEligible(cur.paper) => AnalysisEligible(paper)
  <2> HAVE cur.id # None /\ AnalysisEligible(cur.paper)
  <2>1. paper.abstract = Enrich(cur.paper, Prepare(Raw(s))).abstract
    BY DEF Stored, DropForeign
  <2>2. AnalysisEligible(Enrich(cur.paper, Prepare(Raw(s))))
    BY <1>5, <1>6, EnrichEligible
  <2> QED
    BY <2>1, <2>2 DEF AnalysisEligible
<1>9. \A p \in PaperId : RowOf'[p] = IF p = id THEN paper ELSE tx.papers[p]
  <2>1. \A p \in PaperId : tx'.papers[p] = IF p = id THEN paper ELSE tx.papers[p]
    BY <1>3, <1>4 DEF Upsert, Tables
  <2> QED
    BY <1>3, <2>1 DEF RowOf
<1>10. \A p \in PaperId : RowOf[p] = IF p = cur.id THEN cur.paper ELSE tx.papers[p]
  BY <1>1 DEF RowOf
<1> HIDE DEF paper, link
<1>11. ASSUME NEW p \in PaperId, Resolve(db, p) # None, AnalysisEligible(db.papers[Resolve(db, p)])
       PROVE  Resolve(tx', p) # None /\ AnalysisEligible(RowOf'[Resolve(tx', p)])
  <2> DEFINE next == Resolve(tx, p)
  <2>1. next # None /\ AnalysisEligible(RowOf[next]) /\ next \in PaperId /\ tx.papers[next] # None
    BY <1>4, <1>11, ResolveType DEF EligibleInv, Maybe
  <2>2. Resolve(tx', p) = IF p = id THEN id ELSE next
    BY <1>3, <1>4, <2>1, UpsertResolve
  <2>3. p = id => next = id
    BY <1>6, <1>7, <2>1 DEF Resolve
  <2> HIDE DEF next
  <2>4. CASE next = id
    <3>1. cur.id = id
      BY <1>6, <1>7, <2>1, <2>4
    <3> QED
      BY <1>8, <1>9, <1>10, <2>1, <2>2, <2>4, <3>1, NoneIsNoId
  <2>5. CASE next # id
    <3>1. next # cur.id
      BY <1>6, <2>1, <2>5
    <3> QED
      BY <1>9, <1>10, <2>1, <2>2, <2>3, <2>5, <3>1
  <2> QED
    BY <2>4, <2>5
<1> QED
  BY <1>3, <1>11 DEF EligibleInv

LEMMA NextEligible ==
    ASSUME BlankMeansEmpty
    PROVE  IInv /\ EligibleInv /\ [Next]_vars => EligibleInv'
<1> SUFFICES ASSUME IInv, EligibleInv, [Next]_vars PROVE EligibleInv'
  OBVIOUS
<1>1. TypeOK'
  BY NextStep DEF IInv
<1>2. UNCHANGED <<tx, stage, cur>> => RowOf' = RowOf
  BY DEF RowOf
<1>3. ASSUME NEW s \in ScanId, Search(s) PROVE EligibleInv'
  <2>1. CASE Call(s)
    BY <1>2, <2>1, QuietEligible DEF Call, CallWith
  <2>2. CASE Begin(s)
    BY <1>1, <2>2, CommittedEligible DEF Begin, InsertScan
  <2>3. CASE BusyTimeout(s)
    BY <1>2, <2>3, QuietEligible DEF BusyTimeout
  <2>4. CASE Match(s)
    BY <2>4, MatchRows, QuietEligible DEF Match
  <2>5. CASE MergeDuplicate(s)
    BY <2>5, MergeDuplicateEligible
  <2>6. CASE SkipDuplicate(s)
    <3>1. RowOf' = RowOf
      BY <2>6 DEF SkipDuplicate, RowOf
    <3> QED
      BY <2>6, <3>1, QuietEligible DEF SkipDuplicate
  <2>7. CASE Store(s)
    BY <2>7, StoreEligible
  <2>8. CASE Commit(s)
    BY <1>1, <2>8, CommittedEligible DEF Commit
  <2>9. CASE Abort(s)
    BY <1>1, <2>9, CommittedEligible DEF Abort, Release
  <2> QED
    BY <1>3, <2>1, <2>2, <2>3, <2>4, <2>5, <2>6, <2>7, <2>8, <2>9 DEF Search, Work
<1>4. CASE Crash
  BY <1>1, <1>4, CommittedEligible DEF Crash, Die
<1>5. ASSUME NEW a \in AnalysisId, NEW p \in PaperId, SaveAnalysis(a, p) PROVE EligibleInv'
  <2>1. stage' = "match" /\ tx' = db'
    BY <1>5 DEF SaveAnalysis, IInv, Control
  <2> QED
    BY <1>1, <2>1, CommittedEligible
<1>6. CASE UNCHANGED vars
  BY <1>2, <1>6, QuietEligible DEF vars
<1> QED
  BY <1>3, <1>4, <1>5, <1>6 DEF Next

\* What a step changes in the committed tables: a commit publishes the tables being
\* written, an analysis touches no paper.
LEMMA CommittedRows ==
    ASSUME IInv, [Next]_vars
    PROVE  \/ db'.papers = db.papers /\ db'.redirect = db.redirect
           \/ db' = tx /\ stage = "match"
<1>1. ASSUME NEW s \in ScanId, Search(s)
      PROVE  db' = db \/ (db' = tx /\ stage = "match")
  BY <1>1 DEF Search, Work, Call, CallWith, Begin, BusyTimeout, Match, MergeDuplicate,
              SkipDuplicate, Store, Write, Release, Commit, Abort
<1>2. ASSUME NEW a \in AnalysisId, NEW p \in PaperId, SaveAnalysis(a, p)
      PROVE  db'.papers = db.papers /\ db'.redirect = db.redirect
  BY <1>2 DEF SaveAnalysis, InsertAnalysis
<1> QED
  BY <1>1, <1>2 DEF Next, Crash, Die, vars

\* A paper that may be analysed may be analysed for ever, under any id it was ever
\* shown by: no enrichment and no merge loses the abstract, provided only empty
\* abstracts are blank (enrich keeps the longer one, Paper.analysis_eligible).
THEOREM EligibilityStays == ASSUME BlankMeansEmpty PROVE Spec => EligibleStays
<1> DEFINE Kept == \A p \in PaperId :
              LET now == Resolve(db, p)
                  next == Resolve(db', p)
              IN  now # None /\ AnalysisEligible(db.papers[now]) =>
                     next # None /\ AnalysisEligible(db'.papers[next])
<1>1. Init => EligibleInv
  <2> SUFFICES ASSUME Init PROVE EligibleInv
    OBVIOUS
  <2>1. \A p \in PaperId : Resolve(db, p) = None
    BY DEF Init, EmptyTables, Resolve
  <2> QED
    BY <2>1 DEF EligibleInv
<1>2. IInv /\ EligibleInv /\ [Next]_vars => EligibleInv'
  BY NextEligible
<1>3. IInv /\ EligibleInv /\ [Next]_vars => [Kept]_vars
  <2> SUFFICES ASSUME IInv, EligibleInv, [Next]_vars PROVE Kept
    OBVIOUS
  <2>1. CASE db'.papers = db.papers /\ db'.redirect = db.redirect
    BY <2>1 DEF Resolve
  <2>2. CASE db' = tx /\ stage = "match"
    <3>1. RowOf = tx.papers
      BY <2>2, RowsBetween DEF IInv
    <3> QED
      BY <2>2, <3>1 DEF EligibleInv
  <2> QED
    BY <2>1, <2>2, CommittedRows
<1>4. EligibleStays <=> [][Kept]_vars
  BY DEF EligibleStays
<1> HIDE DEF Kept
<1> QED
  BY Inductive, <1>1, <1>2, <1>3, <1>4, PTL DEF Spec
=============================================================================
