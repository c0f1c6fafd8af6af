------------------------------- MODULE PaperStore -------------------------------
(***************************************************************************)
(* The paper library: SearchRepository.save with its reconciliation, and   *)
(* AnalysisRepository.save, on one SQLite file                             *)
(* (src/litwatch/storage/repositories.py, reconciliation.py, identity.py,  *)
(* analysis_repository.py, database.py).                                   *)
(*                                                                         *)
(* Every request runs in its own thread with its own connection.  A call   *)
(* of save() is named by the scan id it makes up, and is one transaction:  *)
(* BEGIN IMMEDIATE takes the database's only write lock (holder), the call *)
(* then works on tx, which nobody else sees, and COMMIT publishes tx as db.*)
(* Its records are handled one after the other, each in the steps Match,   *)
(* MergeDuplicate or SkipDuplicate for every further match, and Store.     *)
(***************************************************************************)
EXTENDS PaperIdentity, FiniteSets

CONSTANTS
    PaperId,     \* the ids "P-<uuid4>" that may be drawn
    ScanId,      \* the ids "S-<uuid4>", one per call of save()
    AnalysisId,  \* the ids "A-<uuid4>"
    Time,        \* values of the wall clock
    Batches      \* the ranked lists of scored records a search may return

\* A row of scan_papers.
Link == [pos : Nat, score : Nat]

\* A paper of a search result, as save() gets it.
Scored == [paper : RawPaper, score : Nat]

ASSUME StoreAssumption ==
    /\ Time \subseteq Nat
    /\ Batches \subseteq Seq(Scored)
    /\ None \notin PaperId \cup ScanId \cup AnalysisId \cup Time \cup Link

VARIABLES
    db,      \* the committed tables
    tx,      \* the tables as the writing connection sees them; db when idle
    holder,  \* the call that holds the write lock, or None
    calls,   \* how far each call of save() is
    batch,   \* the result.papers each call was given
    stamp,   \* the `now` each call sampled before it asked for the lock
    pos,     \* the loop variable `position` of the holder, from 1
    stage,   \* the holder is about to "match" record pos, or in its "merge"
    cur      \* the canonical paper of the record at hand (see Locals)

vars == <<db, tx, holder, calls, batch, stamp, pos, stage, cur>>

\* The tables; None where there is no row.
Tables ==
    [papers   : [PaperId -> Maybe(Paper)],
     created  : [PaperId -> Maybe(Time)],
     alias    : [Key -> Maybe(PaperId)],
     redirect : [PaperId -> Maybe(PaperId)],
     links    : [ScanId -> [PaperId -> Maybe(Link)]],
     scans    : SUBSET ScanId,
     analyses : [AnalysisId -> Maybe(PaperId)]]

EmptyTables ==
    [papers   |-> [p \in PaperId |-> None],
     created  |-> [p \in PaperId |-> None],
     alias    |-> [k \in Key |-> None],
     redirect |-> [p \in PaperId |-> None],
     links    |-> [s \in ScanId |-> [p \in PaperId |-> None]],
     scans    |-> {},
     analyses |-> [a \in AnalysisId |-> None]]

\* The local variables of the loop body of save() and of reconcile(): the
\* canonical paper's id (None: no match, a paper will be inserted), its record
\* as enriched so far, and the matches not yet looked at.
Locals == [id : Maybe(PaperId), paper : Maybe(Paper), pending : SUBSET PaperId]

NoWork == [id |-> None, paper |-> None, pending |-> {}]

Phase == {"unused", "waiting", "saving", "committed", "failed", "conflict"}

-----------------------------------------------------------------------------
(* Reading the tables.                                                      *)

Live(t) == {p \in PaperId : t.papers[p] # None}

\* get_paper: the paper_id the answer carries, None for "not found".  A live
\* id answers for itself; otherwise one hop through paper_redirects.
Resolve(t, p) ==
    IF t.papers[p] # None THEN p
    ELSE IF t.redirect[p] # None /\ t.papers[t.redirect[p]] # None
         THEN t.redirect[p] ELSE None

\* The paper that the n-th identity key of a record finds, if it is compatible.
Hit(t, raw, n) ==
    LET key   == LookupKeys(raw)[n]
        owner == t.alias[key]
    IN  IF owner # None /\ Compatible(t.papers[owner], Prepare(raw), key[1])
        THEN owner ELSE None

\* Faulty variant of Hits: find_matches returns as soon as one key has a match.
FirstHit(t, raw) ==
    {Hit(t, raw, n) : n \in {n \in DOMAIN LookupKeys(raw) :
        Hit(t, raw, n) # None /\ \A m \in 1..(n - 1) : Hit(t, raw, m) = None}}

Hits(t, raw) == {Hit(t, raw, n) : n \in DOMAIN LookupKeys(raw)} \ {None}

TitleMatches(t, raw) ==
    {p \in Live(t) : /\ t.papers[p].title = Prepare(raw).title
                     /\ Compatible(t.papers[p], Prepare(raw), "title")}

\* find_matches: the hits, or else a title match when it is the only one.
FindMatches(t, raw) ==
    IF Hits(t, raw) # {} THEN Hits(t, raw)
    ELSE IF \E p \in PaperId : TitleMatches(t, raw) = {p}
         THEN TitleMatches(t, raw) ELSE {}

\* p comes first among the papers S in the order of find_matches' result.
IsFirst(t, raw, S, p) ==
    /\ p \in S
    /\ \/ S = {p}
       \/ \E n \in DOMAIN LookupKeys(raw) :
             /\ Hit(t, raw, n) = p
             /\ \A m \in 1..(n - 1) : Hit(t, raw, m) \notin S

\* reconcile's choice: the oldest match when all of them agree with the first
\* one, else the first one.  Ids are random, so a tie may fall either way.
IsCanonical(t, raw, matches, p) ==
    \E first \in matches :
        /\ IsFirst(t, raw, matches, first)
        /\ IF \A q \in matches : Compatible(t.papers[first], t.papers[q], "provider")
           THEN /\ p \in matches
                /\ \A q \in matches : t.created[p] <= t.created[q]
           ELSE p = first

-----------------------------------------------------------------------------
(* Writing the tables.                                                      *)

Lower(m, n) == IF m < n THEN m ELSE n
Higher(m, n) == IF m > n THEN m ELSE n

\* Faulty variants of Join: the later row wins outright; min and max swapped.
JoinLastWins(link, other) == IF other = None THEN link ELSE other

JoinLowerScore(link, other) ==
    IF link = None THEN other
    ELSE IF other = None THEN link
    ELSE [pos |-> Lower(link.pos, other.pos), score |-> Lower(link.score, other.score)]

\* Two rows of one scan for one paper become one: min position, max score.
Join(link, other) ==
    IF link = None THEN other
    ELSE IF other = None THEN link
    ELSE [pos |-> Lower(link.pos, other.pos), score |-> Higher(link.score, other.score)]

InsertScan(t, s) ==
    [papers |-> t.papers, created |-> t.created, alias |-> t.alias,
     redirect |-> t.redirect, links |-> t.links,
     scans |-> t.scans \cup {s}, analyses |-> t.analyses]

Moved(p, old, new) == IF p = old THEN new ELSE p

\* Faulty variants of Reparent: one of the tables is forgotten.
ReparentLeavesAnalyses(t, old, new) ==
    [papers   |-> [t.papers EXCEPT ![old] = None],
     created  |-> [t.created EXCEPT ![old] = None],
     alias    |-> [k \in Key |-> Moved(t.alias[k], old, new)],
     redirect |-> [p \in PaperId |->
                      IF p = old THEN new ELSE Moved(t.redirect[p], old, new)],
     links    |-> [s \in ScanId |-> [p \in PaperId |->
                      IF p = old THEN None
                      ELSE IF p = new THEN Join(t.links[s][new], t.links[s][old])
                      ELSE t.links[s][p]]],
     scans    |-> t.scans,
     analyses |-> t.analyses]

ReparentLeavesRedirects(t, old, new) ==
    [papers   |-> [t.papers EXCEPT ![old] = None],
     created  |-> [t.created EXCEPT ![old] = None],
     alias    |-> [k \in Key |-> Moved(t.alias[k], old, new)],
     redirect |-> [t.redirect EXCEPT ![old] = new],
     links    |-> [s \in ScanId |-> [p \in PaperId |->
                      IF p = old THEN None
                      ELSE IF p = new THEN Join(t.links[s][new], t.links[s][old])
                      ELSE t.links[s][p]]],
     scans    |-> t.scans,
     analyses |-> [a \in AnalysisId |-> Moved(t.analyses[a], old, new)]]

\* _reparent: the rows that name the paper old now name new; old is deleted
\* and becomes a redirect, as do the redirects that pointed at it.
Reparent(t, old, new) ==
    [papers   |-> [t.papers EXCEPT ![old] = None],
     created  |-> [t.created EXCEPT ![old] = None],
     alias    |-> [k \in Key |-> Moved(t.alias[k], old, new)],
     redirect |-> [p \in PaperId |->
                      IF p = old THEN new ELSE Moved(t.redirect[p], old, new)],
     links    |-> [s \in ScanId |-> [p \in PaperId |->
                      IF p = old THEN None
                      ELSE IF p = new THEN Join(t.links[s][new], t.links[s][old])
                      ELSE t.links[s][p]]],
     scans    |-> t.scans,
     analyses |-> [a \in AnalysisId |-> Moved(t.analyses[a], old, new)]]

\* Faulty variant of DropForeign: the arXiv id is not looked at.
DropForeignKeepsArxiv(t, id, paper) ==
    [doi      |-> paper.doi,
     arxiv    |-> paper.arxiv,
     aliases  |-> {k \in paper.aliases : t.alias[<<"provider", k>>] \in {None, id}},
     source   |-> paper.source,
     title    |-> paper.title,
     abstract |-> paper.abstract,
     meta     |-> paper.meta]

\* Identifiers that another paper owns are dropped, the DOI excepted.
DropForeign(t, id, paper) ==
    [doi      |-> paper.doi,
     arxiv    |-> IF /\ paper.arxiv # None
                     /\ t.alias[<<"arxiv", paper.arxiv>>] \notin {None, id}
                  THEN None ELSE paper.arxiv,
     aliases  |-> {k \in paper.aliases : t.alias[<<"provider", k>>] \in {None, id}},
     source   |-> paper.source,
     title    |-> paper.title,
     abstract |-> paper.abstract,
     meta     |-> paper.meta]

\* Some key of the paper is another's: ValueError("identity alias conflict").
Conflicts(t, id, paper) ==
    \E k \in Key : HasKey(paper, k) /\ t.alias[k] \notin {None, id}

\* The paper's row, its free keys, and its link in the scan being written.
Upsert(t, id, paper, now, s, link) ==
    [papers   |-> [t.papers EXCEPT ![id] = paper],
     created  |-> [t.created EXCEPT ![id] = IF @ = None THEN now ELSE @],
     alias    |-> [k \in Key |-> IF HasKey(paper, k) THEN id ELSE t.alias[k]],
     redirect |-> t.redirect,
     links    |-> [t.links EXCEPT ![s][id] = Join(@, link)],
     scans    |-> t.scans,
     analyses |-> t.analyses]

InsertAnalysis(t, a, p) ==
    [papers |-> t.papers, created |-> t.created, alias |-> t.alias,
     redirect |-> t.redirect, links |-> t.links, scans |-> t.scans,
     analyses |-> [t.analyses EXCEPT ![a] = p]]

-----------------------------------------------------------------------------
(* Calls and transactions.                                                  *)

Init ==
    /\ db = EmptyTables
    /\ tx = EmptyTables
    /\ holder = None
    /\ calls = [s \in ScanId |-> "unused"]
    /\ batch = [s \in ScanId |-> << >>]
    /\ stamp = [s \in ScanId |-> None]
    /\ pos = 1
    /\ stage = "match"
    /\ cur = NoWork

\* save(b) is entered: scan id and `now` are fixed before the lock is asked for.
\* The wall clock may be set back, so `now` is any time.
CallWith(s, b, now) ==
    /\ calls[s] = "unused"
    /\ batch' = [batch EXCEPT ![s] = b]
    /\ stamp' = [stamp EXCEPT ![s] = now]
    /\ calls' = [calls EXCEPT ![s] = "waiting"]
    /\ UNCHANGED <<db, tx, holder, pos, stage, cur>>

Call(s) == \E b \in Batches, now \in Time : CallWith(s, b, now)

\* BEGIN IMMEDIATE succeeds, and the scan's own row is inserted.
Begin(s) ==
    /\ calls[s] = "waiting"
    /\ holder = None
    /\ holder' = s
    /\ tx' = InsertScan(db, s)
    /\ calls' = [calls EXCEPT ![s] = "saving"]
    /\ pos' = 1
    /\ stage' = "match"
    /\ cur' = NoWork
    /\ UNCHANGED <<db, batch, stamp>>

\* busy_timeout ran out while another call held the lock.
BusyTimeout(s) ==
    /\ calls[s] = "waiting"
    /\ holder # None
    /\ calls' = [calls EXCEPT ![s] = "failed"]
    /\ UNCHANGED <<db, tx, holder, batch, stamp, pos, stage, cur>>

Raw(s) == batch[s][pos].paper
Score(s) == batch[s][pos].score

\* find_matches, and reconcile up to its loop.
Match(s) ==
    /\ holder = s
    /\ stage = "match"
    /\ pos <= Len(batch[s])
    /\ LET matches == FindMatches(tx, Raw(s))
       IN  \/ /\ matches = {}
              /\ cur' = [id |-> None, paper |-> Prepare(Raw(s)), pending |-> {}]
           \/ \E p \in matches :
              /\ IsCanonical(tx, Raw(s), matches, p)
              /\ cur' = [id |-> p, paper |-> tx.papers[p], pending |-> matches \ {p}]
    /\ stage' = "merge"
    /\ UNCHANGED <<db, tx, holder, calls, batch, stamp, pos>>

\* One turn of reconcile's loop: a compatible duplicate is absorbed ...
MergeDuplicate(s) ==
    /\ holder = s
    /\ stage = "merge"
    /\ \E q \in cur.pending :
          /\ IsFirst(tx, Raw(s), cur.pending, q)
          /\ Compatible(cur.paper, tx.papers[q], "provider")
          /\ cur' = [id |-> cur.id, paper |-> Enrich(cur.paper, tx.papers[q]),
                     pending |-> cur.pending \ {q}]
          /\ tx' = Reparent(tx, q, cur.id)
    /\ UNCHANGED <<db, holder, calls, batch, stamp, pos, stage>>

\* ... and one that is not stays a paper of its own.
SkipDuplicate(s) ==
    /\ holder = s
    /\ stage = "merge"
    /\ \E q \in cur.pending :
          /\ IsFirst(tx, Raw(s), cur.pending, q)
          /\ ~Compatible(cur.paper, tx.papers[q], "provider")
          /\ cur' = [id |-> cur.id, paper |-> cur.paper, pending |-> cur.pending \ {q}]
    /\ UNCHANGED <<db, tx, holder, calls, batch, stamp, pos, stage>>

\* An id that uuid4 may return: never a committed one.
Fresh(id) == tx.papers[id] = None /\ tx.redirect[id] = None

\* The record that is about to be written under id.
Stored(s, id) ==
    DropForeign(tx, id, IF cur.id = None THEN cur.paper
                        ELSE Enrich(cur.paper, Prepare(Raw(s))))

Target(id) == IF cur.id = None THEN Fresh(id) ELSE id = cur.id

\* Faulty variant of Release: the connection commits instead.
ReleaseCommits(s, outcome) ==
    /\ holder' = None
    /\ db' = tx
    /\ calls' = [calls EXCEPT ![s] = outcome]
    /\ pos' = 1
    /\ stage' = "match"
    /\ cur' = NoWork
    /\ UNCHANGED <<tx, batch, stamp>>

\* The holder's connection is rolled back and closed; the call ends.
Release(s, outcome) ==
    /\ holder' = None
    /\ tx' = db
    /\ calls' = [calls EXCEPT ![s] = outcome]
    /\ pos' = 1
    /\ stage' = "match"
    /\ cur' = NoWork
    /\ UNCHANGED <<db, batch, stamp>>

\* Faulty variant of Write: the loop stays at the same record.
WriteStays(s, id) ==
    /\ tx' = Upsert(tx, id, Stored(s, id), stamp[s], s,
                    [pos |-> pos, score |-> Score(s)])
    /\ stage' = "match"
    /\ cur' = NoWork
    /\ UNCHANGED <<db, holder, calls, batch, stamp, pos>>

\* The record goes into the tables, and the loop on to the next one.
Write(s, id) ==
    /\ tx' = Upsert(tx, id, Stored(s, id), stamp[s], s,
                    [pos |-> pos, score |-> Score(s)])
    /\ pos' = pos + 1
    /\ stage' = "match"
    /\ cur' = NoWork
    /\ UNCHANGED <<db, holder, calls, batch, stamp>>

\* The rest of the loop body.  A key of another paper raises ValueError, which
\* rolls the whole scan back.
Store(s) ==
    /\ holder = s
    /\ stage = "merge"
    /\ cur.pending = {}
    /\ \E id \in PaperId :
          /\ Target(id)
          /\ IF Conflicts(tx, id, Stored(s, id))
             THEN Release(s, "conflict") ELSE Write(s, id)

Commit(s) ==
    /\ holder = s
    /\ stage = "match"
    /\ pos > Len(batch[s])
    /\ db' = tx
    /\ tx' = tx
    /\ holder' = None
    /\ calls' = [calls EXCEPT ![s] = "committed"]
    /\ pos' = 1
    /\ UNCHANGED <<batch, stamp, stage, cur>>

\* Any statement, COMMIT included, may raise sqlite3.Error: rollback.
Abort(s) ==
    /\ holder = s
    /\ Release(s, "failed")

\* The process dies; SQLite's journal undoes the open transaction.
Die ==
    /\ calls' = [s \in ScanId |->
                    IF calls[s] \in {"waiting", "saving"} THEN "failed" ELSE calls[s]]
    /\ holder' = None
    /\ tx' = db
    /\ pos' = 1
    /\ stage' = "match"
    /\ cur' = NoWork
    /\ UNCHANGED <<db, batch, stamp>>

Crash ==
    /\ \E s \in ScanId : calls[s] \in {"waiting", "saving"}
    /\ Die

\* AnalysisRepository.save: one INSERT in a transaction of its own, refused by
\* the foreign key when the paper is gone.
SaveAnalysis(a, p) ==
    /\ holder = None
    /\ db.analyses[a] = None
    /\ db.papers[p] # None
    /\ db' = InsertAnalysis(db, a, p)
    /\ tx' = db'
    /\ UNCHANGED <<holder, calls, batch, stamp, pos, stage, cur>>

Work(s) ==
    Match(s) \/ MergeDuplicate(s) \/ SkipDuplicate(s) \/ Store(s) \/ Commit(s)

Search(s) == Call(s) \/ Begin(s) \/ BusyTimeout(s) \/ Work(s) \/ Abort(s)

Next ==
    \/ \E s \in ScanId : Search(s)
    \/ Crash
    \/ \E a \in AnalysisId, p \in PaperId : SaveAnalysis(a, p)

Spec == Init /\ [][Next]_vars

\* A waiting thread gets the lock or times out, and the holder keeps running: it
\* goes on, or a statement raises.
Fairness ==
    \A s \in ScanId : WF_vars(Begin(s) \/ BusyTimeout(s)) /\ WF_vars(Abort(s) \/ Work(s))

FairSpec == Spec /\ Fairness

-----------------------------------------------------------------------------
(* What must hold.                                                          *)

\* Every variable has its type (the tables of database.py, the locals of save).
TypeOK ==
    /\ db \in Tables
    /\ tx \in Tables
    /\ holder \in Maybe(ScanId)
    /\ calls \in [ScanId -> Phase]
    /\ batch \in [ScanId -> Seq(Scored)]
    /\ stamp \in [ScanId -> Maybe(Time)]
    /\ pos \in Nat \ {0}
    /\ stage \in {"match", "merge"}
    /\ cur \in Locals

\* The REFERENCES clauses of database.py: each names a row that exists.
ForeignKeys(t) ==
    /\ \A k \in Key : t.alias[k] # None => t.papers[t.alias[k]] # None
    /\ \A p \in PaperId : t.redirect[p] # None => t.papers[t.redirect[p]] # None
    /\ \A s \in ScanId, p \in PaperId :
          t.links[s][p] # None => s \in t.scans /\ t.papers[p] # None
    /\ \A a \in AnalysisId : t.analyses[a] # None => t.papers[t.analyses[a]] # None

\* No row names a paper that a merge has deleted: _reparent forgets none of the
\* tables that refer to papers, after any sequence of merges, in and out of
\* transactions.  (Its statements are one step here, so their order is not seen.)
NoDanglingReference == ForeignKeys(tx) /\ ForeignKeys(db)

\* The one JOIN of get_paper is enough, and the INSERT into paper_redirects never
\* meets an existing row: redirects never form chains or cycles, whatever is
\* merged into what and in which order.
RedirectsFlat ==
    \A t \in {db, tx} : \A p \in PaperId :
        t.redirect[p] # None => t.papers[p] = None /\ t.papers[t.redirect[p]] # None

\* paper_aliases is an exact index of the payloads: between records, a key finds
\* a paper just when that paper carries the key.  In particular no two papers
\* share a DOI, an arXiv id or a provider key, and no paper shows an identifier
\* by which it cannot be found again.
Indexed(t) ==
    \A k \in Key, p \in PaperId :
        t.alias[k] = p <=> t.papers[p] # None /\ HasKey(t.papers[p], k)

AliasIndex == Indexed(db) /\ (stage = "match" => Indexed(tx))

\* The ValueError "identity alias conflict" of save() is unreachable: the
\* matching rules and the two filters leave no key that another paper owns,
\* DOIs included although no filter looks at them.
NoAliasConflict == \A s \in ScanId : calls[s] # "conflict"

\* The identifier that decides whose record it is: the DOI, else the arXiv id.
Strongest(paper) ==
    IF paper.doi # None THEN <<"doi", paper.doi>> ELSE <<"arxiv", paper.arxiv>>

Identified(paper) == paper.doi # None \/ paper.arxiv # None

\* A stored scan keeps, for ever, every record it was given: the strongest
\* identifier of the record finds a paper that the scan shows, no further down
\* and with no lower a score than the search had ranked it.
ScanKeepsItsRecords ==
    \A s \in db.scans : \A n \in 1..Len(batch[s]) :
        LET paper == Prepare(batch[s][n].paper)
            found == db.alias[Strongest(paper)]
        IN  Identified(paper) =>
               /\ found # None
               /\ db.links[s][found] # None
               /\ db.links[s][found].pos <= n
               /\ db.links[s][found].score >= batch[s][n].score

\* A stored scan stays a ranking after any later merge: no two papers share a
\* position (nothing breaks ties in _linked_papers), and if the search had
\* ranked by score, the scores still never rise from one position to the next.
ScanOrder ==
    \A s \in db.scans :
        LET papers == {p \in PaperId : db.links[s][p] # None}
            ranked == \A m, n \in 1..Len(batch[s]) :
                         m <= n => batch[s][m].score >= batch[s][n].score
        IN  \A p, q \in papers : p # q =>
               /\ db.links[s][p].pos # db.links[s][q].pos
               /\ ranked /\ db.links[s][p].pos < db.links[s][q].pos
                     => db.links[s][p].score >= db.links[s][q].score

\* The library keeps one paper for one work: if an identifier of a saved record
\* finds another paper than its strongest identifier does, that paper has an
\* identifier which neither the record nor its own paper could be united with,
\* also after any later merge.
ApartOnlyByConflict ==
    \A s \in db.scans : \A n \in 1..Len(batch[s]) :
        LET raw == batch[s][n].paper
            own == db.alias[Strongest(Prepare(raw))]
        IN  Identified(Prepare(raw)) =>
               \A m \in DOMAIN LookupKeys(raw) :
                  LET other == db.alias[LookupKeys(raw)[m]]
                  IN  other \notin {None, own} =>
                         \/ ~Compatible(db.papers[own], db.papers[other], "provider")
                         \/ ~Compatible(Prepare(raw), db.papers[other], "provider")

\* A client that never saw its answer and searches again is shown what the scan
\* on record shows by then, the same papers at the same places with the same
\* scores, whatever was saved and merged in between.
RepeatShowsTheSame ==
    \A r, s \in db.scans : batch[r] = batch[s] => db.links[r] = db.links[s]

\* The abstracts in use: empty ones are blank, and blank ones empty (arxiv.py and
\* crossref.py split a text and join its words; openalex.py joins the words that
\* OpenAlex's index lists, none of which is taken to be blank).
BlankMeansEmpty == \A abstract \in Abstract : abstract.blank <=> abstract.length = 0

\* A paper whose abstract made it eligible for analysis stays so, whatever
\* enriches it and whatever paper it becomes.
EligibleStays ==
    [][\A p \in PaperId :
          LET now == Resolve(db, p)
              next == Resolve(db', p)
          IN  now # None /\ AnalysisEligible(db.papers[now]) =>
                 next # None /\ AnalysisEligible(db'.papers[next])]_vars

\* "When provider metadata conflicts, a reliable identifier wins over a name.":
\* a paper of which a saved record had a listed ISSN has the journal of such an
\* ISSN, of this record or of another one of the paper.
IdentifierOutranksName ==
    LET Saved == UNION {{batch[s][n].paper : n \in 1..Len(batch[s])} : s \in db.scans}
        PaperOf(raw) == db.alias[Strongest(Prepare(raw))]
    IN  \A raw \in {r \in Saved : Identified(Prepare(r)) /\ r.meta.issn # None} :
           \E other \in {r \in Saved : Identified(Prepare(r)) /\ r.meta.issn # None} :
              /\ PaperOf(other) = PaperOf(raw)
              /\ db.papers[PaperOf(raw)].meta.journalId = other.meta.issn

\* A failed call leaves nothing: the scans on record are those of the calls that
\* ended well, and every link belongs to one of them (rollback and crash).
FailedCallLeavesNothing ==
    /\ db.scans = {s \in ScanId : calls[s] = "committed"}
    /\ \A s \in ScanId, p \in PaperId : db.links[s][p] # None => calls[s] = "committed"

\* Every call of save() ends: no wait for the lock and no loop over duplicates
\* goes on for ever.
EveryCallEnds ==
    \A s \in ScanId : calls[s] = "waiting" ~> calls[s] \in {"committed", "failed", "conflict"}

\* The promise of PaperCatalog about ids, keys, scans and analyses, read off the
\* committed tables by get_paper, paper_aliases, get_scan and the analyses table.
Catalog == INSTANCE PaperCatalog WITH
    resolve  <- [p \in PaperId |-> Resolve(db, p)],
    owner    <- db.alias,
    recorded <- db.scans,
    shown    <- [s \in ScanId |-> {p \in PaperId : db.links[s][p] # None}],
    analysed <- db.analyses

KeepsCatalog == Catalog!Spec
=============================================================================
