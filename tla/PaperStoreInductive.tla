--------------------------- MODULE PaperStoreInductive ---------------------------
(***************************************************************************)
(* The inductive invariant behind the theorems of PaperStoreProofs: what   *)
(* the variables of save() say about each other between any two steps.     *)
(***************************************************************************)
EXTENDS PaperStore

\* The lock, the phases and the working copy agree.
Control ==
    /\ \A s \in ScanId : calls[s] = "saving" <=> holder = s
    /\ holder = None => tx = db /\ stage = "match"
    /\ stage = "merge" => pos <= Len(batch[holder])

\* In the middle of a record: without a match there is only the record as it
\* came; else the canonical paper and all the matches still to look at have rows.
Record ==
    stage = "merge" =>
        /\ cur.paper # None
        /\ cur.id = None => cur.pending = {} /\ cur.paper = Prepare(Raw(holder))
        /\ cur.id # None => tx.papers[cur.id] # None /\ cur.id \notin cur.pending
        /\ \A q \in cur.pending : tx.papers[q] # None

\* The tables refer only to rows that exist, and no redirect leads to another.
Whole(t) ==
    /\ ForeignKeys(t)
    /\ \A p \in PaperId : t.redirect[p] # None => t.papers[p] = None

\* The scans on record are the committed ones, and the one being written.
Scans ==
    /\ \A s \in ScanId : s \in db.scans <=> calls[s] = "committed"
    /\ \A s \in ScanId : s \in tx.scans <=> calls[s] \in {"committed", "saving"}

\* While a record is handled the index is exact for all papers but the canonical
\* one, whose row is written last; of that one
\*   - the record in memory has every key under which it is found,
\*   - it owns the DOI and the arXiv id of that record.
IndexedBut(t, id, paper) ==
    /\ \A k \in Key, p \in PaperId :
          p # id => (t.alias[k] = p <=> t.papers[p] # None /\ HasKey(t.papers[p], k))
    /\ id # None => \A k \in Key : t.alias[k] = id => HasKey(paper, k)
    /\ id # None => \A k \in Key :
          k[1] # "provider" /\ HasKey(paper, k) => t.alias[k] = id

\* The paper that owns the DOI of the record at hand is the canonical one, or
\* will be absorbed: it is among the pending matches and can be merged.
DoiAtHand ==
    LET incoming == Prepare(Raw(holder))
        owner == tx.alias[<<"doi", incoming.doi>>]
    IN  incoming.doi # None =>
            \/ owner \in {None, cur.id}
            \/ owner \in cur.pending /\ Compatible(cur.paper, tx.papers[owner], "provider")

Index ==
    /\ Indexed(db)
    /\ stage = "match" => Indexed(tx)
    /\ stage = "merge" => IndexedBut(tx, cur.id, cur.paper) /\ DoiAtHand
    /\ NoAliasConflict

\* What is in the tables d can still be read off the later tables t: every id,
\* key, scan and analysis refers to the paper that its paper has become.
Shown(t, s) == {p \in PaperId : t.links[s][p] # None}

Became(t, new, old) == new # None /\ new = Resolve(t, old)

GrownFrom(d, t) ==
    /\ \A p \in PaperId : Resolve(d, p) # None => Became(t, Resolve(t, p), Resolve(d, p))
    /\ \A k \in Key : d.alias[k] # None => Became(t, t.alias[k], d.alias[k])
    /\ \A s \in d.scans : Shown(t, s) = {Resolve(t, p) : p \in Shown(d, s)}
    /\ \A a \in AnalysisId : IF d.analyses[a] = None THEN t.analyses[a] = None
                             ELSE Became(t, t.analyses[a], d.analyses[a])

\* The inductive invariant: it holds between any two steps of save(), of the
\* analysis insert, of rollbacks and of crashes, and implies the properties that
\* PaperStoreProofs proves.
IInv ==
    /\ TypeOK
    /\ Control
    /\ Record
    /\ Whole(tx) /\ Whole(db)
    /\ Scans
    /\ Index
    /\ GrownFrom(db, tx)
=============================================================================
