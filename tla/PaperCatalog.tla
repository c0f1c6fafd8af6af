------------------------------ MODULE PaperCatalog ------------------------------
(***************************************************************************)
(* What the paper library promises to whoever kept an id, a scan or an     *)
(* analysis (src/litwatch/storage/reconciliation.py: "Reconcile late       *)
(* identity bridges while preserving old IDs as redirects").               *)
(*                                                                         *)
(* Papers may be found to be the same later on, so the paper behind an id  *)
(* may change, but only by classes of ids growing together: no id is       *)
(* forgotten, two ids of one paper never part, and everything that referred*)
(* to a paper (identity keys, recorded scans, analyses) refers from then on*)
(* to the paper its id stands for.  Nothing is said here about how papers  *)
(* are matched, about transactions or about failures.                      *)
(***************************************************************************)

CONSTANTS PaperId, ScanId, AnalysisId, Key, None

VARIABLES
    resolve,   \* the paper an id stands for; None before it is first given out
    owner,     \* the paper an identity key finds
    recorded,  \* the scans on record
    shown,     \* the papers that a recorded scan shows
    analysed   \* the paper an analysis is about

catalog == <<resolve, owner, recorded, shown, analysed>>

Init ==
    /\ resolve = [p \in PaperId |-> None]
    /\ owner = [k \in Key |-> None]
    /\ recorded = {}
    /\ shown = [s \in ScanId |-> {}]
    /\ analysed = [a \in AnalysisId |-> None]

\* A reference to a paper, if there was one, is now to the paper it became.
Follows(new, old) == old # None => new # None /\ new = resolve'[old]

\* The ids that resolve stand for papers that stand for themselves.
Representatives == \A p \in PaperId : resolve[p] # None => resolve[resolve[p]] = resolve[p]

\* A scan is recorded, papers being added and united as it requires.
RecordScan(s) ==
    /\ s \notin recorded
    /\ recorded' = recorded \cup {s}
    /\ Representatives'
    /\ \A p \in PaperId : Follows(resolve'[p], resolve[p])
    /\ \A k \in Key : Follows(owner'[k], owner[k])
    /\ \A k \in Key : owner'[k] # None => resolve'[owner'[k]] = owner'[k]
    /\ \A r \in recorded : shown'[r] = {resolve'[p] : p \in shown[r]}
    /\ \A p \in shown'[s] : resolve'[p] = p
    /\ \A r \in ScanId \ recorded' : shown'[r] = {}
    /\ \A a \in AnalysisId : /\ Follows(analysed'[a], analysed[a])
                             /\ analysed[a] = None => analysed'[a] = None

\* An analysis is stored for a paper that exists.
RecordAnalysis(a) ==
    /\ analysed[a] = None
    /\ \E p \in PaperId :
          /\ resolve[p] = p
          /\ analysed' = [analysed EXCEPT ![a] = p]
    /\ UNCHANGED <<resolve, owner, recorded, shown>>

Next ==
    \/ \E s \in ScanId : RecordScan(s)
    \/ \E a \in AnalysisId : RecordAnalysis(a)

Spec == Init /\ [][Next]_catalog
=============================================================================
