---------------------------- MODULE MCPaperAnalysis ----------------------------
(***************************************************************************)
(* Small instances of PaperAnalysis for TLC: papers found apart, bridges   *)
(* that unite them, and requests at any moment.                            *)
(***************************************************************************)
EXTENDS PaperAnalysis, TLC

CONSTANTS s1, s2, s3

Titles == {"t", "u", "v"}
Keys == {"openalex:w1", "crossref:c1", "arxiv:x1"}
Full == [length |-> 1, blank |-> FALSE]
Pending == [length |-> 0, blank |-> TRUE]
Abstracts == {Full, Pending}

DoiForms == [v \in {"d1"} |-> v]
ArxivForms == [v \in {"a1"} |-> v]
KeyForms == [v \in Keys |-> v]
TitleForms == [v \in Titles |-> v]

Found(doi, source, title, abstract) ==
    [paper |-> [doi |-> doi, arxiv |-> None, aliases |-> << >>, source |-> source,
                title |-> title, abstract |-> abstract, meta |-> NoMetadata],
     score |-> 1]

WithKey == Found(None, "openalex:w1", "t", Pending)
WithDoi == Found("d1", "crossref:c1", "u", Full)
Bridge == Found("d1", "openalex:w1", "t", Full)

LateBridge == {<<WithKey>>, <<WithDoi>>, <<Bridge>>}

\* Three papers in one scan, and in two more what unites them one by one, so that
\* two merges may follow each other while one id is being looked up.
WithArxiv == [Found(None, "arxiv:x1", "v", Full) EXCEPT !.paper.arxiv = "a1"]
SecondBridge == [Found("d1", "arxiv:x1", "v", Pending) EXCEPT !.paper.arxiv = "a1"]

Apart == <<WithKey, WithDoi, WithArxiv>>
ChainOfBridges == {Apart, <<Bridge>>, <<SecondBridge>>}

\* A bound: what each scan may find; the scans come in any order and overlap.
Planned ==
    (s1 :> {Apart}) @@ (s2 :> {<<Bridge>>}) @@ (s3 :> {<<SecondBridge>>, <<Bridge>>})

PlannedSearch(s) == Search(s) /\ batch'[s] \in {<< >>} \cup Planned[s]

PlannedNext ==
    \/ \E s \in ScanId : PlannedSearch(s) /\ UNCHANGED requestVars
    \/ \E a \in AnalysisId : Request(a) \/ Serve(a)
    \/ CrashAll

PlannedSpec == InitAnalysis /\ [][PlannedNext]_allVars /\ FairAnalysis

Symmetric ==
    Permutations(PaperId) \cup Permutations(ScanId) \cup Permutations(AnalysisId)
=============================================================================
