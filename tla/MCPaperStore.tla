------------------------------ MODULE MCPaperStore ------------------------------
(***************************************************************************)
(* Small instances of PaperStore for TLC.                                  *)
(*                                                                         *)
(* A DOI is sent plain or as a URL, the pair <<"https://doi.org/", doi>>;  *)
(* one provider key comes in two spellings; arXiv ids and titles in one.   *)
(* The records below are the ones that can meet: two DOIs, two arXiv ids,  *)
(* and bridges that carry identifiers of several papers.                   *)
(***************************************************************************)
EXTENDS PaperStoreInductive, TLC

CONSTANTS d1, d2, a1, a2

Dois == {d1, d2}
Arxivs == {a1, a2}
Keys == {"openalex:w1", "openalex:w2", "crossref:c1", "arxiv:x1"}
Titles == {"t", "u", "v"}

Short == [length |-> 1, blank |-> FALSE]
Long == [length |-> 2, blank |-> FALSE]
Blank == [length |-> 0, blank |-> TRUE]
Abstracts == {Blank, Short, Long}

\* These abstracts are as the theorem about eligible papers supposes.
ASSUME AbstractsAssumption == BlankMeansEmpty

Url(doi) == <<"https://doi.org/", doi>>

DoiForms == [v \in Dois \cup {Url(d) : d \in Dois} |-> IF v \in Dois THEN v ELSE v[2]]
ArxivForms == [v \in Arxivs |-> v]
KeyForms == [v \in Keys \cup {"OpenAlex:W1"} |->
                IF v = "OpenAlex:W1" THEN "openalex:w1" ELSE v]
TitleForms == [v \in Titles |-> v]

MakeRecord(doi, arxiv, aliases, source, title) ==
    [doi |-> doi, arxiv |-> arxiv, aliases |-> aliases, source |-> source,
     title |-> title, abstract |-> Short, meta |-> NoMetadata]

\* A batch ranked by score, the last record with score 1.
Ranked(records) ==
    [n \in 1..Len(records) |-> [paper |-> records[n], score |-> Len(records) - n + 1]]

-----------------------------------------------------------------------------
(* Several records per scan: three papers found apart, bridges that unite   *)
(* two or all of them within or across scans, and rivals with another DOI.  *)

(* As search() hands them over: a journal that was resolved, by whatever    *)
(* evidence, is also the journal_id and the name.                           *)

Say(record, abstract, meta) ==
    [record EXCEPT !.abstract = abstract, !.meta = WithJournal(meta)]

ByIssn == [NoMetadata EXCEPT !.issn = "jasa", !.year = 2024]
BySource == [NoMetadata EXCEPT !.sourceId = "nature", !.year = 2023]
ByName == [NoMetadata EXCEPT !.name = "nature"]
OtherName == [NoMetadata EXCEPT !.name = "unlisted"]

WithDoi == Say(MakeRecord(Url(d1), None, << >>, "crossref:c1", "t"), Blank, ByIssn)
WithArxiv == Say(MakeRecord(None, a1, << >>, "arxiv:x1", "u"), Short, ByName)
Plain == Say(MakeRecord(None, None, << >>, "OpenAlex:W1", "v"), Long, OtherName)
DoiArxiv == Say(MakeRecord(d1, a1, << >>, "openalex:w2", "t"), Blank, BySource)
ArxivPlain == Say(MakeRecord(None, a1, <<"openalex:w1">>, "arxiv:x1", "u"), Short, NoMetadata)
DoiPlain == Say(MakeRecord(d1, None, <<"openalex:w1">>, "crossref:c1", "t"), Blank, ByName)
AllThree == Say(MakeRecord(d1, a1, <<"openalex:w1">>, "crossref:c1", "t"), Short, ByIssn)
Rival == Say(MakeRecord(d2, a1, <<"openalex:w1">>, "openalex:w2", "t"), Long, BySource)

OtherArxiv == Say(MakeRecord(None, a2, << >>, "openalex:w1", "v"), Short, NoMetadata)

MergingBatches ==
    {Ranked(<<WithDoi, WithArxiv, Plain>>), Ranked(<<WithArxiv, Plain>>),
     Ranked(<<Plain, WithDoi, DoiArxiv>>), Ranked(<<DoiArxiv, ArxivPlain>>),
     Ranked(<<DoiPlain>>), Ranked(<<AllThree>>), Ranked(<<Rival>>),
     Ranked(<<OtherArxiv>>)}

\* A genuine ISSN on one side, a mere name on the other, and a bridge.
NameAndIssn ==
    {Ranked(<<WithDoi, WithArxiv>>), Ranked(<<WithArxiv>>),
     Ranked(<<MakeRecord(d1, a1, << >>, "crossref:c1", "t")>>)}

Papers == Permutations(PaperId) \cup Permutations(ScanId)

Calls == {s \in ScanId : calls[s] \in {"waiting", "saving"}}

\* A bound: one call at a time, and a second one that waits while the very
\* first is about to take its first record (what concurrency does is shown by PaperAnalysis).
OneCall ==
    \/ Cardinality(Calls) <= 1
    \/ /\ Cardinality(Calls) = 2 /\ holder # None /\ pos = 1 /\ stage = "match"
       /\ \A s \in ScanId \ Calls : calls[s] = "unused"
=============================================================================
