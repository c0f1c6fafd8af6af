---------------------------- MODULE MCDeduplication ----------------------------
(***************************************************************************)
(* Small instances of Deduplication for TLC.                               *)
(*                                                                         *)
(* Crossref sends a DOI as a URL, the pair <<"https://doi.org/", doi>>.    *)
(* "t" is a title, "?" one that has no word character.                     *)
(***************************************************************************)
EXTENDS Deduplication, TLC

CONSTANTS d1, d2, a1, a2

Dois == {d1, d2}
Arxivs == {a1, a2}
Keys == {"openalex:w1", "openalex:w2", "crossref:c1"}
Titles == {"t", "u", ""}

Url(doi) == <<"https://doi.org/", doi>>

DoiForms == [v \in Dois \cup {Url(d) : d \in Dois} |-> IF v \in Dois THEN v ELSE v[2]]
ArxivForms == [v \in Arxivs |-> v]
KeyForms == [v \in Keys |-> v]
TitleForms == [v \in {"t", "u", "?", "!"} |-> IF v \in {"?", "!"} THEN "" ELSE v]

Text == [length |-> 1, blank |-> FALSE]
Abstracts == {Text}

Record(doi, arxiv, source, title) ==
    [doi |-> IF source = "crossref:c1" /\ doi # None THEN Url(doi) ELSE doi,
     arxiv |-> arxiv, aliases |-> << >>, source |-> source, title |-> title,
     abstract |-> Text, meta |-> NoMetadata]

\* Three records: every mix of identifiers, with a title and without.
Mixed ==
    {Record(d, a, st[1], st[2]) : d \in Dois \cup {None}, a \in Arxivs \cup {None},
        st \in {<<"openalex:w1", "t">>, <<"openalex:w2", "t">>,
                <<"openalex:w2", "?">>, <<"crossref:c1", "!">>}}

\* Four records: with at most one strong identifier, or d1 and an arXiv id.
Simple ==
    {Record(d, a, st[1], st[2]) : d \in Dois \cup {None}, a \in Arxivs \cup {None},
        st \in {<<"openalex:w1", "!">>, <<"openalex:w2", "t">>}}

Lists == [1..3 -> Mixed] \cup [1..4 -> {r \in Simple : r.doi = None \/ r.arxiv = None}]

\* Three records of one title and three providers' keys.
SameTitle ==
    {<<Record(d, a, "openalex:w1", "t"), Record(None, b, "openalex:w2", "t"),
       Record(e, None, "crossref:c1", "t")>> :
        d, e \in Dois \cup {None}, a, b \in Arxivs \cup {None}}

Symmetric == Permutations(Dois) \cup Permutations(Arxivs)
=============================================================================
