----------------------------- MODULE MCSavedSearch -----------------------------
(***************************************************************************)
(* Small instances of SavedSearch for TLC: one paper that two providers    *)
(* date and place differently, a preprint of it, and a paper of another    *)
(* DOI, found by searches with and without filters.                        *)
(***************************************************************************)
EXTENDS SavedSearch, TLC

Keys == {"openalex:w1", "openalex:w2", "crossref:c1", "crossref:c2"}
Titles == {"t", "u", "v"}
Text == [length |-> 1, blank |-> FALSE]
Pending == [length |-> 0, blank |-> TRUE]
Abstracts == {Text, Pending}

DoiForms == [v \in {"d1", "d2", "https://doi.org/d1"} |->
                IF v = "https://doi.org/d1" THEN "d1" ELSE v]
ArxivForms == [v \in {"a1"} |-> v]
KeyForms == [v \in Keys |-> v]
TitleForms == [v \in Titles |-> v]
AcousticText == {<<title, Text>> : title \in Titles}
Order == <<"openalex", "crossref">>

\* The work, dated by OpenAlex with its preprint, and by Crossref with its issue.
TheWork ==
    [doi |-> "https://doi.org/d1", arxiv |-> "a1", aliases |-> << >>,
     source |-> "openalex:w1", title |-> "t", abstract |-> Text, provider |-> "openalex",
     meta |-> [NoMetadata EXCEPT !.year = 2023, !.sourceId = "nature"]]
Article ==
    [TheWork EXCEPT !.doi = "d1", !.arxiv = None, !.source = "crossref:c1",
                    !.provider = "crossref", !.meta.year = 2024, !.meta.issn = "jasa",
                    !.meta.sourceId = None, !.meta.name = "jasa", !.abstract = Pending]

\* OpenAlex's other record, of the preprint: no DOI, and no year.
Preprint == [TheWork EXCEPT !.doi = None, !.source = "openalex:w2", !.title = "v",
             !.meta = NoMetadata]
Other == [Article EXCEPT !.doi = "d2", !.source = "crossref:c2", !.title = "u",
          !.meta.year = None, !.meta.issn = None, !.meta.name = "nature",
          !.abstract = Text]

ProviderAnswers ==
    [provider \in {"openalex", "crossref"} |->
        IF provider = "openalex" THEN {<<TheWork>>, <<Preprint>>}
        ELSE {<<Other, Article>>}]

Ask(journals, from) ==
    [blank |-> FALSE, limit |-> 2, journals |-> journals, from |-> from, to |-> None]

\* The last one is refused.
Searches ==
    {Ask({}, None), Ask({}, 2024), Ask({"jasa"}, None), [Ask({}, None) EXCEPT !.blank = TRUE]}
=============================================================================
