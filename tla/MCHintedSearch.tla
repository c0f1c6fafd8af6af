----------------------------- MODULE MCHintedSearch -----------------------------
(***************************************************************************)
(* Small instances of HintedSearch, and so of SearchService, for TLC: three*)
(* providers, a paper that all of them may know under different            *)
(* identifiers, dated and placed differently, and its neighbours.          *)
(***************************************************************************)
EXTENDS HintedSearch, TLC

Keys == {"openalex:w1", "openalex:w2", "arxiv:x1", "crossref:c1", "crossref:c2"}
Titles == {"t", "u"}
Text == [length |-> 1, blank |-> FALSE]
Longer == [length |-> 2, blank |-> FALSE]
Abstracts == {Text, Longer}

DoiForms == [v \in {"d1", "d2", "https://doi.org/d1"} |->
                IF v = "https://doi.org/d1" THEN "d1" ELSE v]
ArxivForms == [v \in {"a1", "a1v2"} |-> "a1"]
KeyForms == [v \in Keys |-> v]
TitleForms == [v \in Titles |-> v]

\* Only the longer abstract speaks of acoustics.
AcousticText == {<<title, Longer>> : title \in Titles}

Order == <<"openalex", "arxiv", "crossref">>
NoAnswers == [provider \in {"openalex", "arxiv", "crossref"} |-> {}]

Bare(provider, source, title) ==
    [doi |-> None, arxiv |-> None, aliases |-> << >>, source |-> source, title |-> title,
     abstract |-> Text, meta |-> NoMetadata, provider |-> provider]

-----------------------------------------------------------------------------
(* Records of which the identifiers, years and journals disagree.           *)

\* OpenAlex: without a year, or with the ISSN of another journal than its name.
Work == [Bare("openalex", "openalex:w1", "t") EXCEPT
            !.doi = "https://doi.org/d1", !.meta.sourceId = "Unlisted", !.meta.name = "nature"]
OtherWork == [Bare("openalex", "openalex:w2", "u") EXCEPT
            !.doi = "d2", !.meta.year = 2024, !.meta.issn = "jasa", !.meta.sourceId = "jasa",
            !.meta.name = "nature", !.abstract = Longer]

\* arXiv: the preprint, with a journal reference, under the title of the work.
Preprint == [Bare("arxiv", "arxiv:x1", "t") EXCEPT
            !.arxiv = "a1v2", !.meta.year = 2023, !.meta.journalId = "nature", !.meta.name = "nature",
            !.abstract = Longer]
OtherPreprint == [Preprint EXCEPT !.title = "u", !.arxiv = "a1", !.meta.year = None]

\* Crossref: the article, which bridges DOI and arXiv id, and one of another DOI.
Article == [Bare("crossref", "crossref:c1", "u") EXCEPT
            !.doi = "d1", !.arxiv = "a1", !.meta.year = 2024, !.meta.issn = "jasa", !.meta.name = "jasa"]
Namesake == [Bare("crossref", "crossref:c2", "t") EXCEPT
            !.doi = "d2", !.meta.year = 2023, !.meta.name = "nature", !.abstract = Longer]

-----------------------------------------------------------------------------
(* Papers of one provider each, or dated differently by two of them.        *)

Dated(record, doi, year, journal) ==
    [record EXCEPT !.doi = doi, !.abstract = Longer, !.meta.year = year, !.meta.issn = journal,
                   !.meta.name = journal,
                   !.meta.sourceId = IF record.provider = "openalex" THEN journal ELSE None]

Early == Dated(Bare("openalex", "openalex:w1", "t"), "d1", 2023, "nature")
Late == Dated(Bare("openalex", "openalex:w1", "t"), "d1", 2024, "jasa")
Last == Dated(Bare("openalex", "openalex:w2", "u"), "d2", 2025, "nature")
Undated == Dated(Bare("openalex", "openalex:w2", "u"), "d2", None, "nature")
LateArticle == Dated(Bare("crossref", "crossref:c1", "t"), "d1", 2024, "jasa")
LastArticle == Dated(Bare("crossref", "crossref:c2", "u"), "d2", 2025, "nature")

Nothing == << >>

Lists(provider) ==
    CASE provider = "openalex" ->
            {Nothing, <<Work>>, <<Work, OtherWork>>, <<Early>>, <<Late, Last>>, <<Undated>>}
      [] provider = "arxiv" -> {Nothing, <<Preprint>>, <<OtherPreprint>>}
      [] OTHER -> {Nothing, <<Article>>, <<Namesake, Article>>, <<LateArticle>>, <<LateArticle, LastArticle>>}

AllCatalogs ==
    {[provider \in Provider |-> CASE provider = "openalex" -> o [] provider = "arxiv" -> a
                                  [] OTHER -> c] :
        o \in Lists("openalex"), a \in Lists("arxiv"), c \in Lists("crossref")}

Ask(limit, journals, from, to) ==
    [blank |-> FALSE, limit |-> limit, journals |-> journals, from |-> from, to |-> to]

\* The last six are refused.
Searches ==
    {Ask(1, {}, None, None), Ask(5, {}, 2024, None), Ask(5, {}, 2023, 2024),
     Ask(5, {"nature"}, None, 2024), Ask(5, {"jasa"}, None, 2024),
     Ask(5, {"jasa", "nature"}, 2024, None),
     Ask(5, {}, 2024, 2023), Ask(5, {"Unlisted"}, None, None), Ask(0, {}, None, None),
     Ask(51, {}, None, None), Ask(5, {}, None, 999),
     [Ask(5, {}, None, None) EXCEPT !.blank = TRUE]}
=============================================================================
