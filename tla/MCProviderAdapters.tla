-------------------------- MODULE MCProviderAdapters --------------------------
(***************************************************************************)
(* Small instances of ProviderAdapters for TLC: answers of up to three     *)
(* items, of every kind the adapters tell apart.                           *)
(***************************************************************************)
EXTENDS ProviderAdapters, TLC

Ids == {"w1", "w2"}
Titles == {"t", "u"}
Dois == {"d1", "d2"}
Text == [length |-> 1, blank |-> FALSE]
NoText == [length |-> 0, blank |-> TRUE]
Abstracts == {Text, NoText}

\* A spelling may hold no DOI at all.
DoiForms == [v \in Dois \cup {"https://doi.org/d1", "doi:"} |->
                CASE v = "https://doi.org/d1" -> "d1" [] v = "doi:" -> None [] OTHER -> v]
ArxivForms == [v \in Ids \cup {"w1v2"} |-> IF v = "w1v2" THEN "w1" ELSE v]
TitleForms == [v \in Titles |-> v]
KeyForms == [v \in Provider \X (Ids \cup Dois \cup Titles) |-> v]
Keys == DOMAIN KeyForms

Full == [object |-> TRUE, title |-> "t", id |-> "w1", doi |-> "https://doi.org/d1", arxiv |-> "w1v2",
         abstract |-> Text, meta |-> NoMetadata, broken |-> "no"]
Other == [Full EXCEPT !.id = "w2", !.doi = "d2", !.arxiv = None]

Items ==
    {Full, Other, [Full EXCEPT !.object = FALSE], [Full EXCEPT !.title = None],
     [Full EXCEPT !.id = None], [Other EXCEPT !.doi = None, !.title = "u"],
     [Full EXCEPT !.id = None, !.doi = None, !.abstract = NoText],
     [Full EXCEPT !.id = None, !.doi = "doi:"],
     [Full EXCEPT !.broken = "ValueError"], [Full EXCEPT !.broken = "AttributeError"],
     [Full EXCEPT !.title = None, !.broken = "AttributeError"]}

NoItems == << >>

\* A service gives one id to one work only, so to one DOI.
Lists ==
    {list \in {NoItems} \cup {<<item>> : item \in Items} \cup Items \X Items
                 \cup {<<Full, item, Other>> : item \in Items} :
        \A m, n \in DOMAIN list :
            list[m].id # None /\ list[m].id = list[n].id =>
                Normalize(DoiForms, list[m].doi) = Normalize(DoiForms, list[n].doi)}

\* These answers are as the theorems suppose.
ASSUME ListsAssumption == IdentifiersApart
=============================================================================
