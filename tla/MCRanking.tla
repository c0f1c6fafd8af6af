------------------------------- MODULE MCRanking -------------------------------
(***************************************************************************)
(* Small instances of Ranking for TLC: seven papers on sonar and fish.       *)
(***************************************************************************)
EXTENDS Ranking

Sonar == <<"sonar">>
Arrays == <<"sonar", "array">>
Underwater == <<"underwater", "acoustic", "array">>
Fish == <<"fish">>
Titles == <<Fish, Sonar, Arrays, Underwater>>
PlaceOf == [title \in Range(Titles) |-> CHOOSE n \in DOMAIN Titles : Titles[n] = title]

Weights ==
    [phrase \in {<<"underwater", "acoustic">>, <<"acoustic">>, <<"sonar">>} |->
        CASE phrase = <<"underwater", "acoustic">> -> 30
          [] phrase = <<"acoustic">> -> 8 [] OTHER -> 28]

Record(id, title, abstract, year, priority) ==
    [id |-> id, title |-> title, abstract |-> abstract, year |-> year, priority |-> priority]

\* Two papers that only source and provider_id tell apart, one that is acoustic in its
\* abstract alone, one that is so in both parts, and years: this, next, long ago, none.
Found ==
    {Record(1, Sonar, << >>, 2023, FALSE), Record(2, Sonar, << >>, 2023, FALSE),
     Record(3, Fish, Sonar, 2026, TRUE), Record(4, Underwater, Fish, None, FALSE),
     Record(5, Arrays, Arrays, 1990, TRUE), Record(6, Fish, Underwater \o Arrays, 2027, FALSE),
     Record(7, Fish, <<"sonar", "tank">>, 2024, FALSE)}

Asked == {{"sonar"}, {"array", "fish"}, {}}
=============================================================================
