--------------------------- MODULE MCJournalRegistry ---------------------------
(***************************************************************************)
(* Small instances of JournalRegistry for TLC: four of the listed journals,*)
(* among them two of which one's name begins the other's.                  *)
(***************************************************************************)
EXTENDS JournalRegistry, TLC

Nature == <<"nature">>
NatureCommunications == <<"nature", "communications">>
NatCommun == <<"nat", "commun">>
NatureComms == <<"nature", "comms">>
TheJasa == <<"the", "journal", "of", "the", "acoustical", "society">>
OldJasa == <<"journal", "of", "the", "acoustical", "society">>
Jasa == <<"jasa">>
Shengxue == <<"sheng", "xue">>
ActaAcustica == <<"acta", "acustica">>
ActaSinica == <<"acta", "acustica", "sinica">>

Names == {Nature, NatureCommunications, NatCommun, NatureComms, TheJasa, OldJasa, Jasa,
          Shengxue, ActaAcustica, ActaSinica, <<"acta_acustica_cn">>, <<"acta">>, <<"the">>}
Issns == {"0028-0836", "1476-4687", "2041-1723", "0001-4966", "0371-0025", "2681-4617"}
Sources == {"S137773608", "S64187185", "S11296630", "S4306546527", "S1"}
Ids == {"nature", "nature_communications", "jasa", "acta_acustica_cn"}

Listed ==
    {[id |-> "nature", names |-> <<Nature, Nature>>,
      spellings |-> << >>, aliases |-> {Nature},
      issns |-> {"0028-0836", "1476-4687"}, sources |-> {"S137773608"}],
     [id |-> "nature_communications", names |-> <<NatureCommunications, NatCommun>>,
      spellings |-> << >>, aliases |-> {NatureCommunications, NatureComms},
      issns |-> {"2041-1723"}, sources |-> {"S64187185"}],
     [id |-> "jasa", names |-> <<TheJasa, Jasa>>,
      spellings |-> << >>, aliases |-> {Jasa, OldJasa},
      issns |-> {"0001-4966"}, sources |-> {"S11296630"}],
     [id |-> "acta_acustica_cn", names |-> <<Shengxue, ActaSinica>>,
      spellings |-> << >>, aliases |-> {<<"acta_acustica_cn">>, ActaAcustica},
      issns |-> {"0371-0025"}, sources |-> {"S4306546527"}]}

NoIssn == << >>

Records ==
    [issns : {NoIssn, <<"2681-4617">>, <<"2681-4617", "0371-0025">>, <<"0001-4966">>},
     source : {None, "S1", "S64187185"},
     id : {None, "nature"},
     name : {None, Nature, OldJasa, TheJasa, ActaAcustica}]

Suffixes ==
    {<<"12">>, <<",", "vol", "12">>, <<"vol", "12", "(2024)">>, <<"(2024)">>, <<"reviews", "12">>}

Cited ==
    {name \o suffix : name \in {Nature, NatureCommunications, TheJasa, OldJasa, ActaSinica},
                      suffix \in Suffixes} \cup Names

Words == UNION {ElementsOf(words) : words \in Names \cup Cited}

\* These journals are as the theorems suppose.
ASSUME ListedAssumption == NamesApart /\ VolumesNumbered
=============================================================================
