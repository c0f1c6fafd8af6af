-------------------------------- MODULE Ranking --------------------------------
(***************************************************************************)
(* The tail of a search: acoustic scores, the acoustic filter, ranking and *)
(* the cut (src/litwatch/search/acoustic.py, ranking.py, service.py).      *)
(*                                                                         *)
(* A text is the sequence of its words, or of its characters where phrases *)
(* are looked for in those.  Scores are the exact numbers that the floats  *)
(* stand for, counted in millionths of a point; with topics of one, two or *)
(* four words the floats that are rounded are exact as well.               *)
(***************************************************************************)
EXTENDS Integers, Sequences, FiniteSets, Functions

CONSTANTS
    Papers,     \* the papers that passed the year and journal filters
    Topics,     \* topics, as sets of words
    Weight,     \* phrase -> its weight in hundredths
    TitleOrder, \* title -> its place in the order of titles
    ThisYear,
    Cuts,       \* values of limit
    Most,       \* the bound on how many papers there are at once
    None

\* No two papers of a search have title, source and provider_id in common, as records
\* with one provider_id are united before; the sort would leave such papers in the order
\* of their arrival.
ASSUME RankingAssumption ==
    /\ IsFiniteSet(Papers)
    /\ \A p \in Papers : /\ p.id \in Int
                        /\ p.title \in DOMAIN TitleOrder
                        /\ p.year \in Nat \cup {None}
    /\ \A p, q \in Papers : TitleOrder[p.title] = TitleOrder[q.title] /\ p.id = q.id => p = q
    /\ \A title \in DOMAIN TitleOrder : TitleOrder[title] \in Int
    /\ \A topic \in Topics : IsFiniteSet(topic)
    /\ IsFiniteSet(DOMAIN Weight)
    /\ \A phrase \in DOMAIN Weight : Weight[phrase] \in Nat
    /\ ThisYear \in Int
    /\ Cuts \subseteq Nat

VARIABLES
    asked, \* topic, whether journals were given, the papers in order, the limit
    shown  \* the papers of the response

rankingVars == <<asked, shown>>

-----------------------------------------------------------------------------
(* Acoustic relevance, in units of 0.0001.                                  *)

Contains(text, phrase) ==
    \E n \in 0..(Len(text) - Len(phrase)) : SubSeq(text, n + 1, n + Len(phrase)) = phrase

\* _evidence_score: every phrase counts once, also inside a longer one.  The sum of the
\* weights is the number of hundredths that all phrases have together.
EvidenceScore(text) ==
    LET found == {phrase \in DOMAIN Weight : Contains(text, phrase)}
    IN  Cardinality(UNION {{phrase} \X (1..Weight[phrase]) : phrase \in found})

Least(m, n) == IF m <= n THEN m ELSE n

\* score_acoustic_relevance
AcousticScore(p) ==
    Least(100 * EvidenceScore(p.title) + 35 * EvidenceScore(p.abstract), 10000)

Threshold == 2500

-----------------------------------------------------------------------------
(* The score of a paper.                                                    *)

Point == 1000000

\* The topic's words in a text.
Overlap(topic, text) == Cardinality(topic \cap Range(text))

\* A topic may have no word at all.
Words(topic) == IF topic = {} THEN 1 ELSE Cardinality(topic)

Relevance(topic, p) ==
    ((70 * Overlap(topic, p.title) + 25 * Overlap(topic, p.abstract)) * Point) \div Words(topic)

Age(p) == IF p.year > ThisYear THEN 0 ELSE ThisYear - p.year

\* 5 / (1 + age / 5)
Recency(p) == IF p.year = None THEN 0 ELSE (25 * Point) \div (5 + Age(p))

Bonus(p) == IF p.priority THEN 2 * Point ELSE 0

\* round(x, 2): hundredths of a point, a half to the even neighbour.
Hundredths(x) ==
    LET whole == x \div 10000
        rest  == x % 10000
    IN  IF rest > 5000 \/ (rest = 5000 /\ whole % 2 = 1) THEN whole + 1 ELSE whole

Score(topic, p) == Hundredths(Relevance(topic, p) + Recency(p) + Bonus(p))

-----------------------------------------------------------------------------
(* The order.                                                               *)

Sign(b) == IF b THEN -1 ELSE 0

Year(p) == IF p.year = None THEN 0 ELSE p.year

\* Faulty variant of LastResort: papers of one title stay as they came.
TitleOnly(p) == <<TitleOrder[p.title]>>

\* Title, source and provider_id; the last two are the place of a paper among all.
LastResort(p) == <<TitleOrder[p.title], p.id>>

\* The sort key with journals, and the one without.
JournalKey(topic, p) ==
    <<-AcousticScore(p), -Relevance(topic, p), Sign(p.abstract # << >>),
      Sign(p.priority), -Recency(p)>> \o LastResort(p)

GenericKey(topic, p) == <<-Score(topic, p), -Year(p)>> \o LastResort(p)

Below(u, v) ==
    \E n \in DOMAIN u : u[n] < v[n] /\ \A m \in 1..(n - 1) : u[m] = v[m]

Key(topic, journalMode, p) ==
    IF journalMode THEN JournalKey(topic, p) ELSE GenericKey(topic, p)

\* list.sort: by key, and what has the same key stays in its order.
Before(key, m, n) == Below(key[m], key[n]) \/ (key[m] = key[n] /\ m < n)

\* rank_papers, of the papers at some of the places of a list.
Ranked(papers, kept, topic, journalMode) ==
    LET key   == [n \in kept |-> Key(topic, journalMode, papers[n])]
        place == [n \in kept |-> 1 + Cardinality({m \in kept : Before(key, m, n)})]
    IN  [k \in 1..Cardinality(kept) |-> papers[CHOOSE n \in kept : place[n] = k]]

FirstOf(papers, limit) == SubSeq(papers, 1, Least(limit, Len(papers)))

Heard(p) == AcousticScore(p) >= Threshold

\* The papers that a search with journals leaves; without journals they all stay.
Kept(a) == {n \in DOMAIN a.papers : a.journals => Heard(a.papers[n])}

\* Faulty variant of Respond: the limit is applied before the papers are looked at.
RespondToFirst(a) ==
    Ranked(a.papers, {n \in Kept(a) : n <= a.limit}, a.topic, a.journals)

\* The end of search(): filter with journals, rank, cut.
Respond(a) == FirstOf(Ranked(a.papers, Kept(a), a.topic, a.journals), a.limit)

-----------------------------------------------------------------------------

InitRanking == asked = None /\ shown = << >>

Ask(topic, journals, papers, limit) ==
    /\ asked = None
    /\ asked' = [topic |-> topic, journals |-> journals, papers |-> papers, limit |-> limit]
    /\ shown' = Respond(asked')

\* The same search, whose papers come in another order or to another limit.
AskAgain(papers, limit) ==
    /\ asked # None
    /\ asked' = [asked EXCEPT !.papers = papers, !.limit = limit]
    /\ shown' = Respond(asked')

\* The orders that a set of papers may come in.
Arrangements(S) == {s \in [1..Cardinality(S) -> S] : Range(s) = S}

NextRanking ==
    \E limit \in Cuts :
       \/ \E topic \in Topics, journals \in BOOLEAN, S \in SUBSET Papers :
             /\ Cardinality(S) <= Most
             /\ \E papers \in Arrangements(S) : Ask(topic, journals, papers, limit)
       \/ /\ asked # None
          /\ \E papers \in Arrangements(Range(asked.papers)) : AskAgain(papers, limit)

SpecRanking == InitRanking /\ [][NextRanking]_rankingVars

-----------------------------------------------------------------------------
(* What must hold.                                                          *)

\* The same papers are ranked in the same way, whatever provider answered first, and a
\* larger limit only adds papers behind those of the smaller one.
ArrivalDoesNotMatter ==
    [][asked # None => \A n \in DOMAIN shown \cap DOMAIN shown' : shown'[n] = shown[n]]_rankingVars

\* The response is as long as the limit and the papers that qualify allow, so a paper
\* is never left out in favour of nothing.
LimitIsUsed ==
    asked # None =>
        LET qualified == {p \in Range(asked.papers) :
                             asked.journals => 100 * EvidenceScore(p.title)
                                                + 35 * EvidenceScore(p.abstract) >= 2500}
        IN  /\ Range(shown) \subseteq qualified
            /\ Cardinality(Range(shown)) = Len(shown)
            /\ Len(shown) = Least(asked.limit, Cardinality(qualified))
=============================================================================
