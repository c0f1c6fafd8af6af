----------------------------- MODULE RankingProofs -----------------------------
(***************************************************************************)
(* Theorems about Ranking.  The keys that papers are sorted by are ordered *)
(* totally, and they end in what tells two papers apart.  So the place of  *)
(* a paper is one more than the number of qualified papers with a smaller  *)
(* key, which neither the order of arrival nor the limit has a part in.    *)
(***************************************************************************)
EXTENDS Ranking, FiniteSetTheorems, SequenceTheorems, WellFoundedInduction, TLAPS

-----------------------------------------------------------------------------
(* Keys.                                                                    *)

\* Two keys that differ do so at a first place.
LEMMA FirstDifference ==
    ASSUME NEW w \in Nat, NEW u \in [1..w -> Int], NEW v \in [1..w -> Int], u # v
    PROVE  \E n \in 1..w : u[n] # v[n] /\ \A m \in 1..(n - 1) : u[m] = v[m]
<1> DEFINE less == OpToRel(<, Nat)
           apart == {n \in 1..w : u[n] # v[n]}
<1>1. less = {pair \in Nat \X Nat : pair[1] < pair[2]}
    BY DEF OpToRel
<1>2. IsWellFoundedOn(less, Nat)
    BY NatLessThanWellFounded
<1>3. apart \subseteq Nat /\ apart # {}
    OBVIOUS
<1> HIDE DEF less
<1>4. PICK n \in apart : \A m \in apart : ~(<<m, n>> \in less)
    <2> HIDE DEF apart
    <2> QED
        BY <1>2, <1>3, WFMin
<1>5. ASSUME NEW m \in 1..(n - 1) PROVE u[m] = v[m]
    <2>1. n \in 1..w /\ m \in 1..w /\ m < n
        OBVIOUS
    <2>2. <<m, n>> \in less
        BY <1>1, <2>1
    <2> QED
        BY <1>4, <2>1, <2>2
<1> QED
    BY <1>5

\* Keys of one length are in a strict total order.
LEMMA KeysInOrder ==
    ASSUME NEW w \in Nat, NEW u \in [1..w -> Int], NEW v \in [1..w -> Int]
    PROVE  /\ ~Below(u, u)
           /\ Below(u, v) => ~Below(v, u) /\ u # v
           /\ u # v => Below(u, v) \/ Below(v, u)
           /\ \A x \in [1..w -> Int] : Below(u, v) /\ Below(v, x) => Below(u, x)
<1>1. ~Below(u, u)
    BY DEF Below
<1>2. ASSUME NEW x \in [1..w -> Int], Below(u, v), Below(v, x)
      PROVE  Below(u, x)
    <2>1. PICK m \in 1..w : u[m] < v[m] /\ \A i \in 1..(m - 1) : u[i] = v[i]
        BY <1>2 DEF Below
    <2>2. PICK n \in 1..w : v[n] < x[n] /\ \A i \in 1..(n - 1) : v[i] = x[i]
        BY <1>2 DEF Below
    <2>3. CASE m <= n
        <3>1. u[m] < x[m]
            <4>1. m < n => v[m] = x[m]
                BY <2>2
            <4> QED
                BY <2>1, <2>2, <2>3, <4>1
        <3>2. \A i \in 1..(m - 1) : u[i] = x[i]
            BY <2>1, <2>2, <2>3
        <3> QED
            BY <3>1, <3>2 DEF Below
    <2>4. CASE n < m
        <3>1. u[n] < x[n] /\ \A i \in 1..(n - 1) : u[i] = x[i]
            BY <2>1, <2>2, <2>4
        <3> QED
            BY <3>1 DEF Below
    <2> QED
        BY <2>3, <2>4
<1>3. Below(u, v) => ~Below(v, u) /\ u # v
    BY <1>1, <1>2
<1>4. ASSUME u # v PROVE Below(u, v) \/ Below(v, u)
    <2>1. PICK n \in 1..w : u[n] # v[n] /\ \A m \in 1..(n - 1) : u[m] = v[m]
        BY <1>4, FirstDifference
    <2>2. u[n] < v[n] \/ v[n] < u[n]
        BY <2>1
    <2> QED
        BY <2>1, <2>2 DEF Below
<1> QED
    BY <1>1, <1>2, <1>3, <1>4

\* What phrases add to a score is a natural number.
LEMMA EvidenceType ==
    ASSUME NEW text
    PROVE  EvidenceScore(text) \in Nat
<1> DEFINE found == {phrase \in DOMAIN Weight : Contains(text, phrase)}
           parts == {{phrase} \X (1..Weight[phrase]) : phrase \in found}
<1>1. IsFiniteSet(found)
    BY RankingAssumption, FS_Subset
<1>2. \A phrase \in found : IsFiniteSet({phrase} \X (1..Weight[phrase]))
    <2>1. SUFFICES ASSUME NEW phrase \in found
                   PROVE  IsFiniteSet({phrase} \X (1..Weight[phrase]))
        OBVIOUS
    <2>2. IsFiniteSet({phrase})
        BY FS_Singleton
    <2>3. IsFiniteSet(1..Weight[phrase])
        <3>1. Weight[phrase] \in Int
            BY RankingAssumption
        <3> QED
            BY <3>1, FS_Interval
    <2> QED
        BY <2>2, <2>3, FS_Product
<1>3. IsFiniteSet(parts)
    <2> DEFINE part == [phrase \in found |-> {phrase} \X (1..Weight[phrase])]
    <2> HIDE DEF found
    <2>1. part \in Surjection(found, parts)
        BY DEF Surjection
    <2> HIDE DEF part, parts
    <2> QED
        BY <1>1, <2>1, FS_Surjection
<1>4. IsFiniteSet(UNION parts)
    <2>1. \A part \in parts : IsFiniteSet(part)
        BY <1>2
    <2> HIDE DEF parts
    <2> QED
        BY <1>3, <2>1, FS_UNION
<1> QED
    BY <1>4, FS_CardinalityType DEF EvidenceScore

\* How many numbers a key has.
Width(journalMode) == IF journalMode THEN 7 ELSE 4

\* A key consists of so many integers, and it tells any two papers apart.
LEMMA KeyType ==
    ASSUME NEW topic \in Topics, NEW journalMode \in BOOLEAN, NEW p \in Papers
    PROVE  /\ Key(topic, journalMode, p) \in [1..Width(journalMode) -> Int]
           /\ \A q \in Papers :
                 Key(topic, journalMode, p) = Key(topic, journalMode, q) => p = q
<1>1. ASSUME NEW q \in Papers
      PROVE  /\ Relevance(topic, q) \in Int
             /\ Recency(q) \in Int
             /\ AcousticScore(q) \in Int
             /\ Year(q) \in Int
    <2>1. IsFiniteSet(topic)
        BY RankingAssumption
    <2>2. \A text : Overlap(topic, text) \in Nat
        <3>1. \A text : topic \cap Range(text) \in SUBSET topic
            OBVIOUS
        <3> QED
            BY <2>1, <3>1, FS_Subset, FS_CardinalityType DEF Overlap
    <2>3. Words(topic) \in Nat /\ Words(topic) > 0
        BY <2>1, FS_CardinalityType, FS_EmptySet DEF Words
    <2>4. Relevance(topic, q) \in Int
        <3>1. (70 * Overlap(topic, q.title) + 25 * Overlap(topic, q.abstract)) * Point \in Int
            BY <2>2 DEF Point
        <3> QED
            BY <2>3, <3>1 DEF Relevance
    <2>5. Recency(q) \in Int
        <3>1. CASE q.year = None
            BY <3>1 DEF Recency
        <3>2. CASE q.year # None
            <4>1. Age(q) \in Nat
                BY <3>2, RankingAssumption DEF Age
            <4> QED
                BY <3>2, <4>1 DEF Recency, Point
        <3> QED
            BY <3>1, <3>2
    <2>6. AcousticScore(q) \in Int
        BY EvidenceType DEF AcousticScore, Least
    <2>7. Year(q) \in Int
        BY RankingAssumption DEF Year
    <2> QED
        BY <2>4, <2>5, <2>6, <2>7
<1>2. ASSUME NEW q \in Papers, NEW head \in Seq(Int)
      PROVE  /\ head \o LastResort(q) \in [1..(Len(head) + 2) -> Int]
             /\ (head \o LastResort(q))[Len(head) + 1] = TitleOrder[q.title]
             /\ (head \o LastResort(q))[Len(head) + 2] = q.id
    <2>1. /\ LastResort(q) \in Seq(Int) /\ Len(LastResort(q)) = 2
          /\ LastResort(q)[1] = TitleOrder[q.title] /\ LastResort(q)[2] = q.id
        BY RankingAssumption DEF LastResort
    <2>2. Len(head) \in Nat
        OBVIOUS
    <2>3. /\ head \o LastResort(q) \in Seq(Int)
          /\ Len(head \o LastResort(q)) = Len(head) + 2
          /\ \A i \in 1..(Len(head) + 2) :
                (head \o LastResort(q))[i] =
                    IF i <= Len(head) THEN head[i] ELSE LastResort(q)[i - Len(head)]
        <3> DEFINE tail == LastResort(q)
        <3>1. tail \in Seq(Int) /\ Len(tail) = 2
            BY <2>1
        <3> HIDE DEF tail
        <3>2. /\ head \o tail \in Seq(Int)
              /\ Len(head \o tail) = Len(head) + Len(tail)
              /\ \A i \in 1..(Len(head) + Len(tail)) :
                    (head \o tail)[i] = IF i <= Len(head) THEN head[i] ELSE tail[i - Len(head)]
            BY <3>1, ConcatProperties, Zenon
        <3> QED
            BY <3>1, <3>2 DEF tail
    <2> DEFINE both == head \o LastResort(q)
    <2>4. both \in [1..(Len(head) + 2) -> Int]
        <3>1. both \in Seq(Int) /\ Len(both) = Len(head) + 2
            BY <2>3
        <3> HIDE DEF both
        <3> QED
            BY <3>1
    <2>5. both[Len(head) + 1] = LastResort(q)[1] /\ both[Len(head) + 2] = LastResort(q)[2]
        BY <2>2, <2>3
    <2> QED
        BY <2>1, <2>4, <2>5
<1> DEFINE w == Width(journalMode)
           key(q) == Key(topic, journalMode, q)
<1>3. ASSUME NEW q \in Papers
      PROVE  /\ key(q) \in [1..w -> Int]
             /\ key(q)[w - 1] = TitleOrder[q.title]
             /\ key(q)[w] = q.id
    <2>1. CASE journalMode
        <3> DEFINE head == <<-AcousticScore(q), -Relevance(topic, q), Sign(q.abstract # << >>),
                             Sign(q.priority), -Recency(q)>>
        <3>1. head \in Seq(Int) /\ Len(head) = 5
            BY <1>1 DEF Sign
        <3>2. key(q) = head \o LastResort(q) /\ w = 7
            BY <2>1 DEF Key, JournalKey, Width
        <3> HIDE DEF head, key, w
        <3>3. /\ head \o LastResort(q) \in [1..(5 + 2) -> Int]
              /\ (head \o LastResort(q))[5 + 1] = TitleOrder[q.title]
              /\ (head \o LastResort(q))[5 + 2] = q.id
            BY <1>2, <3>1
        <3> QED
            BY <3>2, <3>3
    <2>2. CASE ~journalMode
        <3> DEFINE head == <<-Score(topic, q), -Year(q)>>
        <3>1. head \in Seq(Int) /\ Len(head) = 2
            <4>1. Score(topic, q) \in Int
                <5>1. Relevance(topic, q) + Recency(q) + Bonus(q) \in Int
                    BY <1>1 DEF Bonus, Point
                <5> QED
                    BY <5>1 DEF Score, Hundredths
            <4> QED
                BY <1>1, <4>1
        <3>2. key(q) = head \o LastResort(q) /\ w = 4
            BY <2>2 DEF Key, GenericKey, Width
        <3> HIDE DEF head, key, w
        <3>3. /\ head \o LastResort(q) \in [1..(2 + 2) -> Int]
              /\ (head \o LastResort(q))[2 + 1] = TitleOrder[q.title]
              /\ (head \o LastResort(q))[2 + 2] = q.id
            BY <1>2, <3>1
        <3> QED
            BY <3>2, <3>3
    <2> QED
        BY <2>1, <2>2
<1>4. ASSUME NEW q \in Papers, key(p) = key(q)
      PROVE  p = q
    <2>1. TitleOrder[p.title] = TitleOrder[q.title] /\ p.id = q.id
        BY <1>3, <1>4
    <2> QED
        BY <2>1, RankingAssumption
<1> QED
    BY <1>3, <1>4

-----------------------------------------------------------------------------
(* Places.                                                                  *)

\* What a search is asked: papers that differ, to be ranked on a topic, and a limit.
Typed(a) ==
    /\ a \in [topic : Topics, journals : BOOLEAN, limit : Cuts,
               papers : Arrangements(Range(a.papers))]
    /\ Range(a.papers) \subseteq Papers

KeyOf(a, p) == Key(a.topic, a.journals, p)

Qualified(a) == {p \in Range(a.papers) : a.journals => Heard(p)}

\* The place of a paper among those that qualify.
PlaceIn(a, p) == 1 + Cardinality({q \in Qualified(a) : Below(KeyOf(a, q), KeyOf(a, p))})

\* A paper is at one place of an arrangement, so papers and places are the same thing.
LEMMA PlacesAndPapers ==
    ASSUME NEW a, Typed(a)
    PROVE  /\ IsFiniteSet(Kept(a)) /\ Kept(a) \subseteq Nat
           /\ IsFiniteSet(Qualified(a)) /\ Qualified(a) \subseteq Papers
           /\ Cardinality(Qualified(a)) = Cardinality(Kept(a))
           /\ Cardinality(Kept(a)) \in Nat
           /\ [n \in Kept(a) |-> a.papers[n]] \in Bijection(Kept(a), Qualified(a))
<1> DEFINE S == Range(a.papers)
           size == Cardinality(S)
           at == [n \in Kept(a) |-> a.papers[n]]
<1>1. IsFiniteSet(S) /\ size \in Nat
    BY RankingAssumption, FS_Subset, FS_CardinalityType DEF Typed
<1>2. a.papers \in [1..size -> S]
    BY DEF Typed, Arrangements
<1>3. a.papers \in Injection(1..size, S)
    <2>1. a.papers \in Surjection(1..size, S)
        BY <1>2 DEF Surjection, Range
    <2>2. IsFiniteSet(1..size) /\ Cardinality(1..size) = size
        BY <1>1, FS_Interval
    <2> HIDE DEF S
    <2> QED
        BY <2>1, <2>2, FS_Surjection
<1>4. Kept(a) \in SUBSET (1..size)
    BY <1>2 DEF Kept
<1>5. IsFiniteSet(Kept(a)) /\ Cardinality(Kept(a)) \in Nat
    <2>1. IsFiniteSet(1..size)
        BY <1>1, FS_Interval
    <2> HIDE DEF size
    <2> QED
        BY <1>4, <2>1, FS_Subset, FS_CardinalityType
<1>6. at \in Bijection(Kept(a), Qualified(a))
    <2>1. \A n \in Kept(a) : a.papers[n] \in Qualified(a)
        BY <1>2, <1>4 DEF Kept, Qualified
    <2>2. \A p \in Qualified(a) : \E n \in Kept(a) : a.papers[n] = p
        BY <1>2 DEF Kept, Qualified, Range
    <2>3. \A m, n \in Kept(a) : a.papers[m] = a.papers[n] => m = n
        BY <1>3, <1>4 DEF Injection, IsInjective
    <2>4. at \in Injection(Kept(a), Qualified(a))
        BY <2>1, <2>3 DEF Injection, IsInjective
    <2>5. at \in Surjection(Kept(a), Qualified(a))
        BY <2>1, <2>2 DEF Surjection
    <2> QED
        BY <2>4, <2>5 DEF Bijection
<1>7. IsFiniteSet(Qualified(a)) /\ Cardinality(Qualified(a)) = Cardinality(Kept(a))
    <2>1. ExistsBijection(Kept(a), Qualified(a))
        BY <1>6 DEF ExistsBijection
    <2> QED
        BY <1>5, <2>1, FS_Bijection
<1> QED
    BY <1>4, <1>5, <1>6, <1>7 DEF Typed, Qualified

\* Each paper that qualifies has a place of its own, and no place is left out.
LEMMA PlacesTaken ==
    ASSUME NEW a, Typed(a)
    PROVE  [p \in Qualified(a) |-> PlaceIn(a, p)]
               \in Bijection(Qualified(a), 1..Cardinality(Qualified(a)))
<1> DEFINE Q == Qualified(a)
           size == Cardinality(Q)
           key(p) == KeyOf(a, p)
           lower(p) == {q \in Q : Below(key(q), key(p))}
           place == [p \in Q |-> PlaceIn(a, p)]
<1>1. IsFiniteSet(Q) /\ size \in Nat
    BY PlacesAndPapers
<1>2. /\ \A p \in Q : key(p) \in [1..Width(a.journals) -> Int]
      /\ \A p, q \in Q : key(p) = key(q) => p = q
      /\ Width(a.journals) \in Nat
    <2>1. \A p \in Q : p \in Papers
        BY PlacesAndPapers
    <2> HIDE DEF Q
    <2> QED
        BY <2>1, KeyType DEF KeyOf, Typed, Width
<1>3. /\ \A p \in Q : ~Below(key(p), key(p))
      /\ \A p, q \in Q : p # q => Below(key(p), key(q)) \/ Below(key(q), key(p))
      /\ \A p, q, r \in Q :
            Below(key(p), key(q)) /\ Below(key(q), key(r)) => Below(key(p), key(r))
    <2> HIDE DEF Q, key
    <2> QED
        BY <1>2, KeysInOrder
<1>4. \A p \in Q : place[p] = 1 + Cardinality(lower(p))
    BY DEF PlaceIn
<1> HIDE DEF key, place
<1>5. \A p \in Q : IsFiniteSet(lower(p)) /\ Cardinality(lower(p)) \in 0..(size - 1)
    <2>1. SUFFICES ASSUME NEW p \in Q
                   PROVE  IsFiniteSet(lower(p)) /\ Cardinality(lower(p)) \in 0..(size - 1)
        OBVIOUS
    <2>2. lower(p) \in SUBSET Q /\ p \notin lower(p)
        BY <1>3
    <2>3. lower(p) # Q
        BY <2>2
    <2> HIDE DEF lower, Q
    <2>4. /\ IsFiniteSet(lower(p)) /\ Cardinality(lower(p)) \in Nat
          /\ Cardinality(lower(p)) <= size /\ Cardinality(lower(p)) # size
        BY <1>1, <2>2, <2>3, FS_Subset, FS_CardinalityType
    <2> QED
        BY <1>1, <2>4
<1>6. ASSUME NEW p \in Q, NEW q \in Q, Below(key(p), key(q))
      PROVE  place[p] < place[q]
    <2>1. lower(p) \in SUBSET lower(q) /\ p \in lower(q) /\ p \notin lower(p)
        BY <1>3, <1>6
    <2>2. lower(p) # lower(q)
        BY <2>1
    <2> HIDE DEF lower, Q
    <2>3. /\ Cardinality(lower(p)) <= Cardinality(lower(q))
          /\ Cardinality(lower(p)) # Cardinality(lower(q))
        BY <1>5, <2>1, <2>2, FS_Subset
    <2>4. Cardinality(lower(p)) \in Int /\ Cardinality(lower(q)) \in Int
        BY <1>1, <1>5
    <2> QED
        BY <1>4, <2>3, <2>4
<1>7. place \in Injection(Q, 1..size)
    <2>1. place \in [Q -> 1..size]
        <3>1. \A p \in Q : place[p] \in 1..size
            <4> HIDE DEF Q, lower, size
            <4> QED
                BY <1>1, <1>4, <1>5
        <3>2. place \in [Q -> {place[p] : p \in Q}]
            BY DEF place
        <3> QED
            BY <3>1, <3>2
    <2>2. \A p, q \in Q : place[p] = place[q] => p = q
        <3>1. \A p \in Q : place[p] \in Int
            BY <1>1, <2>1
        <3> HIDE DEF Q
        <3> QED
            BY <1>3, <1>6, <3>1
    <2> QED
        BY <2>1, <2>2 DEF Injection, IsInjective
<1>8. place \in Surjection(Q, 1..size)
    <2>1. IsFiniteSet(1..size) /\ Cardinality(1..size) = size
        BY <1>1, FS_Interval
    <2> HIDE DEF Q
    <2> QED
        BY <1>7, <2>1, FS_Injection
<1> QED
    BY <1>7, <1>8 DEF Bijection, place

\* What is shown: first things first, up to the limit.
LEMMA Shown ==
    ASSUME NEW a, Typed(a)
    PROVE  /\ Len(Respond(a)) = Least(a.limit, Cardinality(Qualified(a)))
           /\ DOMAIN Respond(a) = 1..Len(Respond(a))
           /\ \A k \in DOMAIN Respond(a) :
                 Respond(a)[k] \in Qualified(a) /\ PlaceIn(a, Respond(a)[k]) = k
<1> DEFINE kept == Kept(a)
           Q == Qualified(a)
           size == Cardinality(Q)
           key == [n \in kept |-> Key(a.topic, a.journals, a.papers[n])]
           lower(n) == {m \in kept : Before(key, m, n)}
           place == [n \in kept |-> 1 + Cardinality(lower(n))]
           all == Ranked(a.papers, kept, a.topic, a.journals)
           at == [n \in kept |-> a.papers[n]]
           placeIn == [p \in Q |-> PlaceIn(a, p)]
<1>1. /\ IsFiniteSet(kept) /\ kept \subseteq Nat
      /\ IsFiniteSet(Q) /\ Q \subseteq Papers
      /\ size = Cardinality(kept) /\ size \in Nat
      /\ at \in Bijection(kept, Q)
    BY PlacesAndPapers
<1>2. placeIn \in Bijection(Q, 1..size)
    BY PlacesTaken
<1>3. /\ \A n \in kept : at[n] \in Q
      /\ \A m, n \in kept : at[m] = at[n] => m = n
      /\ \A p \in Q : \E n \in kept : at[n] = p
    BY <1>1 DEF Bijection, Injection, IsInjective, Surjection
<1>4. \A n \in kept : key[n] = KeyOf(a, at[n])
    BY DEF KeyOf
<1>5. \A m, n \in kept : Before(key, m, n) <=> Below(KeyOf(a, at[m]), KeyOf(a, at[n]))
    <2>1. SUFFICES ASSUME NEW m \in kept, NEW n \in kept
                   PROVE  Before(key, m, n) <=> Below(KeyOf(a, at[m]), KeyOf(a, at[n]))
        OBVIOUS
    <2>2. key[m] = key[n] => m = n
        <3>1. at[m] \in Papers /\ at[n] \in Papers
            BY <1>1, <1>3
        <3>2. KeyOf(a, at[m]) = KeyOf(a, at[n]) => at[m] = at[n]
            BY <3>1, KeyType DEF KeyOf, Typed
        <3> QED
            BY <1>3, <1>4, <3>2
    <2>3. ~(m < m)
        BY <1>1
    <2> HIDE DEF kept, key, at
    <2> QED
        BY <1>4, <2>2, <2>3 DEF Before
<1>6. ASSUME NEW n \in kept
      PROVE  place[n] = PlaceIn(a, at[n])
    <2> DEFINE less == {q \in Q : Below(KeyOf(a, q), KeyOf(a, at[n]))}
               sent == [m \in lower(n) |-> at[m]]
    <2>1. lower(n) \in SUBSET kept
        OBVIOUS
    <2>2. sent \in Injection(lower(n), less)
        <3>1. \A m \in lower(n) : m \in kept /\ at[m] \in less
            BY <1>3, <1>5
        <3>2. \A i, m \in lower(n) : at[i] = at[m] => i = m
            BY <1>3, <3>1
        <3> HIDE DEF lower, less, at, kept
        <3> QED
            BY <3>1, <3>2 DEF Injection, IsInjective
    <2>3. sent \in Surjection(lower(n), less)
        <3>1. \A q \in less : \E m \in kept : at[m] = q
            BY <1>3
        <3>2. \A m \in kept : at[m] \in less => m \in lower(n)
            BY <1>5
        <3>3. sent \in [lower(n) -> less]
            BY <2>2 DEF Injection
        <3> HIDE DEF lower, less, at, kept
        <3> QED
            BY <3>1, <3>2, <3>3 DEF Surjection
    <2>4. ExistsBijection(lower(n), less)
        BY <2>2, <2>3 DEF Bijection, ExistsBijection
    <2>5. IsFiniteSet(lower(n))
        BY <1>1, <2>1, FS_Subset
    <2>6. Cardinality(less) = Cardinality(lower(n))
        <3> HIDE DEF lower, less
        <3> QED
            BY <2>4, <2>5, FS_Bijection
    <2> QED
        BY <2>6 DEF PlaceIn
<1>7. /\ all = [k \in 1..size |-> a.papers[CHOOSE n \in kept : place[n] = k]]
      /\ Len(all) = size
      /\ \A k \in 1..size : all[k] \in Q /\ PlaceIn(a, all[k]) = k
    <2>1. all = [k \in 1..size |-> a.papers[CHOOSE n \in kept : place[n] = k]]
        BY <1>1 DEF Ranked
    <2>2. ASSUME NEW k \in 1..size
          PROVE  all[k] \in Q /\ PlaceIn(a, all[k]) = k
        <3>1. PICK p \in Q : PlaceIn(a, p) = k
            BY <1>2 DEF Bijection, Surjection
        <3>2. PICK n \in kept : at[n] = p
            BY <1>3
        <3>3. place[n] = k
            BY <1>6, <3>1, <3>2
        <3> DEFINE chosen == CHOOSE m \in kept : place[m] = k
        <3>4. chosen \in kept /\ place[chosen] = k
            BY <3>3
        <3>5. all[k] = at[chosen]
            BY <2>1, <3>4
        <3> HIDE DEF chosen, place, at, all
        <3> QED
            BY <1>3, <1>6, <3>4, <3>5
    <2>3. Len(all) = size
        BY <1>1, <2>1
    <2> QED
        BY <2>1, <2>2, <2>3
<1> HIDE DEF all
<1> DEFINE last == Least(a.limit, size)
<1>8. last \in Nat /\ \A k \in 1..last : k \in 1..size
    <2>1. a.limit \in Nat
        BY RankingAssumption DEF Typed
    <2>2. size \in Nat
        BY <1>1
    <2> HIDE DEF size
    <2> QED
        BY <2>1, <2>2 DEF Least
<1>9. Respond(a) = SubSeq(all, 1, last)
    BY <1>7 DEF Respond, FirstOf, all
<1>10. /\ Respond(a) \in Seq(Q)
       /\ Len(Respond(a)) = last
       /\ \A k \in 1..last : Respond(a)[k] = all[k]
    <2>1. \A k \in 1..last : all[k] \in Q
        <3> HIDE DEF Q, last, size
        <3> QED
            BY <1>7, <1>8
    <2> HIDE DEF Q, last, size
    <2>2. /\ Respond(a) \in Seq(Q)
          /\ Len(Respond(a)) = IF 1 <= last THEN last - 1 + 1 ELSE 0
          /\ \A k \in 1..(last - 1 + 1) : Respond(a)[k] = all[1 + k - 1]
        BY <1>8, <1>9, <2>1, SubSeqProperties
    <2> QED
        BY <1>8, <2>2
<1>11. DOMAIN Respond(a) = 1..last
    <2> HIDE DEF Q, last
    <2> QED
        BY <1>10
<1>12. \A k \in 1..last : Respond(a)[k] \in Q /\ PlaceIn(a, Respond(a)[k]) = k
    <2> HIDE DEF Q, last, size
    <2> QED
        BY <1>7, <1>8, <1>10
<1> QED
    BY <1>10, <1>11, <1>12

-----------------------------------------------------------------------------
(* The search.                                                              *)

\* The inductive invariant: what is shown answers what was asked.
RankingInv == asked # None => Typed(asked) /\ shown = Respond(asked)

\* Before anything is asked there is nothing to answer.
LEMMA RankingBegins == InitRanking => RankingInv
    BY DEF InitRanking, RankingInv

\* An arrangement of papers is an arrangement of its own papers.
LEMMA ArrangedAgain ==
    ASSUME NEW S, NEW s \in Arrangements(S)
    PROVE  Range(s) = S /\ s \in Arrangements(Range(s))
    BY DEF Arrangements

\* Every answer is to a question that is typed, whoever asked before.
LEMMA RankingStep ==
    ASSUME RankingInv, NextRanking
    PROVE  /\ Typed(asked') /\ shown' = Respond(asked')
           /\ asked # None =>
                 /\ asked'.topic = asked.topic /\ asked'.journals = asked.journals
                 /\ Range(asked'.papers) = Range(asked.papers)
<1>1. PICK limit \in Cuts :
          \/ \E topic \in Topics, journals \in BOOLEAN, S \in SUBSET Papers :
                /\ Cardinality(S) <= Most
                /\ \E list \in Arrangements(S) : Ask(topic, journals, list, limit)
          \/ /\ asked # None
             /\ \E list \in Arrangements(Range(asked.papers)) : AskAgain(list, limit)
    BY DEF NextRanking
<1>2. ASSUME NEW topic \in Topics, NEW journals \in BOOLEAN, NEW S \in SUBSET Papers,
             NEW list \in Arrangements(S), Ask(topic, journals, list, limit)
      PROVE  Typed(asked') /\ shown' = Respond(asked') /\ asked = None
    <2>1. /\ asked = None /\ shown' = Respond(asked')
          /\ asked' = [topic |-> topic, journals |-> journals, papers |-> list, limit |-> limit]
        BY <1>2 DEF Ask
    <2>2. Range(list) = S /\ list \in Arrangements(Range(list))
        BY ArrangedAgain
    <2> QED
        BY <2>1, <2>2 DEF Typed
<1>3. ASSUME asked # None, NEW list \in Arrangements(Range(asked.papers)),
             AskAgain(list, limit)
      PROVE  /\ Typed(asked') /\ shown' = Respond(asked')
             /\ asked'.topic = asked.topic /\ asked'.journals = asked.journals
             /\ Range(asked'.papers) = Range(asked.papers)
    <2>1. /\ shown' = Respond(asked')
          /\ asked' = [asked EXCEPT !.papers = list, !.limit = limit]
        BY <1>3 DEF AskAgain
    <2>2. Typed(asked)
        BY <1>3 DEF RankingInv
    <2>3. Range(list) = Range(asked.papers) /\ list \in Arrangements(Range(list))
        BY ArrangedAgain
    <2> QED
        BY <2>1, <2>2, <2>3 DEF Typed
<1> QED
    BY <1>1, <1>2, <1>3

\* The response shown is always the one that service.search computes for what was asked
\* last, and what was asked is a list of distinct papers with a topic and a limit.
THEOREM RankingAnswers == SpecRanking => []RankingInv
<1>1. RankingInv /\ [NextRanking]_rankingVars => RankingInv'
    <2> SUFFICES ASSUME RankingInv, [NextRanking]_rankingVars PROVE RankingInv'
        OBVIOUS
    <2>1. CASE NextRanking
        BY <2>1, RankingStep DEF RankingInv
    <2>2. CASE UNCHANGED rankingVars
        BY <2>2 DEF RankingInv, rankingVars
    <2> QED
        BY <2>1, <2>2
<1> QED
    BY <1>1, RankingBegins, PTL DEF SpecRanking

\* The papers of a response differ from each other.
LEMMA ShownDiffer ==
    ASSUME NEW a, Typed(a)
    PROVE  Cardinality(Range(Respond(a))) = Len(Respond(a))
<1> DEFINE size == Len(Respond(a))
           S == Range(Respond(a))
<1>1. size \in Nat /\ DOMAIN Respond(a) = 1..size
    <2>1. Cardinality(Qualified(a)) \in Nat /\ a.limit \in Nat
        BY PlacesAndPapers, RankingAssumption DEF Typed
    <2>2. size = Least(a.limit, Cardinality(Qualified(a)))
        BY Shown
    <2> HIDE DEF size
    <2>3. size \in Nat
        BY <2>1, <2>2 DEF Least
    <2> QED
        BY <2>3, Shown DEF size
<1> DEFINE listed == [k \in 1..size |-> Respond(a)[k]]
<1>2. \A m, n \in 1..size : Respond(a)[m] = Respond(a)[n] => m = n
    BY <1>1, Shown
<1>3. listed \in Bijection(1..size, S)
    <2>1. \A k \in 1..size : Respond(a)[k] \in S
        BY <1>1 DEF Range
    <2>2. \A p \in S : \E k \in 1..size : Respond(a)[k] = p
        BY <1>1 DEF Range
    <2> HIDE DEF S
    <2> QED
        BY <1>2, <2>1, <2>2 DEF Bijection, Injection, IsInjective, Surjection
<1>4. IsFiniteSet(1..size) /\ Cardinality(1..size) = size
    <2> HIDE DEF size
    <2> QED
        BY <1>1, FS_Interval
<1>5. ExistsBijection(1..size, S)
    BY <1>3 DEF ExistsBijection
<1> HIDE DEF size, S
<1>6. Cardinality(S) = size
    BY <1>4, <1>5, FS_Bijection
<1> QED
    BY <1>6 DEF S, size

\* LimitIsUsed on its own: a response is a full one, made of papers that qualify.
LEMMA ResponseIsFull ==
    ASSUME RankingInv
    PROVE  LimitIsUsed
<1> SUFFICES ASSUME asked # None PROVE LimitIsUsed
    BY DEF LimitIsUsed
<1>1. Typed(asked) /\ shown = Respond(asked)
    BY DEF RankingInv
<1> DEFINE qualified == {p \in Range(asked.papers) :
                            asked.journals => 100 * EvidenceScore(p.title)
                                               + 35 * EvidenceScore(p.abstract) >= 2500}
<1>2. qualified = Qualified(asked)
    <2>1. \A p : Heard(p) <=> 100 * EvidenceScore(p.title)
                                + 35 * EvidenceScore(p.abstract) >= 2500
        <3>1. \A text : EvidenceScore(text) \in Nat
            BY EvidenceType
        <3> QED
            BY <3>1 DEF Heard, AcousticScore, Threshold, Least
    <2> QED
        BY <2>1 DEF Qualified
<1>3. Range(shown) \subseteq Qualified(asked)
    BY <1>1, Shown DEF Range
<1>4. Cardinality(Range(shown)) = Len(shown)
    BY <1>1, ShownDiffer
<1>5. Len(shown) = Least(asked.limit, Cardinality(Qualified(asked)))
    BY <1>1, Shown
<1>6. /\ Range(shown) \subseteq qualified
      /\ Cardinality(Range(shown)) = Len(shown)
      /\ Len(shown) = Least(asked.limit, Cardinality(qualified))
    <2> HIDE DEF qualified
    <2> QED
        BY <1>2, <1>3, <1>4, <1>5
<1> QED
    BY <1>6, Zenon DEF LimitIsUsed

\* Whatever is asked, the response has as many papers as the limit and the papers that
\* qualify allow, no paper twice, and none that the acoustic filter turns away.
THEOREM FullResponses == SpecRanking => []LimitIsUsed
<1>1. RankingInv => LimitIsUsed
    BY ResponseIsFull
<1> QED
    BY <1>1, RankingAnswers, PTL

\* The same question, with its papers in another order or up to another limit, is answered
\* with the same papers at the same places, as far as both answers go.
THEOREM SameOrder == SpecRanking => ArrivalDoesNotMatter
<1> DEFINE Agree == asked # None =>
                        \A n \in DOMAIN shown \cap DOMAIN shown' : shown'[n] = shown[n]
<1>1. RankingInv /\ [NextRanking]_rankingVars => [Agree]_rankingVars
    <2> SUFFICES ASSUME RankingInv, NextRanking, asked # None,
                        NEW n \in DOMAIN shown, n \in DOMAIN shown'
                 PROVE  shown'[n] = shown[n]
        OBVIOUS
    <2>1. Typed(asked) /\ shown = Respond(asked)
        BY DEF RankingInv
    <2>2. /\ Typed(asked') /\ shown' = Respond(asked')
          /\ asked'.topic = asked.topic /\ asked'.journals = asked.journals
          /\ Range(asked'.papers) = Range(asked.papers)
        BY RankingStep
    <2>3. Qualified(asked') = Qualified(asked)
        BY <2>2 DEF Qualified
    <2>4. \A p : PlaceIn(asked', p) = PlaceIn(asked, p)
        BY <2>2, <2>3 DEF PlaceIn, KeyOf
    <2>5. shown[n] \in Qualified(asked) /\ PlaceIn(asked, shown[n]) = n
        BY <2>1, Shown
    <2>6. shown'[n] \in Qualified(asked') /\ PlaceIn(asked', shown'[n]) = n
        <3> DEFINE again == asked'
        <3>1. Typed(again) /\ shown' = Respond(again)
            BY <2>2
        <3> HIDE DEF again
        <3>2. shown'[n] \in Qualified(again) /\ PlaceIn(again, shown'[n]) = n
            BY <3>1, Shown
        <3> QED
            BY <3>2 DEF again
    <2>7. \A p, q \in Qualified(asked) : PlaceIn(asked, p) = PlaceIn(asked, q) => p = q
        BY <2>1, PlacesTaken DEF Bijection, Injection, IsInjective
    <2> QED
        BY <2>3, <2>4, <2>5, <2>6, <2>7
<1> QED
    BY <1>1, RankingAnswers, PTL DEF SpecRanking, ArrivalDoesNotMatter
=============================================================================
