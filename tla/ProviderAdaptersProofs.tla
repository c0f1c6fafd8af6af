------------------------ MODULE ProviderAdaptersProofs ------------------------
(***************************************************************************)
(* Proofs about ProviderAdapters, for answers of any length and items of   *)
(* any kind.                                                               *)
(***************************************************************************)
EXTENDS ProviderAdapters, TLAPS

\* The items looked at so far that can be used.
Used == {n \in 1..next - 1 : ~Unusable(items[n])}

\* The records are those of the used items, in the same order.
Places(place) ==
    /\ place \in [DOMAIN records -> Used]
    /\ \A n \in Used : \E m \in DOMAIN records : place[m] = n
    /\ \A m, n \in DOMAIN records : m < n => place[m] < place[n]
    /\ \A n \in DOMAIN records : records[n] = RecordOf(items[place[n]])

\* The inductive invariant.
AdapterInv ==
    /\ provider \in Provider
    /\ step \in {"call", "sent", "items", "returned", "raised"}
    /\ items = << >> \/ items \in Bodies
    /\ items \in Seq(Item)
    /\ records \in Seq({RecordOf(item) : item \in Item})
    /\ next \in 1..Len(items) + 1
    /\ step \in {"call", "sent"} => items = << >> /\ records = << >> /\ next = 1
    /\ \A n \in 1..next - 1 : Failure(items[n]) = None
    /\ \E place : Places(place)
    /\ step = "returned" => next = Len(items) + 1 /\ ~NoneUsable

-----------------------------------------------------------------------------

\* Before the first item is looked at.
LEMMA NothingUsed ==
    ASSUME records = << >>, next = 1
    PROVE  Places(<< >>)
<1>1. DOMAIN records = {} /\ Used = {} /\ << >> \in [{} -> {}]
    BY DEF Used
<1> QED
    BY <1>1 DEF Places

LEMMA AdapterInit == InitAdapter => AdapterInv
<1> SUFFICES ASSUME InitAdapter PROVE AdapterInv
    OBVIOUS
<1>1. items = << >> /\ records = << >> /\ next = 1 /\ step = "call" /\ provider \in Provider
    BY DEF InitAdapter
<1>2. Places(<< >>)
    BY <1>1, NothingUsed
<1>3. items \in Seq(Item) /\ records \in Seq({RecordOf(item) : item \in Item}) /\ Len(items) = 0
    BY <1>1
<1> QED
    BY <1>1, <1>2, <1>3 DEF AdapterInv

\* The adapter and its request stay, and so does what it makes of an item.
LEMMA SameReading ==
    ASSUME provider' = provider
    PROVE  \A item : /\ RecordOf(item)' = RecordOf(item)
                     /\ Failure(item)' = Failure(item)
                     /\ Unusable(item)' = Unusable(item)
<1> SUFFICES ASSUME NEW item
             PROVE  /\ RecordOf(item)' = RecordOf(item)
                    /\ Failure(item)' = Failure(item)
                    /\ Unusable(item)' = Unusable(item)
    OBVIOUS
<1>1. KeyOf(item)' = KeyOf(item)
    BY DEF KeyOf
<1>2. RecordOf(item)' = RecordOf(item)
    BY <1>1 DEF RecordOf
<1>3. Failure(item)' = Failure(item)
    BY DEF Failure, FailureOfWork, Unusable
<1>4. Unusable(item)' = Unusable(item)
    BY DEF Unusable
<1> QED
    BY <1>2, <1>3, <1>4

\* Steps that touch neither the items nor the records.
LEMMA SameItems ==
    ASSUME AdapterInv, UNCHANGED <<provider, items, next, records>>,
           step' \in {"call", "sent", "items", "returned", "raised"},
           step' \in {"call", "sent"} => step \in {"call", "sent"},
           step' = "returned" => next = Len(items) + 1 /\ ~NoneUsable
    PROVE  AdapterInv'
<1>1. /\ {RecordOf(item) : item \in Item}' = {RecordOf(item) : item \in Item}
      /\ \A n \in 1..next - 1 : Failure(items[n])' = Failure(items[n])
    BY SameReading
<1>2. (\E place : Places(place))'
    <2>1. PICK place : Places(place)
        BY DEF AdapterInv
    <2>2. Places(place)'
        BY <2>1, SameReading DEF Places, Used
    <2> QED
        BY <2>2
<1>3. NoneUsable' = NoneUsable
    BY DEF NoneUsable
<1> QED
    BY <1>1, <1>2, <1>3 DEF AdapterInv

LEMMA ReceiveStep ==
    ASSUME AdapterInv, Receive
    PROVE  AdapterInv'
<1>1. /\ records' = << >> /\ next' = 1 /\ step' = "items"
      /\ items' \in Bodies /\ items' \in Seq(Item) /\ provider' \in Provider
    BY AdapterAssumption DEF AdapterInv, Receive
<1>2. Places(<< >>)'
    BY <1>1, NothingUsed DEF Places, Used
<1>3. records' \in Seq({RecordOf(item) : item \in Item})' /\ 1 \in 1..Len(items') + 1
    BY <1>1
<1> QED
    BY <1>1, <1>2, <1>3 DEF AdapterInv

LEMMA KeepStep ==
    ASSUME AdapterInv, Keep
    PROVE  AdapterInv'
<1>1. /\ step = "items" /\ next \in 1..Len(items) /\ Len(items) \in Nat
      /\ Failure(items[next]) = None
      /\ next' = next + 1
      /\ UNCHANGED <<provider, step, items>> /\ provider \in Provider
    BY DEF AdapterInv, Keep, Looking
<1>2. /\ items[next] \in Item
      /\ items \in Seq(Item) /\ next' \in 1..Len(items) + 1
      /\ items = << >> \/ items \in Bodies
    BY <1>1 DEF AdapterInv
<1>3. {RecordOf(item) : item \in Item}' = {RecordOf(item) : item \in Item}
    BY <1>1, SameReading
<1>4. \A n \in 1..next' - 1 : Failure(items[n])' = None
    <2>1. \A n \in 1..next' - 1 : n = next \/ n \in 1..next - 1
        BY <1>1
    <2>2. \A n \in 1..next' - 1 : Failure(items[n]) = None
        BY <1>1, <2>1 DEF AdapterInv
    <2> QED
        BY <1>1, <2>2, SameReading
<1>5. PICK place : Places(place)
    BY DEF AdapterInv
<1>6. /\ records \in Seq({RecordOf(item) : item \in Item})
      /\ Len(records) \in Nat /\ DOMAIN records = 1..Len(records)
    BY DEF AdapterInv
<1>7. CASE Unusable(items[next])
    <2>1. records' = records
        BY <1>7 DEF Keep
    <2>2. Used' = Used
        BY <1>1, <1>7, SameReading DEF Used
    <2>3. Places(place)'
        BY <1>1, <1>5, <2>1, <2>2, SameReading DEF Places
    <2> QED
        BY <1>1, <1>2, <1>3, <1>4, <1>6, <2>1, <2>3 DEF AdapterInv
<1>8. CASE ~Unusable(items[next])
    <2>0. PICK k \in Nat \ {0} : k = Len(records) + 1
        BY <1>6
    <2>1. /\ records' = Append(records, RecordOf(items[next]))
          /\ records' \in Seq({RecordOf(item) : item \in Item})
        BY <1>2, <1>6, <1>8 DEF Keep
    <2>2. /\ DOMAIN records' = 1..k /\ DOMAIN records = 1..k - 1
          /\ records'[k] = RecordOf(items[next])
          /\ \A m \in 1..k - 1 : records'[m] = records[m]
        BY <1>6, <2>0, <2>1
    <2>3. Used' = Used \cup {next} /\ \A n \in Used : n \in Nat /\ n < next
        <3>1. \A n : n \in 1..next' - 1 <=> n = next \/ n \in 1..next - 1
            BY <1>1
        <3>2. \A n : Unusable(items[n])' = Unusable(items[n])
            BY <1>1, SameReading
        <3>3. \A n \in 1..next - 1 : n \in Nat /\ n < next
            BY <1>1
        <3> QED
            BY <1>8, <3>1, <3>2, <3>3 DEF Used
    <2>10. PICK new : new = [m \in 1..k |-> IF m = k THEN next ELSE place[m]]
        OBVIOUS
    <2>4. /\ new[k] = next
          /\ \A m \in 1..k - 1 : new[m] = place[m] /\ new[m] \in Used
          /\ new \in [1..k -> Used']
        <3>1. \A m \in 1..k - 1 : m # k /\ m \in 1..k
            BY <2>0
        <3>2. \A m \in 1..k : m = k \/ m \in 1..k - 1
            BY <2>0
        <3>3. \A m \in 1..k - 1 : place[m] \in Used
            BY <1>5, <2>2 DEF Places
        <3>4. k \in 1..k
            BY <2>0
        <3> QED
            BY <2>3, <2>10, <3>1, <3>2, <3>3, <3>4
    <2>5. \A n \in Used' : \E m \in 1..k : new[m] = n
        <3>1. \A n \in Used : \E m \in 1..k - 1 : place[m] = n
            BY <1>5, <2>2 DEF Places
        <3>2. k \in 1..k /\ \A m \in 1..k - 1 : m \in 1..k
            BY <2>0
        <3> QED
            BY <2>3, <2>4, <3>1, <3>2
    <2>6. \A m, n \in 1..k : m < n => new[m] < new[n]
        <3> SUFFICES ASSUME NEW m \in 1..k, NEW n \in 1..k, m < n PROVE new[m] < new[n]
            OBVIOUS
        <3>1. m \in 1..k - 1 /\ (n = k \/ n \in 1..k - 1)
            BY <2>0
        <3>2. CASE n = k
            BY <2>3, <2>4, <3>1, <3>2
        <3>3. CASE n \in 1..k - 1
            BY <1>5, <2>2, <2>4, <3>1, <3>3 DEF Places
        <3> QED
            BY <3>1, <3>2, <3>3
    <2>7. \A m \in 1..k : records'[m] = RecordOf(items[new[m]])
        <3>1. \A m \in 1..k : m = k \/ m \in 1..k - 1
            BY <2>0
        <3> QED
            BY <1>5, <2>2, <2>4, <3>1 DEF Places
    <2>8. \A m \in 1..k : RecordOf(items[new[m]])' = RecordOf(items[new[m]])
        BY <1>1 DEF RecordOf, KeyOf
    <2>9. Places(new)'
        BY <2>2, <2>4, <2>5, <2>6, <2>7, <2>8 DEF Places
    <2> QED
        BY <1>1, <1>2, <1>3, <1>4, <2>1, <2>9 DEF AdapterInv
<1> QED
    BY <1>7, <1>8

LEMMA AdapterNext == AdapterInv /\ [NextAdapter]_adapterVars => AdapterInv'
<1> SUFFICES ASSUME AdapterInv, [NextAdapter]_adapterVars PROVE AdapterInv'
    OBVIOUS
<1>1. CASE Send
    BY <1>1, SameItems DEF Send
<1>2. CASE FailTransport
    BY <1>2, SameItems DEF FailTransport, Raise
<1>3. CASE FailShape
    BY <1>3, SameItems DEF FailShape, Raise
<1>4. CASE Receive
    BY <1>4, ReceiveStep
<1>5. CASE FailItem
    BY <1>5, SameItems DEF FailItem, Raise
<1>6. CASE Keep
    BY <1>6, KeepStep
<1>7. CASE Return
    <2>1. next = Len(items) + 1
        BY <1>7 DEF AdapterInv, Return
    <2> QED
        BY <1>7, <2>1, SameItems DEF Return, Raise
<1>8. CASE UNCHANGED adapterVars
    <2>1. UNCHANGED <<provider, items, next, records, step>>
        BY <1>8 DEF adapterVars
    <2>2. /\ step \in {"call", "sent", "items", "returned", "raised"}
          /\ step = "returned" => next = Len(items) + 1 /\ ~NoneUsable
        BY DEF AdapterInv
    <2> QED
        BY <2>1, <2>2, SameItems
<1> QED
    BY <1>1, <1>2, <1>3, <1>4, <1>5, <1>6, <1>7, <1>8 DEF NextAdapter

\* Up to every item the records are those of the items before it that can be used, in
\* the order of the service, and none of these items was broken (the loops of search()
\* in openalex.py, arxiv.py and crossref.py).
THEOREM RecordsFollowItems == SpecAdapter => []AdapterInv
BY AdapterInit, AdapterNext, PTL DEF SpecAdapter

-----------------------------------------------------------------------------

\* "Not data that cannot be used" for answers of any length: an empty answer of an
\* adapter means that the service listed nothing (the last check of search()).
THEOREM EmptyIsEmpty == SpecAdapter => []EmptyMeansNothingFound
<1>1. AdapterInv => EmptyMeansNothingFound
    BY DEF AdapterInv, EmptyMeansNothingFound, NoneUsable
<1> QED
    BY <1>1, RecordsFollowItems, PTL

LEMMA WholeOne == AdapterInv => WholeAnswer
<1> SUFFICES ASSUME AdapterInv, step = "returned" PROVE WholeAnswer
    BY DEF WholeAnswer
<1> DEFINE wanted == {n \in DOMAIN items : /\ items[n].title # None
                                           /\ provider = "crossref" =>
                                                 \/ Normalize(NormalDoi, items[n].doi) # None
                                                 \/ items[n].id # None}
<1>1. /\ next - 1 = Len(items) /\ DOMAIN items = 1..Len(items)
      /\ \A n \in DOMAIN items : Failure(items[n]) = None
    BY DEF AdapterInv
<1>2. provider = "arxiv" \/ \A n \in DOMAIN items : items[n].object
    BY <1>1, AdapterAssumption DEF Failure, FailureOfWork
<1>3. wanted = Used
    BY <1>1 DEF Used, Unusable, CrossrefKey, FirstKnown
<1>4. PICK place : Places(place)
    BY DEF AdapterInv
<1>5. \A n \in DOMAIN records : /\ records[n].title = items[place[n]].title
                                /\ records[n].abstract = items[place[n]].abstract
    BY <1>4 DEF Places, RecordOf
<1> HIDE DEF wanted
<1>6. \E p \in [DOMAIN records -> wanted] :
        /\ \A n \in wanted : \E m \in DOMAIN records : p[m] = n
        /\ \A m, n \in DOMAIN records : m < n => p[m] < p[n]
        /\ \A n \in DOMAIN records : /\ records[n].title = items[p[n]].title
                                     /\ records[n].abstract = items[p[n]].abstract
    <2>1. place \in [DOMAIN records -> wanted]
        BY <1>3, <1>4 DEF Places
    <2> QED
        BY <1>3, <1>4, <1>5, <2>1 DEF Places
<1> QED
    BY <1>2, <1>6 DEF WholeAnswer, wanted

\* An answer is whole, however many items it lists (search() of each adapter).
THEOREM AnswersAreWhole == SpecAdapter => []WholeAnswer
BY WholeOne, RecordsFollowItems, PTL

-----------------------------------------------------------------------------
(* The provider keys of the records.                                        *)

\* An id, else a DOI, else a title: what is taken shows what it is.
LEMMA StandsIn ==
    ASSUME IdentifiersApart,
           NEW a \in Maybe(Id), NEW p \in Maybe(Doi), NEW s \in DOMAIN NormalTitle,
           NEW b \in Maybe(Id), NEW q \in Maybe(Doi), NEW t \in DOMAIN NormalTitle,
           a # None /\ a = b => p = q,
           FirstKnown(a, FirstKnown(p, s)) = FirstKnown(b, FirstKnown(q, t))
    PROVE  p = q
<1>1. /\ \A x \in Id : x \notin Doi /\ x \notin DOMAIN NormalTitle
      /\ \A x \in Doi : x \notin DOMAIN NormalTitle
    BY DEF IdentifiersApart
<1>2. /\ a # None => a \in Id
      /\ b # None => b \in Id
      /\ p # None => p \in Doi
      /\ q # None => q \in Doi
    BY DEF Maybe
<1>3. CASE a # None
    BY <1>1, <1>2, <1>3 DEF FirstKnown, Maybe
<1>4. CASE a = None /\ p # None
    BY <1>1, <1>2, <1>4 DEF FirstKnown, Maybe
<1>5. CASE a = None /\ p = None
    BY <1>1, <1>2, <1>5 DEF FirstKnown, Maybe
<1> QED
    BY <1>3, <1>4, <1>5

\* Two items of an answer that are used and get one key have one DOI.
LEMMA KeysApart ==
    ASSUME IdentifiersApart, AdapterInv, NEW i \in Used, NEW j \in Used,
           KeyOf(items[i]) = KeyOf(items[j])
    PROVE  Normalize(NormalDoi, items[i].doi) = Normalize(NormalDoi, items[j].doi)
<1> DEFINE doi(n) == Normalize(NormalDoi, items[n].doi)
<1>1. /\ i \in DOMAIN items /\ j \in DOMAIN items /\ items \in Bodies
      /\ Failure(items[i]) = None /\ Failure(items[j]) = None
      /\ ~Unusable(items[i]) /\ ~Unusable(items[j])
    <2>1. 1..next - 1 \subseteq DOMAIN items /\ i \in 1..next - 1 /\ j \in 1..next - 1
        BY DEF AdapterInv, Used
    <2>2. items # << >>
        BY <2>1
    <2> QED
        BY <2>1, <2>2 DEF AdapterInv, Used
<1>2. \A n \in {i, j} :
        /\ items[n].id \in Maybe(Id) /\ doi(n) \in Maybe(Doi)
        /\ items[n].title \in DOMAIN NormalTitle
        /\ provider = "arxiv" => items[n].id # None
    <2>1. \A n \in {i, j} : items[n] \in Item /\ items[n].title # None
        BY <1>1, AdapterAssumption DEF Unusable
    <2>2. \A n \in {i, j} : /\ items[n].id \in Maybe(Id) /\ items[n].doi \in Maybe(DOMAIN NormalDoi)
                            /\ items[n].title \in Maybe(DOMAIN NormalTitle)
        BY <2>1, AdapterAssumption
    <2>3. \A n \in {i, j} : doi(n) \in Maybe(Doi)
        BY <2>2, NormalFormAssumption DEF Normalize, Maybe
    <2> QED
        BY <1>1, <2>1, <2>2, <2>3, AdapterAssumption DEF Maybe, Failure, FailureOfEntry
<1>3. /\ items[i].id # None /\ items[i].id = items[j].id => doi(i) = doi(j)
    BY <1>1 DEF IdentifiersApart
<1>4. /\ \A x \in Id : x \notin Doi /\ x \notin DOMAIN NormalTitle
      /\ \A x \in Doi : x \notin DOMAIN NormalTitle
    BY DEF IdentifiersApart
<1> HIDE DEF doi
<1>5. CASE provider = "openalex"
    <2>1. /\ KeyOf(items[i]) = FirstKnown(items[i].id, FirstKnown(doi(i), items[i].title))
          /\ KeyOf(items[j]) = FirstKnown(items[j].id, FirstKnown(doi(j), items[j].title))
        BY <1>5 DEF KeyOf, OpenAlexKey, doi
    <2> QED
        <3>1. /\ items[i].id \in Maybe(Id) /\ doi(i) \in Maybe(Doi)
              /\ items[i].title \in DOMAIN NormalTitle
              /\ items[j].id \in Maybe(Id) /\ doi(j) \in Maybe(Doi)
              /\ items[j].title \in DOMAIN NormalTitle
            BY <1>2
        <3>2. FirstKnown(items[i].id, FirstKnown(doi(i), items[i].title))
                = FirstKnown(items[j].id, FirstKnown(doi(j), items[j].title))
            BY <2>1
        <3>3. doi(i) = doi(j)
            BY <1>3, <3>1, <3>2, StandsIn
        <3> QED
            BY <3>3 DEF doi
<1>6. CASE provider = "crossref"
    <2>1. /\ KeyOf(items[i]) = FirstKnown(doi(i), items[i].id)
          /\ KeyOf(items[j]) = FirstKnown(doi(j), items[j].id)
        BY <1>6 DEF KeyOf, CrossrefKey, doi
    <2>2. KeyOf(items[i]) # None /\ KeyOf(items[j]) # None
        BY <1>1, <1>6 DEF Unusable, KeyOf
    <2> QED
        BY <1>2, <1>3, <1>4, <2>1, <2>2 DEF FirstKnown, Maybe, doi
<1>7. CASE provider = "arxiv"
    <2>1. KeyOf(items[i]) = items[i].id /\ KeyOf(items[j]) = items[j].id
        BY <1>7 DEF KeyOf
    <2> QED
        BY <1>2, <1>3, <1>7, <2>1 DEF doi
<1> QED
    BY <1>5, <1>6, <1>7 DEF AdapterInv, Provider

LEMMA OneKey == IdentifiersApart /\ AdapterInv => OneKeyOneWork
<1> SUFFICES ASSUME IdentifiersApart, AdapterInv,
                    NEW m \in DOMAIN records, NEW n \in DOMAIN records,
                    records[m].source = records[n].source
             PROVE  records[m].doi = records[n].doi
    BY DEF OneKeyOneWork
<1>1. PICK place : Places(place)
    BY DEF AdapterInv
<1>2. /\ place[m] \in Used /\ place[n] \in Used
      /\ records[m] = RecordOf(items[place[m]])
      /\ records[n] = RecordOf(items[place[n]])
    BY <1>1 DEF Places
<1>3. KeyOf(items[place[m]]) = KeyOf(items[place[n]])
    BY <1>2 DEF RecordOf
<1>4. Normalize(NormalDoi, items[place[m]].doi) = Normalize(NormalDoi, items[place[n]].doi)
    BY <1>2, <1>3, KeysApart
<1> QED
    BY <1>2, <1>4 DEF RecordOf

\* If a service gives one id to no two works, and ids, DOIs and titles differ, then
\* records of one answer with one provider key have one DOI (normalize_work and
\* normalize_entry): the DOI or title that stands in for a missing id does no harm.
THEOREM KeysKeepWorksApart ==
    ASSUME IdentifiersApart
    PROVE  SpecAdapter => []OneKeyOneWork
<1>1. IdentifiersApart
    OBVIOUS
<1>2. AdapterInv => OneKeyOneWork
    BY <1>1, OneKey
<1> QED
    BY <1>2, RecordsFollowItems, PTL
=============================================================================
