--------------------------- MODULE SearchServiceProofs ---------------------------
(***************************************************************************)
(* Proofs about one search: Deduplication, for lists of any length, then   *)
(* SearchService and HintedSearch, for any providers, requests, answers    *)
(* and catalogues.                                                         *)
(***************************************************************************)
EXTENDS HintedSearch, FiniteSetTheorems, TLAPS

-----------------------------------------------------------------------------
(* The records of a search and their keys.                                  *)

\* What the records are as far as their keys go: this much holds of the records
\* of any list that a caller may hand over.
IsRecord(record) ==
    /\ record.doi \in Maybe(DOMAIN NormalDoi)
    /\ record.arxiv \in Maybe(DOMAIN NormalArxiv)
    /\ record.source \in DOMAIN FoldKey
    /\ record.title \in DOMAIN NormalTitle

Recorded ==
    /\ Len(papers) \in Nat /\ DOMAIN papers = 1..Len(papers)
    /\ \A i \in DOMAIN papers : IsRecord(papers[i])

\* A record has this identity key.
Has(i, key) ==
    \/ key[1] = "doi" /\ key[2] = DoiOf(i)
    \/ key[1] = "arxiv" /\ key[2] = ArxivOf(i)
    \/ key[1] = "provider" /\ key[2] = SourceOf(i)
    \/ key[1] = "title" /\ key[2] = TitleOf(i)

\* What seen and todo say is true of the records.
KeysTrue ==
    /\ \A key \in SharedKey : seen[key] # 0 => Has(seen[key], key)
    /\ todo \in Seq({key \in SharedKey : Has(index, key)})

\* What a root knows of the identifiers of its group is exact.
IdsExact ==
    \A r \in DOMAIN papers :
        root[r] = r =>
            /\ dois[r] = {DoiOf(i) : i \in Group(r)} \ {None}
            /\ arxivs[r] = {ArxivOf(i) : i \in Group(r)} \ {None}

\* The inductive invariant: a group by group account of the DOIs, without which
\* the test in Apart would not see a DOI that came in by an earlier union.
DedupInv ==
    /\ Recorded
    /\ DedupTypeOK
    /\ KeysTrue
    /\ IdsExact
    /\ NoConflictingDois
    /\ ArxivsMeetUnderOneDoi

-----------------------------------------------------------------------------

\* The identifiers of a record are normal forms.
LEMMA IdTypes ==
    ASSUME Recorded, NEW i \in DOMAIN papers
    PROVE  /\ DoiOf(i) \in Maybe(Doi)
           /\ ArxivOf(i) \in Maybe(ArxivId)
           /\ SourceOf(i) \in ProviderKey
           /\ TitleOf(i) \in Title
<1>1. IsRecord(papers[i])
    BY DEF Recorded
<1> QED
    BY <1>1, NormalFormAssumption
    DEF IsRecord, Maybe, DoiOf, ArxivOf, SourceOf, TitleOf, Normalize

\* The identity keys of a record are its own.
LEMMA KeysOwn ==
    ASSUME Recorded, NEW i \in DOMAIN papers
    PROVE  IdentityKeys(i) \in Seq({key \in SharedKey : Has(i, key)})
<1> DEFINE Own == {key \in SharedKey : Has(i, key)}
<1>1. /\ DoiOf(i) \in Maybe(Doi)
      /\ ArxivOf(i) \in Maybe(ArxivId)
      /\ SourceOf(i) \in ProviderKey
      /\ TitleOf(i) \in Title
    BY IdTypes
<1>2. StrongKey("doi", DoiOf(i)) \in Seq(Own)
    <2>1. CASE DoiOf(i) = None
        BY <2>1 DEF StrongKey
    <2>2. CASE DoiOf(i) # None
        <3>1. <<"doi", DoiOf(i)>> \in Own
            BY <1>1, <2>2 DEF Maybe, SharedKey, Key, Has
        <3> QED
            BY <2>2, <3>1 DEF StrongKey
    <2> QED
        BY <2>1, <2>2
<1>3. StrongKey("arxiv", ArxivOf(i)) \in Seq(Own)
    <2>1. CASE ArxivOf(i) = None
        BY <2>1 DEF StrongKey
    <2>2. CASE ArxivOf(i) # None
        <3>1. <<"arxiv", ArxivOf(i)>> \in Own
            BY <1>1, <2>2 DEF Maybe, SharedKey, Key, Has
        <3> QED
            BY <2>2, <3>1 DEF StrongKey
    <2> QED
        BY <2>1, <2>2
<1>4. <<<<"provider", SourceOf(i)>>>> \in Seq(Own)
    <2>1. <<"provider", SourceOf(i)>> \in Own
        BY <1>1 DEF SharedKey, Key, Has
    <2> QED
        BY <2>1
<1>5. StrongKey("title", IF TitleOf(i) = NoTitle THEN None ELSE TitleOf(i)) \in Seq(Own)
    <2>1. <<"title", TitleOf(i)>> \in Own
        BY <1>1 DEF SharedKey, Has
    <2>2. CASE TitleOf(i) = NoTitle \/ TitleOf(i) = None
        BY <2>2 DEF StrongKey
    <2>3. CASE TitleOf(i) # NoTitle /\ TitleOf(i) # None
        BY <2>1, <2>3 DEF StrongKey
    <2> QED
        BY <2>2, <2>3
<1> HIDE DEF Own
<1> QED
    BY <1>2, <1>3, <1>4, <1>5 DEF IdentityKeys, Own

\* Two groups that meet over a key, with the facts that a union of them rests on.
LEMMA Meeting ==
    ASSUME DedupInv,
           NEW current \in DOMAIN root, NEW previous \in DOMAIN root,
           Meets(current, previous)
    PROVE  /\ index \in DOMAIN papers /\ seen[Head(todo)] \in DOMAIN papers
           /\ Head(todo) \in SharedKey
           /\ Has(index, Head(todo)) /\ Has(seen[Head(todo)], Head(todo))
           /\ root[current] = current /\ root[previous] = previous
           /\ index \in Group(current) /\ seen[Head(todo)] \in Group(previous)
           /\ Tail(todo) \in Seq({key \in SharedKey : Has(index, key)})
<1> DEFINE Own == {key \in SharedKey : Has(index, key)}
<1>1. /\ Recorded /\ Len(papers) \in Nat /\ DOMAIN papers = 1..Len(papers)
      /\ index \in 0..Len(papers)
      /\ todo \in Seq(Own) /\ todo # << >>
      /\ seen \in [SharedKey -> 0..index]
      /\ root \in [DOMAIN papers -> DOMAIN papers]
      /\ \A i \in DOMAIN papers : root[root[i]] = root[i]
      /\ \A key \in SharedKey : seen[key] # 0 => Has(seen[key], key)
    BY DEF Recorded, DedupInv, DedupTypeOK, KeysTrue, Meets
<1> HIDE DEF Own
<1>2. Head(todo) \in Own /\ Tail(todo) \in Seq(Own)
    BY <1>1
<1>3. Head(todo) \in SharedKey /\ Has(index, Head(todo))
    BY <1>2 DEF Own
<1>4. seen[Head(todo)] \in 0..index /\ seen[Head(todo)] # 0
    BY <1>1, <1>3 DEF Meets
<1>5. index \in DOMAIN papers /\ seen[Head(todo)] \in DOMAIN papers
    BY <1>1, <1>4
<1>6. Has(seen[Head(todo)], Head(todo))
    BY <1>1, <1>3, <1>4
<1>7. /\ root[current] = current /\ root[previous] = previous
      /\ index \in Group(current) /\ seen[Head(todo)] \in Group(previous)
    BY <1>1, <1>5 DEF Meets, Group
<1> QED
    BY <1>2, <1>3, <1>5, <1>6, <1>7 DEF Own

\* Two groups that are not apart hold no two DOIs between them, and two arXiv ids
\* only if one of them does already or a DOI is shared.
LEMMA Agreement ==
    ASSUME DedupInv,
           NEW current \in DOMAIN root, NEW previous \in DOMAIN root,
           Meets(current, previous), current # previous,
           ~Apart(current, previous, Head(todo)[1]),
           NEW i \in Group(current), NEW j \in Group(previous)
    PROVE  /\ ~Differ(DoiOf(i), DoiOf(j))
           /\ Differ(ArxivOf(i), ArxivOf(j)) =>
                \E k, l \in Group(current) \cup Group(previous) :
                    k # l /\ DoiOf(k) # None /\ DoiOf(k) = DoiOf(l)
<1> DEFINE key == Head(todo)
           first == seen[key]
<1>1. /\ index \in DOMAIN papers /\ first \in DOMAIN papers
      /\ key \in SharedKey
      /\ Has(index, key) /\ Has(first, key)
      /\ root[current] = current /\ root[previous] = previous
      /\ index \in Group(current) /\ first \in Group(previous)
    BY Meeting
<1>2. /\ Recorded /\ Len(papers) \in Nat /\ DOMAIN papers = 1..Len(papers)
      /\ root \in [DOMAIN papers -> DOMAIN papers]
    BY DEF Recorded, DedupInv, DedupTypeOK
<1>3. i \in DOMAIN papers /\ j \in DOMAIN papers /\ root[i] = current /\ root[j] = previous
    BY <1>2 DEF Group
<1>4. /\ \A m \in Group(current) : ~Differ(DoiOf(i), DoiOf(m))
      /\ \A m \in Group(previous) : ~Differ(DoiOf(m), DoiOf(j))
    BY <1>2, <1>3 DEF DedupInv, NoConflictingDois, Group, Differ
<1>5. /\ \A m \in Group(current) : Differ(ArxivOf(i), ArxivOf(m)) =>
            \E k, l \in Group(current) : k # l /\ DoiOf(k) # None /\ DoiOf(k) = DoiOf(l)
      /\ \A m \in Group(previous) : Differ(ArxivOf(m), ArxivOf(j)) =>
            \E k, l \in Group(previous) : k # l /\ DoiOf(k) # None /\ DoiOf(k) = DoiOf(l)
    BY <1>2, <1>3 DEF DedupInv, ArxivsMeetUnderOneDoi, Group, Differ
<1>6. /\ dois[current] = {DoiOf(m) : m \in Group(current)} \ {None}
      /\ dois[previous] = {DoiOf(m) : m \in Group(previous)} \ {None}
      /\ arxivs[current] = {ArxivOf(m) : m \in Group(current)} \ {None}
      /\ arxivs[previous] = {ArxivOf(m) : m \in Group(previous)} \ {None}
    BY <1>1, <1>2 DEF DedupInv, IdsExact
<1>7. index # first
    BY <1>1, <1>2 DEF Group
<1>8. /\ key[1] \in {"doi", "arxiv", "provider", "title"}
      /\ key[1] = "doi" => key[2] \in Doi
      /\ key[1] = "arxiv" => key[2] \in ArxivId
    BY <1>1 DEF SharedKey, Key
<1>9. CASE key[1] = "doi"
    <2>1. DoiOf(index) = key[2] /\ DoiOf(first) = key[2] /\ key[2] # None
        BY <1>1, <1>8, <1>9, NoneAssumption DEF Has
    <2>2. ~Differ(DoiOf(i), DoiOf(j))
        BY <2>1, <1>1, <1>4 DEF Differ
    <2> QED
        BY <2>1, <2>2, <1>1, <1>7
<1>10. CASE key[1] # "doi"
    <2>1. ~Conflict(dois[current], dois[previous])
        BY <1>10 DEF Apart
    <2>2. ~Differ(DoiOf(i), DoiOf(j))
        <3> SUFFICES ASSUME Differ(DoiOf(i), DoiOf(j)) PROVE FALSE
            OBVIOUS
        <3>1. DoiOf(i) \in dois[current] /\ DoiOf(j) \in dois[previous]
            BY <1>6 DEF Differ
        <3>2. DoiOf(i) \in dois[previous]
            BY <2>1, <3>1 DEF Conflict
        <3>3. PICK m \in Group(previous) : DoiOf(m) = DoiOf(i)
            BY <3>2, <1>6
        <3> QED
            BY <3>3, <1>4
    <2>3. ASSUME Differ(ArxivOf(i), ArxivOf(j))
          PROVE  \E k, l \in Group(current) \cup Group(previous) :
                    k # l /\ DoiOf(k) # None /\ DoiOf(k) = DoiOf(l)
        <3>1. CASE key[1] = "arxiv"
            <4>1. ArxivOf(index) = key[2] /\ ArxivOf(first) = key[2] /\ key[2] # None
                BY <1>1, <1>8, <3>1, NoneAssumption DEF Has
            <4>2. \/ Differ(ArxivOf(i), ArxivOf(index))
                  \/ Differ(ArxivOf(first), ArxivOf(j))
                BY <4>1, <2>3 DEF Differ
            <4> QED
                BY <4>2, <1>1, <1>5
        <3>2. CASE key[1] # "arxiv"
            <4>1. ~Conflict(arxivs[current], arxivs[previous])
                BY <1>8, <1>10, <3>2 DEF Apart
            <4>2. ArxivOf(i) \in arxivs[current] /\ ArxivOf(j) \in arxivs[previous]
                BY <1>6, <2>3 DEF Differ
            <4>3. ArxivOf(i) \in arxivs[previous]
                BY <4>1, <4>2 DEF Conflict
            <4>4. PICK m \in Group(previous) : ArxivOf(m) = ArxivOf(i)
                BY <4>3, <1>6
            <4> QED
                BY <4>4, <1>5, <2>3
        <3> QED
            BY <3>1, <3>2
    <2> QED
        BY <2>2, <2>3
<1> QED
    BY <1>9, <1>10

\* Uniting two groups keeps the invariant.
LEMMA UniteStep == DedupInv /\ Unite => DedupInv'
<1> SUFFICES ASSUME DedupInv, Unite PROVE DedupInv'
    OBVIOUS
<1>1. PICK current, previous \in DOMAIN root :
        /\ Meets(current, previous)
        /\ current # previous
        /\ ~Apart(current, previous, Head(todo)[1])
        /\ Union(current, previous)
        /\ todo' = Tail(todo)
        /\ UNCHANGED <<papers, index, seen>>
    BY DEF Unite
<1> DEFINE Joined == Group(current) \cup Group(previous)
<1>2. /\ Recorded /\ Len(papers) \in Nat /\ DOMAIN papers = 1..Len(papers)
      /\ index \in 0..Len(papers)
      /\ seen \in [SharedKey -> 0..index]
      /\ root \in [DOMAIN papers -> DOMAIN papers]
      /\ \A i \in DOMAIN papers : root[root[i]] = root[i]
      /\ dois \in [DOMAIN papers -> SUBSET Doi]
      /\ arxivs \in [DOMAIN papers -> SUBSET ArxivId]
    BY DEF Recorded, DedupInv, DedupTypeOK
<1>3. /\ current \in DOMAIN papers /\ previous \in DOMAIN papers
      /\ root[current] = current /\ root[previous] = previous
      /\ Tail(todo) \in Seq({key \in SharedKey : Has(index, key)})
    BY <1>1, <1>2, Meeting
<1>4. /\ papers' = papers /\ index' = index /\ seen' = seen /\ todo' = Tail(todo)
      /\ \A i : DoiOf(i)' = DoiOf(i) /\ ArxivOf(i)' = ArxivOf(i)
      /\ \A i, key : Has(i, key)' <=> Has(i, key)
    BY <1>1 DEF DoiOf, ArxivOf, SourceOf, TitleOf, Has
<1>5. /\ root' = [i \in DOMAIN papers |->
                    IF root[i] = current THEN previous ELSE root[i]]
      /\ dois' = [dois EXCEPT ![previous] = @ \cup dois[current]]
      /\ arxivs' = [arxivs EXCEPT ![previous] = @ \cup arxivs[current]]
    BY <1>1, <1>2 DEF Union
<1>6. DedupTypeOK'
    <2>1. root' \in [DOMAIN papers -> DOMAIN papers]
        BY <1>2, <1>3, <1>5
    <2>2. \A i \in DOMAIN papers : root'[root'[i]] = root'[i]
        BY <1>1, <1>2, <1>3, <1>5
    <2>3. /\ dois' \in [DOMAIN papers -> SUBSET Doi]
          /\ arxivs' \in [DOMAIN papers -> SUBSET ArxivId]
        BY <1>2, <1>3, <1>5
    <2>4. todo' \in Seq(SharedKey)
        BY <1>3, <1>4
    <2> QED
        BY <1>2, <1>4, <2>1, <2>2, <2>3, <2>4 DEF DedupTypeOK
<1>7. KeysTrue'
    BY <1>3, <1>4 DEF KeysTrue, DedupInv
<1>8. /\ \A r \in DOMAIN papers : root'[r] = r => r # current /\ root[r] = r
      /\ \A r \in DOMAIN papers :
            r \notin {current, previous} => Group(r)' = Group(r)
      /\ Group(previous)' = Joined
      /\ \A i \in DOMAIN papers : root'[i] # current
    BY <1>1, <1>2, <1>3, <1>5 DEF Group
<1>9. IdsExact'
    <2> SUFFICES ASSUME NEW r \in DOMAIN papers, root'[r] = r
                 PROVE  /\ dois'[r] = {DoiOf(i) : i \in Group(r)'} \ {None}
                        /\ arxivs'[r] = {ArxivOf(i) : i \in Group(r)'} \ {None}
        BY <1>4 DEF IdsExact
    <2>1. r # current /\ root[r] = r
        BY <1>8
    <2>2. CASE r # previous
        <3>1. dois'[r] = dois[r] /\ arxivs'[r] = arxivs[r] /\ Group(r)' = Group(r)
            BY <1>2, <1>5, <1>8, <2>1, <2>2
        <3> QED
            BY <2>1, <3>1 DEF IdsExact, DedupInv
    <2>3. CASE r = previous
        <3>1. /\ dois'[r] = dois[previous] \cup dois[current]
              /\ arxivs'[r] = arxivs[previous] \cup arxivs[current]
            BY <1>2, <1>3, <1>5, <2>3
        <3>2. /\ dois[current] = {DoiOf(m) : m \in Group(current)} \ {None}
              /\ dois[previous] = {DoiOf(m) : m \in Group(previous)} \ {None}
              /\ arxivs[current] = {ArxivOf(m) : m \in Group(current)} \ {None}
              /\ arxivs[previous] = {ArxivOf(m) : m \in Group(previous)} \ {None}
            BY <1>3 DEF DedupInv, IdsExact
        <3> QED
            BY <1>8, <2>3, <3>1, <3>2
    <2> QED
        BY <2>2, <2>3
<1>10. ASSUME NEW i \in DOMAIN papers, NEW j \in DOMAIN papers, root'[i] = root'[j]
       PROVE  \/ root[i] = root[j]
              \/ i \in Group(current) /\ j \in Group(previous)
              \/ j \in Group(current) /\ i \in Group(previous)
    BY <1>2, <1>3, <1>5, <1>10 DEF Group
<1>11. NoConflictingDois'
    <2> SUFFICES ASSUME NEW i \in DOMAIN papers, NEW j \in DOMAIN papers,
                        root'[i] = root'[j]
                 PROVE  ~Differ(DoiOf(i), DoiOf(j))
        BY <1>4 DEF NoConflictingDois
    <2>1. CASE root[i] = root[j]
        BY <2>1 DEF DedupInv, NoConflictingDois
    <2>2. CASE i \in Group(current) /\ j \in Group(previous)
        BY <2>2, <1>1, Agreement
    <2>3. CASE j \in Group(current) /\ i \in Group(previous)
        <3>1. ~Differ(DoiOf(j), DoiOf(i))
            BY <2>3, <1>1, Agreement
        <3> QED
            BY <3>1 DEF Differ
    <2> QED
        BY <1>10, <2>1, <2>2, <2>3
<1>12. ArxivsMeetUnderOneDoi'
    <2> DEFINE New(n) == {m \in DOMAIN papers : root'[m] = root'[n]}
    <2>0. /\ DOMAIN root' = DOMAIN papers /\ papers' = papers
          /\ \A r : Group(r)' = {m \in DOMAIN papers : root'[m] = r}
        BY <1>4, <1>5 DEF Group
    <2> SUFFICES ASSUME NEW i \in DOMAIN papers, NEW j \in DOMAIN papers,
                        root'[i] = root'[j], Differ(ArxivOf(i), ArxivOf(j))
                 PROVE  \E k, l \in New(i) :
                            k # l /\ DoiOf(k) # None /\ DoiOf(k) = DoiOf(l)
        BY <1>4, <2>0 DEF ArxivsMeetUnderOneDoi
    <2>1. CASE root[i] = root[j]
        <3>1. PICK k, l \in Group(root[i]) :
                    k # l /\ DoiOf(k) # None /\ DoiOf(k) = DoiOf(l)
            BY <2>1 DEF DedupInv, ArxivsMeetUnderOneDoi
        <3>2. k \in New(i) /\ l \in New(i)
            BY <1>2, <1>5 DEF Group
        <3> QED
            BY <3>1, <3>2
    <2>2. ASSUME NEW m \in Group(current), NEW n \in Group(previous),
                 Differ(ArxivOf(m), ArxivOf(n))
          PROVE  \E k, l \in Joined : k # l /\ DoiOf(k) # None /\ DoiOf(k) = DoiOf(l)
        BY <1>1, <2>2, Agreement
    <2>3. CASE i \in Group(current) /\ j \in Group(previous)
        <3>1. root'[i] = previous
            BY <1>2, <1>5, <2>3 DEF Group
        <3> QED
            BY <1>8, <2>0, <2>2, <2>3, <3>1
    <2>4. CASE j \in Group(current) /\ i \in Group(previous)
        <3>1. root'[i] = previous
            BY <1>1, <1>2, <1>5, <2>4 DEF Group
        <3>2. Differ(ArxivOf(j), ArxivOf(i))
            BY DEF Differ
        <3> QED
            BY <1>8, <2>0, <2>2, <2>4, <3>1, <3>2
    <2> QED
        BY <1>10, <2>1, <2>3, <2>4
<1> QED
    BY <1>2, <1>4, <1>6, <1>7, <1>9, <1>11, <1>12 DEF DedupInv, Recorded

\* Without a union the groups stay, and with them all that is said of them.
LEMMA GroupsStay ==
    ASSUME DedupInv, UNCHANGED <<papers, root, dois, arxivs>>
    PROVE  /\ Recorded'
           /\ IdsExact' /\ NoConflictingDois' /\ ArxivsMeetUnderOneDoi'
           /\ \A i, key : Has(i, key)' <=> Has(i, key)
<1>1. /\ \A i : DoiOf(i)' = DoiOf(i) /\ ArxivOf(i)' = ArxivOf(i)
      /\ \A i, key : Has(i, key)' <=> Has(i, key)
      /\ \A r : Group(r)' = Group(r)
      /\ Recorded'
    BY DEF DedupInv, Recorded, DoiOf, ArxivOf, SourceOf, TitleOf, Has, Group
<1>2. IdsExact'
    BY <1>1 DEF DedupInv, IdsExact
<1>3. NoConflictingDois'
    BY <1>1 DEF DedupInv, NoConflictingDois
<1>4. ArxivsMeetUnderOneDoi'
    BY <1>1 DEF DedupInv, ArxivsMeetUnderOneDoi
<1> QED
    BY <1>1, <1>2, <1>3, <1>4 DEF DedupInv

\* The start of deduplicate_papers, on whatever list it is called with.
Begun ==
    /\ Recorded
    /\ index = 0 /\ todo = << >>
    /\ seen = [key \in SharedKey |-> 0]
    /\ root = Alone(papers).root
    /\ dois = Alone(papers).dois
    /\ arxivs = Alone(papers).arxivs

LEMMA BeginAccounted == Begun => DedupInv
<1> SUFFICES ASSUME Begun PROVE DedupInv
    OBVIOUS
<1>1. Recorded /\ Len(papers) \in Nat /\ DOMAIN papers = 1..Len(papers)
    BY DEF Begun, Recorded
<1>2. \A i \in DOMAIN papers :
        /\ root[i] = i /\ Group(i) = {i}
        /\ dois[i] = {DoiOf(i)} \ {None} /\ arxivs[i] = {ArxivOf(i)} \ {None}
    BY DEF Begun, Alone, Group, DoiOf, ArxivOf, Singleton
<1>3. \A i \in DOMAIN papers : DoiOf(i) \in Maybe(Doi) /\ ArxivOf(i) \in Maybe(ArxivId)
    BY <1>1, IdTypes
<1>4. DedupTypeOK
    <2>1. root \in [DOMAIN papers -> DOMAIN papers]
        BY DEF Begun, Alone
    <2>2. dois \in [DOMAIN papers -> SUBSET Doi]
        <3>1. dois = [i \in DOMAIN papers |-> dois[i]]
            BY DEF Begun, Alone
        <3> QED
            BY <1>2, <1>3, <3>1 DEF Maybe
    <2>3. arxivs \in [DOMAIN papers -> SUBSET ArxivId]
        <3>1. arxivs = [i \in DOMAIN papers |-> arxivs[i]]
            BY DEF Begun, Alone
        <3> QED
            BY <1>2, <1>3, <3>1 DEF Maybe
    <2>4. /\ index \in 0..Len(papers)
          /\ todo \in Seq(SharedKey)
          /\ seen \in [SharedKey -> 0..index]
        BY <1>1 DEF Begun
    <2> QED
        BY <1>2, <2>1, <2>2, <2>3, <2>4 DEF DedupTypeOK
<1>5. KeysTrue
    BY DEF Begun, KeysTrue
<1>6. IdsExact
    BY <1>2 DEF IdsExact
<1>7. NoConflictingDois /\ ArxivsMeetUnderOneDoi
    BY <1>2 DEF NoConflictingDois, ArxivsMeetUnderOneDoi, Differ
<1> QED
    BY <1>1, <1>4, <1>5, <1>6, <1>7 DEF DedupInv

LEMMA InitBegins == InitDedup => Begun
<1> SUFFICES ASSUME InitDedup PROVE Begun
    OBVIOUS
<1>1. papers \in Seq(RawPaper)
    BY CandidatesAssumption DEF InitDedup
<1>2. \A record \in RawPaper : IsRecord(record)
    BY DEF RawPaper, IsRecord
<1>3. Recorded
    BY <1>1, <1>2 DEF Recorded
<1> QED
    BY <1>3 DEF InitDedup, Begun

LEMMA DedupStep == DedupInv /\ [NextDedup]_dedupVars => DedupInv'
<1> SUFFICES ASSUME DedupInv, [NextDedup]_dedupVars PROVE DedupInv'
    OBVIOUS
<1> DEFINE Own(i) == {key \in SharedKey : Has(i, key)}
<1>1. /\ Recorded /\ Len(papers) \in Nat /\ DOMAIN papers = 1..Len(papers)
      /\ index \in 0..Len(papers)
      /\ seen \in [SharedKey -> 0..index]
      /\ \A key \in SharedKey : seen[key] # 0 => Has(seen[key], key)
      /\ todo \in Seq(Own(index))
    BY DEF Recorded, DedupInv, DedupTypeOK, KeysTrue
<1>2. CASE Advance
    <2>1. /\ UNCHANGED <<papers, root, dois, arxivs>> /\ seen' = seen
          /\ index' = index + 1 /\ index + 1 \in DOMAIN papers
          /\ todo' = IdentityKeys(index + 1)
        BY <1>1, <1>2 DEF Advance
    <2>2. todo' \in Seq(Own(index'))
        BY <1>1, <2>1, KeysOwn
    <2>3. KeysTrue'
        BY <1>1, <2>1, <2>2, GroupsStay DEF KeysTrue
    <2>4. seen' \in [SharedKey -> 0..index'] /\ index' \in 0..Len(papers')
        BY <1>1, <2>1
    <2>5. DedupTypeOK'
        BY <2>1, <2>2, <2>4 DEF DedupInv, DedupTypeOK
    <2> QED
        BY <2>1, <2>3, <2>5, GroupsStay DEF DedupInv
<1>3. CASE Remember
    <2>1. /\ UNCHANGED <<papers, index, root, dois, arxivs>>
          /\ todo # << >>
          /\ seen' = [seen EXCEPT ![Head(todo)] = index] /\ todo' = Tail(todo)
        BY <1>3 DEF Remember
    <2> HIDE DEF Own
    <2>2. Head(todo) \in Own(index) /\ Tail(todo) \in Seq(Own(index))
        BY <1>1, <2>1
    <2> USE DEF Own
    <2>3. KeysTrue'
        BY <1>1, <2>1, <2>2, GroupsStay DEF KeysTrue
    <2>4. DedupTypeOK'
        BY <1>1, <2>1, <2>2 DEF DedupInv, DedupTypeOK
    <2> QED
        BY <2>1, <2>3, <2>4, GroupsStay DEF DedupInv
<1>4. CASE Unite
    BY <1>4, UniteStep
<1>5. CASE PassOver
    <2>1. /\ UNCHANGED <<papers, index, seen, root, dois, arxivs>>
          /\ todo # << >> /\ todo' = Tail(todo)
        BY <1>5 DEF PassOver, Meets
    <2> HIDE DEF Own
    <2>2. Tail(todo) \in Seq(Own(index))
        BY <1>1, <2>1
    <2> USE DEF Own
    <2>3. KeysTrue'
        BY <1>1, <2>1, <2>2, GroupsStay DEF KeysTrue
    <2>4. DedupTypeOK'
        BY <2>1, <2>2 DEF DedupInv, DedupTypeOK
    <2> QED
        BY <2>1, <2>3, <2>4, GroupsStay DEF DedupInv
<1>6. CASE UNCHANGED dedupVars
    <2>1. UNCHANGED <<papers, index, todo, seen, root, dois, arxivs>>
        BY <1>6 DEF dedupVars
    <2>2. KeysTrue'
        BY <1>1, <2>1, GroupsStay DEF KeysTrue
    <2>3. DedupTypeOK'
        BY <2>1 DEF DedupInv, DedupTypeOK
    <2> QED
        BY <2>1, <2>2, <2>3, GroupsStay DEF DedupInv
<1> QED
    BY <1>2, <1>3, <1>4, <1>5, <1>6 DEF NextDedup

-----------------------------------------------------------------------------

\* The account of groups, keys and identifiers stays true for a list of records
\* of any length (deduplicate_papers).
THEOREM GroupsAccounted == SpecDedup => []DedupInv
<1> QED
    BY InitBegins, BeginAccounted, DedupStep, PTL DEF SpecDedup

\* Whatever is united, a root stands for itself, so root(index) needs no second step,
\* and what is remembered of a key is a record that has been looked at.
THEOREM DedupTypes == SpecDedup => []DedupTypeOK
<1>1. DedupInv => DedupTypeOK
    BY DEF DedupInv
<1> QED
    BY <1>1, GroupsAccounted, PTL

\* No chain of weaker keys, however long, brings two DOIs into one group, so that
\* _merge, which keeps one DOI, never drops a paper.
THEOREM DoisStayApart == SpecDedup => []NoConflictingDois
<1>1. DedupInv => NoConflictingDois
    BY DEF DedupInv
<1> QED
    BY <1>1, GroupsAccounted, PTL

\* Two arXiv ids are in one group only where two of its records have one DOI.
THEOREM ArxivsNeedDoi == SpecDedup => []ArxivsMeetUnderOneDoi
<1>1. DedupInv => ArxivsMeetUnderOneDoi
    BY DEF DedupInv
<1> QED
    BY <1>1, GroupsAccounted, PTL

-----------------------------------------------------------------------------
(* Every union has a reason.                                                *)

\* The keys still to be looked at, the title without a word character not among
\* them.
Telling == {key \in SharedKey : key # <<"title", NoTitle>>}

LinkedInv == todo \in Seq(Telling) /\ GroupsAreLinked

LEMMA KeysTelling ==
    ASSUME Recorded, NEW i \in DOMAIN papers
    PROVE  IdentityKeys(i) \in Seq(Telling)
<1>1. /\ DoiOf(i) \in Maybe(Doi)
      /\ ArxivOf(i) \in Maybe(ArxivId)
      /\ SourceOf(i) \in ProviderKey
      /\ TitleOf(i) \in Title
    BY IdTypes
<1>2. DoiOf(i) # None => <<"doi", DoiOf(i)>> \in Telling
    BY <1>1 DEF Maybe, SharedKey, Key, Telling
<1>3. ArxivOf(i) # None => <<"arxiv", ArxivOf(i)>> \in Telling
    BY <1>1 DEF Maybe, SharedKey, Key, Telling
<1>4. <<"provider", SourceOf(i)>> \in Telling
    BY <1>1 DEF SharedKey, Key, Telling
<1>5. TitleOf(i) # NoTitle => <<"title", TitleOf(i)>> \in Telling
    BY <1>1 DEF SharedKey, Telling
<1> HIDE DEF Telling
<1>6. StrongKey("doi", DoiOf(i)) \in Seq(Telling)
    BY <1>2 DEF StrongKey
<1>7. StrongKey("arxiv", ArxivOf(i)) \in Seq(Telling)
    BY <1>3 DEF StrongKey
<1>8. <<<<"provider", SourceOf(i)>>>> \in Seq(Telling)
    BY <1>4
<1>9. StrongKey("title", IF TitleOf(i) = NoTitle THEN None ELSE TitleOf(i)) \in Seq(Telling)
    BY <1>5 DEF StrongKey
<1> QED
    BY <1>6, <1>7, <1>8, <1>9 DEF IdentityKeys

\* Two records with a telling key in common may be the same paper.
LEMMA SharedIsReason ==
    ASSUME NEW i, NEW j, NEW key \in Telling, Has(i, key), Has(j, key)
    PROVE  Share(i, j) /\ Share(j, i)
<1>1. CASE key \in {"doi"} \X Doi
    BY <1>1, NoneAssumption DEF Has, Share
<1>2. CASE key \in {"arxiv"} \X ArxivId
    BY <1>2, NoneAssumption DEF Has, Share
<1>3. CASE key \in {"provider"} \X ProviderKey
    BY <1>3 DEF Has, Share
<1>4. CASE key \in {"title"} \X Title
    <2>1. TitleOf(i) = key[2] /\ TitleOf(j) = key[2] /\ key[2] # NoTitle
        BY <1>4 DEF Has, Telling
    <2> QED
        BY <2>1 DEF Share
<1> QED
    BY <1>1, <1>2, <1>3, <1>4 DEF Telling, SharedKey, Key

LEMMA UniteLinked ==
    ASSUME DedupInv, LinkedInv, Unite
    PROVE  LinkedInv'
<1>1. PICK current, previous \in DOMAIN root :
        /\ Meets(current, previous)
        /\ current # previous
        /\ Union(current, previous)
        /\ todo' = Tail(todo)
        /\ UNCHANGED <<papers, index, seen>>
    BY DEF Unite
<1> DEFINE key == Head(todo)
           first == seen[key]
           Old == Group(current)
           Earlier == Group(previous)
<1>2. /\ root \in [DOMAIN papers -> DOMAIN papers]
      /\ todo # << >> /\ todo \in Seq(Telling)
    BY <1>1 DEF DedupInv, DedupTypeOK, LinkedInv, Meets
<1>3. /\ Has(index, key) /\ Has(first, key)
      /\ index \in Old /\ first \in Earlier
    BY <1>1, Meeting
<1>4. key \in Telling /\ Tail(todo) \in Seq(Telling)
    <2> HIDE DEF Telling
    <2> QED
        BY <1>2
<1>5. Share(index, first) /\ Share(first, index)
    BY <1>3, <1>4, SharedIsReason
<1>6. papers' = papers /\ \A i, j : Share(i, j)' <=> Share(i, j)
    BY <1>1 DEF Share, DoiOf, ArxivOf, SourceOf, TitleOf
<1>7. \A r \in DOMAIN papers :
        Group(r)' = IF r = current THEN {}
                    ELSE IF r = previous THEN Old \cup Earlier ELSE Group(r)
    <2>1. root' = [i \in DOMAIN papers |-> IF root[i] = current THEN previous ELSE root[i]]
        BY <1>1, <1>2 DEF Union
    <2> QED
        BY <1>1, <1>2, <2>1 DEF Group
<1> HIDE DEF key, first, Old, Earlier
<1>8. \A i \in DOMAIN papers : \A S \in SUBSET Group(i) :
        S # {} /\ S # Group(i) => \E j \in S, k \in Group(i) \ S : Share(j, k)
    BY DEF LinkedInv, GroupsAreLinked
<1>9. ASSUME NEW S \in SUBSET (Old \cup Earlier), S # {}, S # Old \cup Earlier
      PROVE  \E j \in S, k \in (Old \cup Earlier) \ S : Share(j, k)
    <2>1. CASE S \cap Old # {} /\ S \cap Old # Old
        <3>1. \E j \in S \cap Old, k \in Old \ (S \cap Old) : Share(j, k)
            BY <1>1, <1>2, <1>8, <2>1 DEF Old
        <3> QED
            BY <3>1
    <2>2. CASE S \cap Earlier # {} /\ S \cap Earlier # Earlier
        <3>1. \E j \in S \cap Earlier, k \in Earlier \ (S \cap Earlier) : Share(j, k)
            BY <1>1, <1>2, <1>8, <2>2 DEF Earlier
        <3> QED
            BY <3>1
    <2>3. CASE S \cap Old \in {{}, Old} /\ S \cap Earlier \in {{}, Earlier}
        <3>1. \/ index \in S /\ first \notin S
              \/ first \in S /\ index \notin S
            BY <1>3, <1>9, <2>3
        <3> QED
            BY <1>3, <1>5, <3>1
    <2> QED
        BY <2>1, <2>2, <2>3
<1>10. GroupsAreLinked'
    <2> SUFFICES ASSUME NEW i \in DOMAIN papers, NEW S \in SUBSET Group(i)',
                        S # {}, S # Group(i)'
                 PROVE  \E j \in S, k \in Group(i)' \ S : Share(j, k)
        BY <1>6 DEF GroupsAreLinked
    <2>1. i # current
        BY <1>7
    <2>2. CASE i = previous
        BY <1>7, <1>9, <2>1, <2>2
    <2>3. CASE i # previous
        BY <1>7, <1>8, <2>1, <2>3
    <2> QED
        BY <2>2, <2>3
<1>11. Telling' = Telling
    BY DEF Telling, SharedKey
<1> QED
    BY <1>1, <1>4, <1>10, <1>11 DEF LinkedInv

LEMMA LinkedStays ==
    ASSUME LinkedInv, UNCHANGED <<papers, root>>, todo' \in Seq(Telling)
    PROVE  LinkedInv'
<1>1. \A i, j : Share(i, j)' <=> Share(i, j)
    BY DEF Share, DoiOf, ArxivOf, SourceOf, TitleOf
<1>2. \A r : Group(r)' = Group(r)
    BY DEF Group
<1>3. GroupsAreLinked'
    BY <1>1, <1>2 DEF LinkedInv, GroupsAreLinked
<1> QED
    BY <1>3 DEF LinkedInv, Telling, SharedKey

LEMMA LinkedStep == DedupInv /\ LinkedInv /\ [NextDedup]_dedupVars => LinkedInv'
<1> SUFFICES ASSUME DedupInv, LinkedInv, [NextDedup]_dedupVars PROVE LinkedInv'
    OBVIOUS
<1>1. /\ Recorded /\ Len(papers) \in Nat /\ DOMAIN papers = 1..Len(papers)
      /\ index \in 0..Len(papers) /\ todo \in Seq(Telling)
    BY DEF Recorded, DedupInv, DedupTypeOK, LinkedInv
<1>2. ASSUME UNCHANGED <<papers, root>>, todo' \in Seq(Telling) PROVE LinkedInv'
    BY <1>2, LinkedStays
<1>3. todo # << >> => Tail(todo) \in Seq(Telling)
    <2> HIDE DEF Telling
    <2> QED
        BY <1>1
<1>4. CASE Advance
    <2>1. index + 1 \in DOMAIN papers
        BY <1>1, <1>4 DEF Advance
    <2>2. IdentityKeys(index + 1) \in Seq(Telling)
        BY <1>1, <2>1, KeysTelling
    <2> QED
        BY <1>2, <1>4, <2>2 DEF Advance
<1>5. CASE Remember
    BY <1>2, <1>3, <1>5 DEF Remember
<1>6. CASE Unite
    BY <1>6, UniteLinked
<1>7. CASE PassOver
    BY <1>2, <1>3, <1>7 DEF PassOver, Meets
<1>8. CASE UNCHANGED dedupVars
    BY <1>1, <1>2, <1>8 DEF dedupVars
<1> QED
    BY <1>4, <1>5, <1>6, <1>7, <1>8 DEF NextDedup

LEMMA BeginLinked == Begun => LinkedInv
<1> SUFFICES ASSUME Begun PROVE LinkedInv
    OBVIOUS
<1>1. todo = << >> /\ \A i \in DOMAIN papers : Group(i) = {i}
    BY DEF Begun, Alone, Group
<1>2. GroupsAreLinked
    BY <1>1 DEF GroupsAreLinked
<1>3. todo \in Seq(Telling)
    BY <1>1
<1> QED
    BY <1>2, <1>3 DEF LinkedInv

\* Nothing is united without a reason: however a group is cut in two, a key other
\* than an empty title is shared across the cut (deduplicate_papers unites over
\* the keys of _identity_keys only).
THEOREM UnionsHaveReasons == SpecDedup => []GroupsAreLinked
<1>1. InitDedup => LinkedInv
    BY InitBegins, BeginLinked
<1>2. LinkedInv => GroupsAreLinked
    BY DEF LinkedInv
<1>3. DedupInv /\ LinkedInv /\ [NextDedup]_dedupVars => LinkedInv'
    BY LinkedStep
<1> QED
    BY GroupsAccounted, <1>1, <1>2, <1>3, PTL DEF SpecDedup

-----------------------------------------------------------------------------
(* Strong identifiers stay together.                                        *)

\* The DOI of a record is looked at before anything else, the arXiv id next.
Shape(keys) ==
    \A n \in DOMAIN keys : n > 1 =>
        /\ keys[n][1] # "doi"
        /\ keys[n][1] = "arxiv" => n = 2 /\ keys[1][1] = "doi"

Pending(kind) == \E n \in DOMAIN todo : todo[n][1] = kind

\* A key of this kind of the record has been looked at.
Done(i, kind) == i \in DOMAIN papers /\ i <= index /\ ~(i = index /\ Pending(kind))

TogetherInv ==
    /\ todo \in Seq(SharedKey) /\ Shape(todo) /\ (todo # << >> => index # 0)
    /\ \A i \in DOMAIN papers :
          i > index \/ (i = index /\ Pending("doi")) => Group(i) = {i}
    /\ \A i \in DOMAIN papers : Done(i, "doi") /\ DoiOf(i) # None =>
          LET first == seen[<<"doi", DoiOf(i)>>]
          IN  first # 0 /\ root[i] = root[first]
    /\ \A i \in DOMAIN papers : Done(i, "arxiv") /\ ArxivOf(i) # None =>
          LET first == seen[<<"arxiv", ArxivOf(i)>>]
          IN  first # 0 /\ (root[i] = root[first] \/ Conflict(dois[root[i]], dois[root[first]]))

LEMMA TailShape ==
    ASSUME NEW keys \in Seq(SharedKey), keys # << >>, Shape(keys)
    PROVE  /\ Tail(keys) \in Seq(SharedKey) /\ Shape(Tail(keys))
           /\ \A n \in DOMAIN Tail(keys) : n + 1 \in DOMAIN keys /\ Tail(keys)[n] = keys[n + 1]
           /\ \A n \in DOMAIN Tail(keys) : Tail(keys)[n][1] # "doi"
           /\ keys[1][1] = "arxiv" => \A n \in DOMAIN Tail(keys) : Tail(keys)[n][1] # "arxiv"
<1> HIDE DEF SharedKey
<1>1. Tail(keys) \in Seq(SharedKey)
    OBVIOUS
<1>2. \A n \in DOMAIN Tail(keys) :
        n \in Nat \ {0} /\ n + 1 \in DOMAIN keys /\ Tail(keys)[n] = keys[n + 1]
    OBVIOUS
<1>3. \A n \in DOMAIN Tail(keys) :
        /\ Tail(keys)[n][1] # "doi"
        /\ Tail(keys)[n][1] = "arxiv" => n = 1 /\ keys[1][1] = "doi"
    BY <1>2 DEF Shape
<1> QED
    BY <1>1, <1>2, <1>3 DEF Shape

LEMMA ConcatAt ==
    ASSUME NEW S, NEW s \in Seq(S), NEW t \in Seq(S)
    PROVE  /\ s \o t \in Seq(S) /\ Len(s \o t) = Len(s) + Len(t)
           /\ Len(s) \in Nat /\ Len(t) \in Nat
           /\ \A n \in 1..Len(s) : (s \o t)[n] = s[n]
           /\ \A n \in 1..Len(t) : (s \o t)[Len(s) + n] = t[n]
           /\ \A n \in DOMAIN (s \o t) : n \in DOMAIN s \/ (n - Len(s) \in DOMAIN t
                                            /\ (s \o t)[n] = t[n - Len(s)])
OBVIOUS

\* Weaker keys may follow.
LEMMA WeakerKeysFollow ==
    ASSUME NEW s \in Seq(SharedKey), NEW t \in Seq(SharedKey), Shape(s),
           \A n \in DOMAIN t : t[n][1] \notin {"doi", "arxiv"}
    PROVE  /\ s \o t \in Seq(SharedKey) /\ Shape(s \o t)
           /\ \A n \in DOMAIN s : n \in DOMAIN (s \o t) /\ (s \o t)[n] = s[n]
<1> HIDE DEF SharedKey
<1> DEFINE st == s \o t
<1>1. /\ st \in Seq(SharedKey) /\ Len(st) = Len(s) + Len(t)
      /\ Len(s) \in Nat /\ Len(t) \in Nat
      /\ \A n \in 1..Len(s) : st[n] = s[n]
      /\ \A n \in DOMAIN st : n \in DOMAIN s \/ (n - Len(s) \in DOMAIN t
                                                   /\ st[n] = t[n - Len(s)])
    BY ConcatAt
<1> HIDE DEF st
<1>2. DOMAIN s = 1..Len(s) /\ DOMAIN st = 1..Len(st)
    BY <1>1
<1>3. \A n \in DOMAIN s : n \in DOMAIN st /\ st[n] = s[n]
    BY <1>1, <1>2
<1>4. ASSUME NEW n \in DOMAIN st, n > 1
      PROVE  st[n][1] # "doi" /\ (st[n][1] = "arxiv" => n = 2 /\ st[1][1] = "doi")
    <2>1. CASE n \in DOMAIN s
        <3>1. 1 \in DOMAIN s
            BY <1>2, <1>4, <2>1
        <3> QED
            BY <1>3, <1>4, <2>1, <3>1 DEF Shape
    <2>2. CASE n \notin DOMAIN s
        BY <1>1, <2>2
    <2> QED
        BY <2>1, <2>2
<1> QED
    BY <1>1, <1>3, <1>4 DEF Shape, st

\* What _identity_keys returns has this shape, and has all strong identifiers.
LEMMA KeysShape ==
    ASSUME Recorded, NEW i \in DOMAIN papers
    PROVE  /\ IdentityKeys(i) \in Seq(SharedKey) /\ Shape(IdentityKeys(i))
           /\ DoiOf(i) # None => \E n \in DOMAIN IdentityKeys(i) : IdentityKeys(i)[n][1] = "doi"
           /\ ArxivOf(i) # None =>
                \E n \in DOMAIN IdentityKeys(i) : IdentityKeys(i)[n][1] = "arxiv"
<1> DEFINE doi == StrongKey("doi", DoiOf(i))
           arxiv == StrongKey("arxiv", ArxivOf(i))
           provider == <<<<"provider", SourceOf(i)>>>>
           title == StrongKey("title", IF TitleOf(i) = NoTitle THEN None ELSE TitleOf(i))
           strong == doi \o arxiv
<1>1. /\ DoiOf(i) \in Maybe(Doi) /\ ArxivOf(i) \in Maybe(ArxivId)
      /\ SourceOf(i) \in ProviderKey /\ TitleOf(i) \in Title
    BY IdTypes
<1>2. /\ DoiOf(i) # None => <<"doi", DoiOf(i)>> \in SharedKey
      /\ ArxivOf(i) # None => <<"arxiv", ArxivOf(i)>> \in SharedKey
      /\ <<"provider", SourceOf(i)>> \in SharedKey
      /\ <<"title", TitleOf(i)>> \in SharedKey
    BY <1>1 DEF Maybe, SharedKey, Key
<1>3. /\ doi \in Seq(SharedKey) /\ Len(doi) \in {0, 1}
      /\ \A n \in DOMAIN doi : n = 1 /\ doi[n][1] = "doi"
      /\ DoiOf(i) # None => 1 \in DOMAIN doi
    BY <1>2 DEF StrongKey
<1>4. /\ arxiv \in Seq(SharedKey) /\ Len(arxiv) \in {0, 1}
      /\ \A n \in DOMAIN arxiv : n = 1 /\ arxiv[n][1] = "arxiv"
      /\ ArxivOf(i) # None => 1 \in DOMAIN arxiv
    BY <1>2 DEF StrongKey
<1>5. provider \in Seq(SharedKey) /\ \A n \in DOMAIN provider : provider[n][1] = "provider"
    BY <1>2
<1>6. title \in Seq(SharedKey) /\ \A n \in DOMAIN title : title[n][1] = "title"
    <2>1. title = << >> \/ title = <<<<"title", TitleOf(i)>>>>
        BY DEF StrongKey
    <2> HIDE DEF title
    <2>2. CASE title = << >>
        BY <2>2
    <2>3. CASE title = <<<<"title", TitleOf(i)>>>>
        BY <1>2, <2>3
    <2> QED
        BY <2>1, <2>2, <2>3
<1>7. IdentityKeys(i) = (strong \o provider) \o title
    BY DEF IdentityKeys
<1> HIDE DEF doi, arxiv, provider, title, SharedKey
<1>8. /\ strong \in Seq(SharedKey) /\ Len(strong) = Len(doi) + Len(arxiv)
      /\ \A n \in 1..Len(doi) : strong[n] = doi[n]
      /\ \A n \in 1..Len(arxiv) : strong[Len(doi) + n] = arxiv[n]
      /\ \A n \in DOMAIN strong : n \in DOMAIN doi \/ (n - Len(doi) \in DOMAIN arxiv
                                                     /\ strong[n] = arxiv[n - Len(doi)])
    BY <1>3, <1>4, ConcatAt
<1> HIDE DEF strong
<1>9. DOMAIN doi = 1..Len(doi) /\ DOMAIN arxiv = 1..Len(arxiv) /\ DOMAIN strong = 1..Len(strong)
    BY <1>3, <1>4, <1>8
<1>10. Shape(strong)
    <2> SUFFICES ASSUME NEW n \in DOMAIN strong, n > 1
                 PROVE  /\ strong[n][1] # "doi"
                        /\ n = 2 /\ strong[1][1] = "doi"
        BY DEF Shape
    <2>1. n \notin DOMAIN doi
        BY <1>3
    <2>2. n - Len(doi) = 1 /\ strong[n] = arxiv[1] /\ 1 \in DOMAIN arxiv
        BY <1>4, <1>8, <2>1
    <2>3. Len(doi) = 1 /\ n = 2
        BY <1>3, <1>9, <2>2
    <2>4. strong[1] = doi[1] /\ 1 \in DOMAIN doi
        BY <1>8, <1>9, <2>3
    <2> QED
        BY <1>3, <1>4, <2>2, <2>3, <2>4
<1>11. /\ DoiOf(i) # None => \E n \in DOMAIN strong : strong[n][1] = "doi"
       /\ ArxivOf(i) # None => \E n \in DOMAIN strong : strong[n][1] = "arxiv"
    <2>1. ASSUME DoiOf(i) # None PROVE 1 \in DOMAIN strong /\ strong[1][1] = "doi"
        BY <1>3, <1>4, <1>8, <1>9, <2>1
    <2>2. ASSUME ArxivOf(i) # None
          PROVE  Len(doi) + 1 \in DOMAIN strong /\ strong[Len(doi) + 1][1] = "arxiv"
        BY <1>3, <1>4, <1>8, <1>9, <2>2
    <2> QED
        BY <2>1, <2>2
<1>12. /\ strong \o provider \in Seq(SharedKey) /\ Shape(strong \o provider)
       /\ \A n \in DOMAIN strong : /\ n \in DOMAIN (strong \o provider)
                                   /\ (strong \o provider)[n] = strong[n]
    <2>1. \A n \in DOMAIN provider : provider[n][1] \notin {"doi", "arxiv"}
        BY <1>5
    <2> QED
        BY <1>5, <1>8, <1>10, <2>1, WeakerKeysFollow
<1> DEFINE upto == strong \o provider
<1>13. upto \in Seq(SharedKey) /\ Shape(upto)
    BY <1>12
<1>14. \A n \in DOMAIN strong : n \in DOMAIN upto /\ upto[n] = strong[n]
    BY <1>12
<1>15. IdentityKeys(i) = upto \o title
    BY <1>7
<1> HIDE DEF upto
<1>16. /\ upto \o title \in Seq(SharedKey) /\ Shape(upto \o title)
       /\ \A n \in DOMAIN upto : n \in DOMAIN (upto \o title) /\ (upto \o title)[n] = upto[n]
    <2>1. \A n \in DOMAIN title : title[n][1] \notin {"doi", "arxiv"}
        BY <1>6
    <2> QED
        BY <1>6, <1>13, <2>1, WeakerKeysFollow
<1> QED
    BY <1>11, <1>14, <1>15, <1>16

\* Strong identifiers are primary keys, and a key at hand is a record's own.
LEMMA StrongKeys ==
    ASSUME Recorded, NEW i \in DOMAIN papers
    PROVE  /\ DoiOf(i) # None => <<"doi", DoiOf(i)>> \in SharedKey
           /\ ArxivOf(i) # None => <<"arxiv", ArxivOf(i)>> \in SharedKey
BY IdTypes DEF Maybe, SharedKey, Key

\* Looking at one more key adds at most this key to those that are done.
LEMMA NewlyDone ==
    ASSUME DedupInv, TogetherInv, todo # << >>, todo' = Tail(todo),
           UNCHANGED <<papers, index>>,
           NEW i, NEW kind \in {"doi", "arxiv"}, Done(i, kind)'
    PROVE  Done(i, kind) \/ (i = index /\ Head(todo)[1] = kind)
<1> SUFFICES ASSUME ~Done(i, kind) PROVE i = index /\ Head(todo)[1] = kind
    OBVIOUS
<1>1. i = index /\ Pending(kind) /\ ~Pending(kind)'
    BY DEF Done
<1>2. PICK n \in DOMAIN todo : todo[n][1] = kind
    BY <1>1 DEF Pending
<1>3. todo \in Seq(SharedKey)
    BY DEF TogetherInv
<1> HIDE DEF SharedKey
<1>4. n # 1 => n - 1 \in DOMAIN Tail(todo) /\ Tail(todo)[n - 1] = todo[n]
    BY <1>3
<1>5. n = 1
    BY <1>1, <1>2, <1>4 DEF Pending
<1>6. Head(todo) = todo[1]
    BY <1>3
<1> QED
    BY <1>1, <1>2, <1>5, <1>6

\* The key at hand, if it is a strong one, is that of the record at hand.
LEMMA KeyAtHand ==
    ASSUME DedupInv, TogetherInv, todo # << >>
    PROVE  /\ index \in DOMAIN papers /\ Head(todo) \in SharedKey
           /\ Head(todo)[1] = "doi" => Head(todo) = <<"doi", DoiOf(index)>>
           /\ Head(todo)[1] = "arxiv" => Head(todo) = <<"arxiv", ArxivOf(index)>>
           /\ \A key \in SharedKey : seen[key] \in 0..index
<1> DEFINE Own == {key \in SharedKey : Has(index, key)}
<1>1. /\ todo \in Seq(Own) /\ index \in 0..Len(papers)
      /\ Recorded /\ Len(papers) \in Nat /\ DOMAIN papers = 1..Len(papers)
      /\ seen \in [SharedKey -> 0..index]
    BY DEF Recorded, DedupInv, DedupTypeOK, KeysTrue
<1>2. Head(todo) \in Own
    <2> HIDE DEF Own
    <2> QED
        BY <1>1
<1>3. Head(todo) \in SharedKey /\ Has(index, Head(todo))
    BY <1>2
<1>4. Head(todo) = <<Head(todo)[1], Head(todo)[2]>>
    BY <1>3 DEF SharedKey, Key
<1>5. index \in DOMAIN papers
    BY <1>1 DEF TogetherInv
<1> QED
    BY <1>1, <1>3, <1>4, <1>5 DEF Has

\* What a step that consumes a key leaves as it is, but for the groups.
LEMMA ConsumeShape ==
    ASSUME DedupInv, TogetherInv, todo # << >>, todo' = Tail(todo),
           UNCHANGED <<papers, index>>
    PROVE  /\ (todo \in Seq(SharedKey) /\ Shape(todo) /\ (todo # << >> => index # 0))'
           /\ ~Pending("doi")'
           /\ Head(todo) = todo[1]
<1>1. todo \in Seq(SharedKey) /\ Shape(todo) /\ index # 0
    BY DEF TogetherInv
<1>2. /\ Tail(todo) \in Seq(SharedKey) /\ Shape(Tail(todo))
      /\ \A n \in DOMAIN Tail(todo) : Tail(todo)[n][1] # "doi"
    BY <1>1, TailShape
<1>3. Head(todo) = todo[1]
    <2> HIDE DEF SharedKey
    <2> QED
        BY <1>1
<1> QED
    BY <1>1, <1>2, <1>3 DEF Pending, Shape, SharedKey

LEMMA AdvanceTogether ==
    ASSUME DedupInv, TogetherInv, Advance
    PROVE  TogetherInv'
<1>1. /\ todo = << >> /\ index' = index + 1 /\ todo' = IdentityKeys(index + 1)
      /\ UNCHANGED <<papers, seen, root, dois, arxivs>>
      /\ index + 1 \in DOMAIN papers /\ Recorded /\ Len(papers) \in Nat /\ DOMAIN papers = 1..Len(papers)
      /\ index \in Nat
    BY DEF Recorded, Advance, DedupInv, DedupTypeOK
<1>2. /\ todo' \in Seq(SharedKey) /\ Shape(todo')
      /\ DoiOf(index + 1) # None => \E n \in DOMAIN todo' : todo'[n][1] = "doi"
      /\ ArxivOf(index + 1) # None => \E n \in DOMAIN todo' : todo'[n][1] = "arxiv"
    BY <1>1, KeysShape
<1>3. /\ \A i : DoiOf(i)' = DoiOf(i) /\ ArxivOf(i)' = ArxivOf(i)
      /\ \A r : Group(r)' = Group(r)
    BY <1>1 DEF DoiOf, ArxivOf, Group
<1>4. \A kind : ~Pending(kind)
    BY <1>1 DEF Pending
<1>5. \A i \in DOMAIN papers : Done(i, "doi")' /\ DoiOf(i) # None => Done(i, "doi")
    <2> SUFFICES ASSUME NEW i \in DOMAIN papers, Done(i, "doi")', DoiOf(i) # None
                 PROVE  Done(i, "doi")
        OBVIOUS
    <2>1. i # index + 1
        BY <1>1, <1>2 DEF Done, Pending
    <2> QED
        BY <1>1, <1>4, <2>1 DEF Done
<1>6. \A i \in DOMAIN papers : Done(i, "arxiv")' /\ ArxivOf(i) # None => Done(i, "arxiv")
    <2> SUFFICES ASSUME NEW i \in DOMAIN papers, Done(i, "arxiv")', ArxivOf(i) # None
                 PROVE  Done(i, "arxiv")
        OBVIOUS
    <2>1. i # index + 1
        BY <1>1, <1>2 DEF Done, Pending
    <2> QED
        BY <1>1, <1>4, <2>1 DEF Done
<1>7. \A i \in DOMAIN papers :
        i > index' \/ (i = index' /\ Pending("doi")') => Group(i)' = {i}
    BY <1>1, <1>3 DEF TogetherInv
<1>8. (todo \in Seq(SharedKey) /\ Shape(todo) /\ (todo # << >> => index # 0))'
    BY <1>1, <1>2 DEF Shape, SharedKey
<1>9. (\A i \in DOMAIN papers : Done(i, "doi") /\ DoiOf(i) # None =>
          LET first == seen[<<"doi", DoiOf(i)>>]
          IN  first # 0 /\ root[i] = root[first])'
    BY <1>1, <1>3, <1>5 DEF TogetherInv
<1>10. (\A i \in DOMAIN papers : Done(i, "arxiv") /\ ArxivOf(i) # None =>
          LET first == seen[<<"arxiv", ArxivOf(i)>>]
          IN  first # 0 /\ (root[i] = root[first] \/ Conflict(dois[root[i]], dois[root[first]])))'
    BY <1>1, <1>3, <1>6 DEF TogetherInv
<1> QED
    BY <1>1, <1>7, <1>8, <1>9, <1>10 DEF TogetherInv

LEMMA RememberTogether ==
    ASSUME DedupInv, TogetherInv, Remember
    PROVE  TogetherInv'
<1> DEFINE key == Head(todo)
<1>1. /\ todo # << >> /\ todo' = Tail(todo) /\ seen[key] = 0
      /\ seen' = [seen EXCEPT ![key] = index]
      /\ UNCHANGED <<papers, index, root, dois, arxivs>>
    BY DEF Remember
<1>2. /\ Recorded /\ Len(papers) \in Nat /\ DOMAIN papers = 1..Len(papers)
      /\ seen \in [SharedKey -> 0..index]
    BY DEF Recorded, DedupInv, DedupTypeOK
<1>3. /\ index # 0 /\ key \in SharedKey
      /\ key[1] = "doi" => key = <<"doi", DoiOf(index)>>
      /\ key[1] = "arxiv" => key = <<"arxiv", ArxivOf(index)>>
    BY <1>1, KeyAtHand DEF TogetherInv
<1> HIDE DEF key
<1>4. /\ \A i : DoiOf(i)' = DoiOf(i) /\ ArxivOf(i)' = ArxivOf(i)
      /\ \A r : Group(r)' = Group(r)
    BY <1>1 DEF DoiOf, ArxivOf, Group
<1>5. \A k \in SharedKey : seen'[k] = IF k = key THEN index ELSE seen[k]
    BY <1>1, <1>2
<1>6. (\A i \in DOMAIN papers : Done(i, "doi") /\ DoiOf(i) # None =>
          LET first == seen[<<"doi", DoiOf(i)>>]
          IN  first # 0 /\ root[i] = root[first])'
    <2> SUFFICES ASSUME NEW i \in DOMAIN papers, Done(i, "doi")', DoiOf(i) # None
                 PROVE  LET first == seen'[<<"doi", DoiOf(i)>>]
                        IN  first # 0 /\ root[i] = root[first]
        BY <1>1, <1>4
    <2>1. <<"doi", DoiOf(i)>> \in SharedKey
        BY <1>2, StrongKeys
    <2>2. CASE Done(i, "doi")
        <3>1. LET first == seen[<<"doi", DoiOf(i)>>] IN first # 0 /\ root[i] = root[first]
            BY <2>2 DEF TogetherInv
        <3>2. <<"doi", DoiOf(i)>> # key
            BY <1>1, <3>1 DEF key
        <3> QED
            BY <1>5, <2>1, <3>1, <3>2
    <2>3. CASE i = index /\ key[1] = "doi"
        BY <1>3, <1>5, <2>3
    <2> QED
        BY <1>1, <2>2, <2>3, NewlyDone DEF key
<1>7. (\A i \in DOMAIN papers : Done(i, "arxiv") /\ ArxivOf(i) # None =>
          LET first == seen[<<"arxiv", ArxivOf(i)>>]
          IN  first # 0 /\ (root[i] = root[first] \/ Conflict(dois[root[i]], dois[root[first]])))'
    <2> SUFFICES ASSUME NEW i \in DOMAIN papers, Done(i, "arxiv")', ArxivOf(i) # None
                 PROVE  LET first == seen'[<<"arxiv", ArxivOf(i)>>]
                        IN  /\ first # 0
                            /\ root[i] = root[first] \/ Conflict(dois[root[i]], dois[root[first]])
        BY <1>1, <1>4
    <2>1. <<"arxiv", ArxivOf(i)>> \in SharedKey
        BY <1>2, StrongKeys
    <2>2. CASE Done(i, "arxiv")
        <3>1. LET first == seen[<<"arxiv", ArxivOf(i)>>]
              IN  /\ first # 0
                  /\ root[i] = root[first] \/ Conflict(dois[root[i]], dois[root[first]])
            BY <2>2 DEF TogetherInv
        <3>2. <<"arxiv", ArxivOf(i)>> # key
            BY <1>1, <3>1 DEF key
        <3> QED
            BY <1>5, <2>1, <3>1, <3>2
    <2>3. CASE i = index /\ key[1] = "arxiv"
        BY <1>3, <1>5, <2>3
    <2> QED
        BY <1>1, <2>2, <2>3, NewlyDone DEF key
<1>8. /\ (todo \in Seq(SharedKey) /\ Shape(todo) /\ (todo # << >> => index # 0))'
      /\ ~Pending("doi")'
    BY <1>1, ConsumeShape
<1>9. \A i \in DOMAIN papers :
        i > index' \/ (i = index' /\ Pending("doi")') => Group(i)' = {i}
    BY <1>1, <1>4, <1>8 DEF TogetherInv
<1> QED
    BY <1>1, <1>6, <1>7, <1>8, <1>9 DEF TogetherInv

LEMMA PassOverTogether ==
    ASSUME DedupInv, TogetherInv, PassOver
    PROVE  TogetherInv'
<1> DEFINE key == Head(todo)
<1>1. /\ todo # << >> /\ todo' = Tail(todo) /\ seen[key] # 0
      /\ UNCHANGED <<papers, index, seen, root, dois, arxivs>>
    BY DEF PassOver, Meets
<1>2. root[index] = root[seen[key]] \/ Apart(root[index], root[seen[key]], key[1])
    BY DEF PassOver, Meets
<1>3. /\ key[1] = "doi" => key = <<"doi", DoiOf(index)>>
      /\ key[1] = "arxiv" => key = <<"arxiv", ArxivOf(index)>>
    BY <1>1, KeyAtHand
<1>4. /\ \A i : DoiOf(i)' = DoiOf(i) /\ ArxivOf(i)' = ArxivOf(i)
      /\ \A r : Group(r)' = Group(r)
    BY <1>1 DEF DoiOf, ArxivOf, Group
<1>5. /\ key[1] = "doi" => root[index] = root[seen[key]]
      /\ key[1] = "arxiv" => \/ root[index] = root[seen[key]]
                             \/ Conflict(dois[root[index]], dois[root[seen[key]]])
    BY <1>2 DEF Apart
<1>6. \A i, kind : kind \in {"doi", "arxiv"} /\ Done(i, kind)' =>
        Done(i, kind) \/ (i = index /\ key[1] = kind)
    BY <1>1, NewlyDone
<1> HIDE DEF key
<1>7. (\A i \in DOMAIN papers : Done(i, "doi") /\ DoiOf(i) # None =>
          LET first == seen[<<"doi", DoiOf(i)>>]
          IN  first # 0 /\ root[i] = root[first])'
    BY <1>1, <1>3, <1>4, <1>5, <1>6 DEF TogetherInv
<1>8. (\A i \in DOMAIN papers : Done(i, "arxiv") /\ ArxivOf(i) # None =>
          LET first == seen[<<"arxiv", ArxivOf(i)>>]
          IN  first # 0 /\ (root[i] = root[first] \/ Conflict(dois[root[i]], dois[root[first]])))'
    BY <1>1, <1>3, <1>4, <1>5, <1>6 DEF TogetherInv
<1>9. /\ (todo \in Seq(SharedKey) /\ Shape(todo) /\ (todo # << >> => index # 0))'
      /\ ~Pending("doi")'
    BY <1>1, ConsumeShape
<1>10. \A i \in DOMAIN papers :
        i > index' \/ (i = index' /\ Pending("doi")') => Group(i)' = {i}
    BY <1>1, <1>4, <1>9 DEF TogetherInv
<1> QED
    BY <1>1, <1>7, <1>8, <1>9, <1>10 DEF TogetherInv

\* Uniting two groups leaves others with different DOIs in conflict.
LEMMA ConflictStays ==
    ASSUME DedupInv, DedupInv',
           NEW current \in DOMAIN papers, NEW previous \in DOMAIN papers,
           root[current] = current, root[previous] = previous,
           Union(current, previous), UNCHANGED papers,
           NEW i \in DOMAIN papers, NEW j \in DOMAIN papers,
           Conflict(dois[root[i]], dois[root[j]])
    PROVE  Conflict(dois[root[i]], dois[root[j]])'
<1>1. /\ root \in [DOMAIN papers -> DOMAIN papers]
      /\ dois \in [DOMAIN papers -> SUBSET Doi]
    BY DEF DedupInv, DedupTypeOK
<1>2. /\ root' = [m \in DOMAIN papers |-> IF root[m] = current THEN previous ELSE root[m]]
      /\ dois' = [dois EXCEPT ![previous] = @ \cup dois[current]]
    BY <1>1 DEF Union
<1>3. ASSUME NEW m \in DOMAIN papers PROVE dois[root[m]] \subseteq dois'[root'[m]]
    <2>1. root[m] \in DOMAIN papers
        BY <1>1
    <2>2. \A r \in DOMAIN papers :
            dois'[r] = IF r = previous THEN dois[previous] \cup dois[current] ELSE dois[r]
        BY <1>1, <1>2
    <2>3. root'[m] = IF root[m] = current THEN previous ELSE root[m]
        BY <1>2
    <2> QED
        BY <2>1, <2>2, <2>3
<1>4. ASSUME NEW m \in DOMAIN papers
      PROVE  \A x, y \in dois'[root'[m]] : x = y
    <2>1. /\ root'[m] \in DOMAIN papers /\ root'[root'[m]] = root'[m]
          /\ DOMAIN root' = DOMAIN papers /\ papers' = papers
        BY DEF DedupInv, DedupTypeOK
    <2>2. dois'[root'[m]] = {DoiOf(k)' : k \in Group(root[m])'} \ {None}
        BY <2>1 DEF DedupInv, IdsExact, Group
    <2>3. \A k, l \in Group(root[m])' : ~Differ(DoiOf(k)', DoiOf(l)')
        BY <2>1 DEF DedupInv, NoConflictingDois, Group
    <2> QED
        BY <2>2, <2>3 DEF Differ
<1>5. ASSUME NEW m \in DOMAIN papers, dois[root[m]] # {}
      PROVE  dois'[root'[m]] = dois[root[m]]
    <2>1. dois[root[m]] \subseteq dois'[root'[m]] /\ \A x, y \in dois'[root'[m]] : x = y
        BY <1>3, <1>4
    <2> QED
        BY <1>5, <2>1
<1> QED
    BY <1>5 DEF Conflict

LEMMA UniteTogether ==
    ASSUME DedupInv, DedupInv', TogetherInv, Unite
    PROVE  TogetherInv'
<1> DEFINE key == Head(todo)
           Conflicting(i, j) == Conflict(dois[root[i]], dois[root[j]])
           ConflictingThen(i, j) == Conflict(dois'[root'[i]], dois'[root'[j]])
<1>1. PICK current, previous \in DOMAIN root :
        /\ Meets(current, previous)
        /\ current # previous
        /\ Union(current, previous)
        /\ todo' = Tail(todo)
        /\ UNCHANGED <<papers, index, seen>>
    BY DEF Unite
<1>2. /\ Recorded /\ Len(papers) \in Nat /\ DOMAIN papers = 1..Len(papers)
      /\ index \in 0..Len(papers)
      /\ seen \in [SharedKey -> 0..index]
      /\ root \in [DOMAIN papers -> DOMAIN papers]
      /\ todo # << >>
    BY <1>1 DEF Recorded, DedupInv, DedupTypeOK, Meets
<1>3. /\ index \in DOMAIN papers /\ seen[key] \in DOMAIN papers /\ key \in SharedKey
      /\ root[current] = current /\ root[previous] = previous
      /\ root[index] = current /\ root[seen[key]] = previous
      /\ index \in Group(current) /\ seen[key] \in Group(previous)
    BY <1>1, Meeting DEF Meets
<1>4. /\ key[1] = "doi" => key = <<"doi", DoiOf(index)>>
      /\ key[1] = "arxiv" => key = <<"arxiv", ArxivOf(index)>>
      /\ seen[key] \in 0..index
    BY <1>1, <1>2, <1>3, KeyAtHand
<1>5. \A i, kind : kind \in {"doi", "arxiv"} /\ Done(i, kind)' =>
        Done(i, kind) \/ (i = index /\ key[1] = kind)
    BY <1>1, <1>2, NewlyDone
<1>6. /\ (todo \in Seq(SharedKey) /\ Shape(todo) /\ (todo # << >> => index # 0))'
      /\ ~Pending("doi")'
    BY <1>1, <1>2, ConsumeShape
<1>7. /\ papers' = papers /\ seen' = seen /\ index' = index
      /\ \A i : DoiOf(i)' = DoiOf(i) /\ ArxivOf(i)' = ArxivOf(i)
    BY <1>1 DEF DoiOf, ArxivOf
<1>8. \A i \in DOMAIN papers : root'[i] = IF root[i] = current THEN previous ELSE root[i]
    BY <1>1, <1>2 DEF Union
<1>9. DOMAIN root' = DOMAIN papers
    BY <1>1, <1>2 DEF Union
<1>10. \A i, j \in DOMAIN papers : Conflicting(i, j) => ConflictingThen(i, j)
    BY <1>1, <1>2, <1>3, ConflictStays
<1> HIDE DEF key, Conflicting, ConflictingThen
<1>11. \A i, j \in DOMAIN papers : root[i] = root[j] => root'[i] = root'[j]
    BY <1>8
<1>12. root'[index] = root'[seen[key]]
    BY <1>3, <1>8
<1>13. ASSUME NEW k \in SharedKey PROVE seen[k] # 0 => seen[k] \in DOMAIN papers
    BY <1>2
<1>14. (\A i \in DOMAIN papers : Done(i, "doi") /\ DoiOf(i) # None =>
          LET first == seen[<<"doi", DoiOf(i)>>]
          IN  first # 0 /\ root[i] = root[first])'
    <2> SUFFICES ASSUME NEW i \in DOMAIN papers, Done(i, "doi")', DoiOf(i) # None
                 PROVE  LET first == seen[<<"doi", DoiOf(i)>>]
                        IN  first # 0 /\ root'[i] = root'[first]
        BY <1>7
    <2>1. <<"doi", DoiOf(i)>> \in SharedKey
        BY <1>2, StrongKeys
    <2>2. CASE Done(i, "doi")
        <3>1. LET first == seen[<<"doi", DoiOf(i)>>] IN first # 0 /\ root[i] = root[first]
            BY <2>2 DEF TogetherInv
        <3> QED
            BY <1>11, <1>13, <2>1, <3>1
    <2>3. CASE i = index /\ key[1] = "doi"
        <3>1. seen[key] # 0
            BY <1>1 DEF Meets, key
        <3> QED
            BY <1>4, <1>12, <2>3, <3>1
    <2> QED
        BY <1>5, <2>2, <2>3
<1>15. (\A i \in DOMAIN papers : Done(i, "arxiv") /\ ArxivOf(i) # None =>
          LET first == seen[<<"arxiv", ArxivOf(i)>>]
          IN  first # 0 /\ (root[i] = root[first] \/ Conflict(dois[root[i]], dois[root[first]])))'
    <2> SUFFICES ASSUME NEW i \in DOMAIN papers, Done(i, "arxiv")', ArxivOf(i) # None
                 PROVE  LET first == seen[<<"arxiv", ArxivOf(i)>>]
                        IN  first # 0 /\ (root'[i] = root'[first] \/ ConflictingThen(i, first))
        BY <1>7 DEF ConflictingThen
    <2>1. <<"arxiv", ArxivOf(i)>> \in SharedKey
        BY <1>2, StrongKeys
    <2>2. CASE Done(i, "arxiv")
        <3>1. LET first == seen[<<"arxiv", ArxivOf(i)>>]
              IN  first # 0 /\ (root[i] = root[first] \/ Conflicting(i, first))
            BY <2>2 DEF TogetherInv, Conflicting
        <3> QED
            BY <1>10, <1>11, <1>13, <2>1, <3>1
    <2>3. CASE i = index /\ key[1] = "arxiv"
        <3>1. seen[key] # 0
            BY <1>1 DEF Meets, key
        <3> QED
            BY <1>4, <1>12, <2>3, <3>1
    <2> QED
        BY <1>5, <2>2, <2>3
<1>16. ASSUME NEW i \in DOMAIN papers, i > index
       PROVE  Group(i)' = {i}
    <2>1. Group(i) = {i}
        BY <1>16 DEF TogetherInv
    <2>2. i # current /\ i # previous
        BY <1>2, <1>3, <1>4, <1>16, <2>1
    <2>3. \A m \in DOMAIN papers : root'[m] = i <=> root[m] = i
        BY <1>8, <2>2
    <2> QED
        BY <1>2, <1>9, <2>1, <2>3 DEF Group
<1> QED
    BY <1>6, <1>7, <1>14, <1>15, <1>16 DEF TogetherInv

LEMMA TogetherStep == DedupInv /\ DedupInv' /\ TogetherInv /\ [NextDedup]_dedupVars => TogetherInv'
<1> SUFFICES ASSUME DedupInv, DedupInv', TogetherInv, [NextDedup]_dedupVars PROVE TogetherInv'
    OBVIOUS
<1>1. CASE UNCHANGED dedupVars
    <2>1. UNCHANGED <<papers, index, todo, seen, root, dois, arxivs>>
        BY <1>1 DEF dedupVars
    <2>2. /\ \A i : DoiOf(i)' = DoiOf(i) /\ ArxivOf(i)' = ArxivOf(i)
          /\ \A r : Group(r)' = Group(r)
          /\ \A kind : Pending(kind)' <=> Pending(kind)
        BY <2>1 DEF DoiOf, ArxivOf, Group, Pending
    <2>3. \A i, kind : Done(i, kind)' <=> Done(i, kind)
        BY <2>1, <2>2 DEF Done
    <2> QED
        BY <2>1, <2>2, <2>3 DEF TogetherInv, Shape, SharedKey
<1> QED
    BY <1>1, AdvanceTogether, RememberTogether, UniteTogether, PassOverTogether
    DEF NextDedup

\* Records that have been looked at are together if their strong identifiers say so.
LEMMA TogetherWhenLooked ==
    ASSUME DedupInv, TogetherInv
    PROVE  StrongIdsTogether
<1> SUFFICES ASSUME NEW i \in Looked, NEW j \in Looked, root[i] # root[j]
             PROVE  /\ DoiOf(i) = None \/ DoiOf(i) # DoiOf(j)
                    /\ \/ ArxivOf(i) = None \/ ArxivOf(i) # ArxivOf(j)
                       \/ Conflict(dois[root[i]], dois[root[j]])
    BY DEF StrongIdsTogether
<1>1. /\ Recorded /\ Len(papers) \in Nat /\ DOMAIN papers = 1..Len(papers)
      /\ index \in 0..Len(papers)
      /\ seen \in [SharedKey -> 0..index]
      /\ root \in [DOMAIN papers -> DOMAIN papers]
      /\ \A m \in DOMAIN papers : root[root[m]] = root[m]
    BY DEF Recorded, DedupInv, DedupTypeOK
<1>2. /\ i \in DOMAIN papers /\ j \in DOMAIN papers
      /\ \A kind : Done(i, kind) /\ Done(j, kind)
    BY <1>1 DEF Looked, Done, Pending
<1>3. \A k, l \in DOMAIN papers :
        Done(k, "doi") /\ Done(l, "doi") /\ DoiOf(k) # None /\ DoiOf(k) = DoiOf(l) =>
            root[k] = root[l]
    BY DEF TogetherInv
<1>4. ASSUME ArxivOf(i) # None, ArxivOf(i) = ArxivOf(j)
      PROVE  Conflict(dois[root[i]], dois[root[j]])
    <2> DEFINE first == seen[<<"arxiv", ArxivOf(i)>>]
    <2>1. /\ first # 0
          /\ root[i] = root[first] \/ Conflict(dois[root[i]], dois[root[first]])
          /\ root[j] = root[first] \/ Conflict(dois[root[j]], dois[root[first]])
        BY <1>2, <1>4 DEF TogetherInv
    <2>2. CASE root[i] = root[first] \/ root[j] = root[first]
        BY <2>1, <2>2 DEF Conflict
    <2>3. CASE /\ Conflict(dois[root[i]], dois[root[first]])
               /\ Conflict(dois[root[j]], dois[root[first]])
        <3> SUFFICES ASSUME dois[root[i]] = dois[root[j]] PROVE FALSE
            BY <2>3 DEF Conflict
        <3>1. /\ dois[root[i]] = {DoiOf(m) : m \in Group(root[i])} \ {None}
              /\ dois[root[j]] = {DoiOf(m) : m \in Group(root[j])} \ {None}
            BY <1>1, <1>2 DEF DedupInv, IdsExact
        <3>2. PICK k \in Group(root[i]), l \in Group(root[j]) :
                    DoiOf(k) # None /\ DoiOf(k) = DoiOf(l)
            BY <2>3, <3>1 DEF Conflict
        <3>3. ASSUME NEW a \in {i, j}, NEW m \in Group(root[a])
              PROVE  m \in DOMAIN papers /\ root[m] = root[a] /\ Done(m, "doi")
            <4>1. a \in DOMAIN papers /\ m \in DOMAIN papers /\ root[m] = root[a] /\ Done(a, "doi")
                BY <1>1, <1>2, <3>3 DEF Group
            <4>2. ~Done(m, "doi") => Group(m) = {m}
                BY <1>1, <4>1 DEF TogetherInv, Done
            <4>3. Group(m) = {m} => m = a
                BY <1>1, <4>1 DEF Group
            <4> QED
                BY <4>1, <4>2, <4>3
        <3> QED
            BY <1>3, <3>2, <3>3
    <2> QED
        BY <2>1, <2>2, <2>3
<1> QED
    BY <1>2, <1>3, <1>4

\* Whatever the order of the records, a DOI is in one group only, and an arXiv id
\* too unless the groups hold different DOIs (the keys of _identity_keys are
\* looked at from the strongest to the weakest).
THEOREM StrongIdsStay == SpecDedup => []StrongIdsTogether
<1>1. InitDedup => TogetherInv
    <2> SUFFICES ASSUME InitDedup PROVE TogetherInv
        OBVIOUS
    <2>1. todo = << >> /\ index = 0 /\ \A i \in DOMAIN papers : Group(i) = {i}
        BY DEF InitDedup, Alone, Group
    <2>2. Recorded /\ Len(papers) \in Nat /\ DOMAIN papers = 1..Len(papers)
        BY InitBegins DEF Begun, Recorded
    <2>3. \A i, kind : ~Done(i, kind)
        BY <2>1, <2>2 DEF Done
    <2>4. todo \in Seq(SharedKey) /\ Shape(todo)
        BY <2>1 DEF Shape
    <2> QED
        BY <2>1, <2>3, <2>4 DEF TogetherInv
<1>2. DedupInv /\ TogetherInv => StrongIdsTogether
    BY TogetherWhenLooked
<1>3. DedupInv /\ DedupInv' /\ TogetherInv /\ [NextDedup]_dedupVars => TogetherInv'
    BY TogetherStep
<1> QED
    BY GroupsAccounted, <1>1, <1>2, <1>3, PTL DEF SpecDedup

-----------------------------------------------------------------------------
(* A search around it.                                                      *)

\* The records that a provider sent.
Its(provider) == {i \in DOMAIN papers : papers[i].provider = provider}

State == {"success", "empty", "timeout", "rate_limited", "auth_error", "parse_error",
          "upstream_error"}

ProviderResult == [provider : Provider, status : State, fetched : Nat, returned : Nat]

\* What is known of the providers asked so far.
AskedInv ==
    /\ request \in Requests
    /\ results \in Seq(ProviderResult)
    /\ outcomes \in Seq({"answered"} \cup Error)
    /\ Len(outcomes) = Len(results) /\ Len(results) <= Len(Providers)
    /\ papers \in Seq(Sent)
    /\ \A n \in DOMAIN results :
          /\ results[n].provider = Providers[n]
          /\ results[n].fetched = Cardinality(Its(Providers[n]))
          /\ outcomes[n] = "answered" => Works(results[n].status)
          /\ outcomes[n] # "answered" => results[n].status = StateOf(outcomes[n])
    /\ \A i \in DOMAIN papers : \E n \in Working : papers[i].provider = results[n].provider

\* Nothing is merged or shown as long as providers are asked.
Asking ==
    /\ index = 0 /\ todo = << >> /\ seen = [key \in SharedKey |-> 0]
    /\ shown = << >>

\* What a search that ran can show.
Showable(list) ==
    \/ Working = {} /\ list = << >>
    \/ Working # {} /\ DedupInv /\ list \in Rankings

\* The result of a search that was not refused.
Reported ==
    /\ AllAsked
    /\ Showable(shown)
    /\ \A n \in DOMAIN results :
          results[n].returned =
              Cardinality({k \in DOMAIN shown : results[n].provider \in shown[k].providers})
    /\ status = Aggregate(shown)
    /\ http = HttpStatus

\* The inductive invariant: what each phase may rely on.
SearchInv ==
    /\ AskedInv
    /\ phase \in {"ask", "merge", "done"}
    /\ phase = "ask" => Asking
    /\ phase = "merge" => DedupInv /\ AllAsked /\ Working # {}
    /\ phase = "done" => http = "422" \/ Reported

-----------------------------------------------------------------------------
(* Asking the providers.                                                    *)

\* A timeout is told from every other failure, and no failure counts as an answer
\* (_provider_error).
LEMMA FailureStates ==
    ASSUME NEW error \in Error
    PROVE  /\ StateOf(error) \in State
           /\ ~Works(StateOf(error))
           /\ StateOf(error) = "timeout" <=> error = "timeout"
BY DEF Error, StateOf, State, Works

\* The provider that is asked has sent nothing yet.
LEMMA NextAsked ==
    ASSUME AskedInv, NEW provider \in Provider, Asks(provider)
    PROVE  /\ provider = Providers[Len(results) + 1]
           /\ Len(results) + 1 \in DOMAIN Providers
           /\ Its(provider) = {}
           /\ \A n \in DOMAIN results : Providers[n] # provider
<1>1. /\ Providers \in Seq(Provider)
      /\ \A p, q \in DOMAIN Providers : Providers[p] = Providers[q] => p = q
    BY SearchAssumption
<1>2. /\ Len(results) \in Nat /\ DOMAIN results = 1..Len(results)
      /\ Len(results) < Len(Providers)
      /\ \A n \in DOMAIN results : results[n].provider = Providers[n]
      /\ \A i \in DOMAIN papers : \E n \in Working : papers[i].provider = results[n].provider
    BY DEF AskedInv, Asks
<1>3. /\ provider = Providers[Len(results) + 1]
      /\ Len(results) + 1 \in DOMAIN Providers
    BY <1>1, <1>2 DEF Asks
<1>4. \A n \in DOMAIN results : Providers[n] # provider
    BY <1>1, <1>2, <1>3
<1>5. Its(provider) = {}
    BY <1>2, <1>4 DEF Its, Working
<1> QED
    BY <1>3, <1>4, <1>5

LEMMA AnswerStep ==
    ASSUME AskedInv, NEW provider \in Provider,
           NEW records \in Seq({record \in Sent : record.provider = provider}),
           Answer(provider, records)
    PROVE  AskedInv'
<1> DEFINE new == Result(provider, IF records = << >> THEN "empty" ELSE "success", Len(records))
<1>0. PICK m \in Nat : m = Len(results) + 1
    BY DEF AskedInv
<1>1. /\ provider = Providers[m] /\ m \in DOMAIN Providers /\ Its(provider) = {}
      /\ \A n \in DOMAIN results : Providers[n] # provider
    BY <1>0, NextAsked DEF Answer
<1>2. /\ papers' = papers \o records
      /\ results' = Append(results, new) /\ outcomes' = Append(outcomes, "answered")
      /\ request' = request
    BY DEF Answer
<1>3. /\ papers \in Seq(Sent) /\ records \in Seq(Sent)
      /\ \A i \in DOMAIN records : records[i].provider = provider
    <2>1. records \in Seq({record \in Sent : record.provider = provider})
        OBVIOUS
    <2> QED
        BY <2>1 DEF AskedInv
<1>4. /\ papers' \in Seq(Sent) /\ Len(papers) \in Nat /\ Len(records) \in Nat
      /\ DOMAIN papers = 1..Len(papers)
      /\ DOMAIN papers' = 1..Len(papers) + Len(records)
      /\ \A i \in DOMAIN papers : papers'[i] = papers[i]
      /\ \A i \in Len(papers) + 1..Len(papers) + Len(records) : papers'[i].provider = provider
    <2>1. /\ Len(papers) \in Nat /\ Len(records) \in Nat
          /\ DOMAIN papers = 1..Len(papers) /\ DOMAIN records = 1..Len(records)
          /\ papers' \in Seq(Sent) /\ Len(papers') = Len(papers) + Len(records)
        BY <1>2, <1>3
    <2>2. \A i \in DOMAIN papers : papers'[i] = papers[i]
        BY <1>2, <1>3
    <2>3. ASSUME NEW i \in Len(papers) + 1..Len(papers) + Len(records)
          PROVE  papers'[i].provider = provider
        <3>1. i - Len(papers) \in DOMAIN records /\ i \in 1..Len(papers) + Len(records)
            BY <2>1
        <3>2. papers'[i] = records[i - Len(papers)]
            BY <1>2, <1>3, <2>1, <3>1
        <3> QED
            BY <1>3, <3>1, <3>2
    <2> QED
        BY <2>1, <2>2, <2>3
<1>5. /\ results \in Seq(ProviderResult)
      /\ outcomes \in Seq({"answered"} \cup Error)
      /\ Len(outcomes) = Len(results)
    BY DEF AskedInv
<1>6. /\ new \in ProviderResult
      /\ new.provider = provider /\ new.fetched = Len(records) /\ Works(new.status)
    BY <1>4 DEF ProviderResult, Result, State, Works
<1> HIDE DEF new
<1>7. /\ results' \in Seq(ProviderResult)
      /\ outcomes' \in Seq({"answered"} \cup Error)
      /\ Len(results') = m /\ Len(outcomes') = m /\ m \in 1..Len(Providers)
      /\ DOMAIN results = 1..m - 1 /\ DOMAIN results' = 1..m /\ m \in Nat
      /\ \A n \in 1..m - 1 : results'[n] = results[n] /\ outcomes'[n] = outcomes[n]
      /\ results'[m] = new /\ outcomes'[m] = "answered"
    BY <1>0, <1>1, <1>2, <1>5, <1>6, SearchAssumption
<1>8. \A p : p # provider => Its(p)' = Its(p)
    BY <1>4 DEF Its
<1>9. Cardinality(Its(provider)') = Len(records)
    <2>1. Its(provider)' = Len(papers) + 1..Len(papers) + Len(records)
        BY <1>1, <1>4 DEF Its
    <2> DEFINE a == Len(papers) + 1
               b == Len(papers) + Len(records)
    <2>2. a \in Int /\ b \in Int /\ (a > b <=> Len(records) = 0) /\ b - a + 1 = Len(records)
        BY <1>4
    <2> HIDE DEF a, b
    <2>3. Cardinality(a..b) = IF a > b THEN 0 ELSE b - a + 1
        BY <2>2, FS_Interval
    <2> QED
        BY <2>1, <2>2, <2>3 DEF a, b
<1>10. \A n \in DOMAIN results' :
          /\ results'[n].provider = Providers[n]
          /\ results'[n].fetched = Cardinality(Its(Providers[n])')
          /\ outcomes'[n] = "answered" => Works(results'[n].status)
          /\ outcomes'[n] # "answered" => results'[n].status = StateOf(outcomes'[n])
    <2>1. ASSUME NEW n \in 1..m - 1
          PROVE  /\ results'[n].provider = Providers[n]
                 /\ results'[n].fetched = Cardinality(Its(Providers[n])')
                 /\ outcomes'[n] = "answered" => Works(results'[n].status)
                 /\ outcomes'[n] # "answered" => results'[n].status = StateOf(outcomes'[n])
        <3>1. /\ n \in DOMAIN results /\ results'[n] = results[n] /\ outcomes'[n] = outcomes[n]
              /\ Its(Providers[n])' = Its(Providers[n])
            BY <1>1, <1>7, <1>8
        <3> QED
            BY <3>1 DEF AskedInv
    <2>2. /\ results'[m].provider = Providers[m]
          /\ results'[m].fetched = Cardinality(Its(Providers[m])')
          /\ outcomes'[m] = "answered" => Works(results'[m].status)
          /\ outcomes'[m] # "answered" => results'[m].status = StateOf(outcomes'[m])
        BY <1>1, <1>6, <1>7, <1>9
    <2> QED
        BY <1>7, <2>1, <2>2
<1>11. Working' = Working \cup {m}
    BY <1>6, <1>7 DEF Working
<1>12. \A i \in DOMAIN papers' : \E n \in Working' : papers'[i].provider = results'[n].provider
    <2>1. ASSUME NEW i \in DOMAIN papers
          PROVE  \E n \in Working' : papers'[i].provider = results'[n].provider
        <3>1. PICK n \in Working : papers[i].provider = results[n].provider
            BY DEF AskedInv
        <3>2. n \in 1..m - 1 /\ n \in Working'
            BY <1>7, <1>11 DEF Working
        <3> QED
            BY <1>4, <1>7, <3>1, <3>2
    <2>2. ASSUME NEW i \in Len(papers) + 1..Len(papers) + Len(records)
          PROVE  \E n \in Working' : papers'[i].provider = results'[n].provider
        BY <1>4, <1>6, <1>7, <1>11
    <2> QED
        BY <1>4, <2>1, <2>2
<1>13. /\ request' \in Requests
       /\ Len(outcomes') = Len(results') /\ Len(results') <= Len(Providers)
    BY <1>2, <1>7, SearchAssumption DEF AskedInv
<1> QED
    BY <1>4, <1>7, <1>10, <1>12, <1>13 DEF AskedInv

LEMMA RaiseStep ==
    ASSUME AskedInv, NEW provider \in Provider, NEW error \in Failures,
           Raise(provider, error)
    PROVE  AskedInv'
<1> DEFINE new == Result(provider, StateOf(error), 0)
<1>0. PICK m \in Nat : m = Len(results) + 1
    BY DEF AskedInv
<1>1. /\ provider = Providers[m] /\ m \in DOMAIN Providers /\ Its(provider) = {}
    BY <1>0, NextAsked DEF Raise
<1>2. /\ papers' = papers /\ request' = request
      /\ results' = Append(results, new) /\ outcomes' = Append(outcomes, error)
    BY DEF Raise, dedupVars
<1>3. /\ error \in Error /\ StateOf(error) \in State /\ ~Works(StateOf(error))
      /\ error # "answered"
    BY FailureStates, SearchAssumption DEF Error
<1>4. /\ results \in Seq(ProviderResult)
      /\ outcomes \in Seq({"answered"} \cup Error)
      /\ Len(outcomes) = Len(results)
    BY DEF AskedInv
<1>5. /\ new \in ProviderResult
      /\ new.provider = provider /\ new.fetched = 0 /\ new.status = StateOf(error)
    BY <1>3 DEF ProviderResult, Result
<1> HIDE DEF new
<1>6. /\ results' \in Seq(ProviderResult)
      /\ outcomes' \in Seq({"answered"} \cup Error)
      /\ Len(results') = m /\ Len(outcomes') = m /\ m \in 1..Len(Providers)
      /\ DOMAIN results = 1..m - 1 /\ DOMAIN results' = 1..m /\ m \in Nat
      /\ \A n \in 1..m - 1 : results'[n] = results[n] /\ outcomes'[n] = outcomes[n]
      /\ results'[m] = new /\ outcomes'[m] = error
    BY <1>0, <1>1, <1>2, <1>3, <1>4, <1>5, SearchAssumption
<1>7. \A p : Its(p)' = Its(p)
    BY <1>2 DEF Its
<1>8. Cardinality(Its(provider)') = 0
    BY <1>1, <1>7, FS_EmptySet
<1>9. \A n \in DOMAIN results' :
          /\ results'[n].provider = Providers[n]
          /\ results'[n].fetched = Cardinality(Its(Providers[n])')
          /\ outcomes'[n] = "answered" => Works(results'[n].status)
          /\ outcomes'[n] # "answered" => results'[n].status = StateOf(outcomes'[n])
    <2>1. ASSUME NEW n \in 1..m - 1
          PROVE  /\ results'[n].provider = Providers[n]
                 /\ results'[n].fetched = Cardinality(Its(Providers[n])')
                 /\ outcomes'[n] = "answered" => Works(results'[n].status)
                 /\ outcomes'[n] # "answered" => results'[n].status = StateOf(outcomes'[n])
        <3>1. /\ n \in DOMAIN results /\ results'[n] = results[n] /\ outcomes'[n] = outcomes[n]
              /\ Its(Providers[n])' = Its(Providers[n])
            BY <1>6, <1>7
        <3> QED
            BY <3>1 DEF AskedInv
    <2>2. /\ results'[m].provider = Providers[m]
          /\ results'[m].fetched = Cardinality(Its(Providers[m])')
          /\ outcomes'[m] = "answered" => Works(results'[m].status)
          /\ outcomes'[m] # "answered" => results'[m].status = StateOf(outcomes'[m])
        BY <1>1, <1>3, <1>5, <1>6, <1>8
    <2> QED
        BY <1>6, <2>1, <2>2
<1>10. Working' = Working
    BY <1>3, <1>5, <1>6 DEF Working
<1>11. \A i \in DOMAIN papers' : \E n \in Working' : papers'[i].provider = results'[n].provider
    BY <1>2, <1>6, <1>10 DEF AskedInv, Working
<1>12. /\ request' \in Requests /\ papers' \in Seq(Sent)
       /\ Len(outcomes') = Len(results') /\ Len(results') <= Len(Providers)
    BY <1>2, <1>6, SearchAssumption DEF AskedInv
<1> QED
    BY <1>6, <1>9, <1>11, <1>12 DEF AskedInv

-----------------------------------------------------------------------------
(* Merging and reporting.                                                   *)

LEMMA SentAreRecords == AskedInv => Recorded
<1> SUFFICES ASSUME AskedInv PROVE Recorded
    OBVIOUS
<1>1. papers \in Seq(Sent)
    BY DEF AskedInv
<1>2. \A record \in Sent : IsRecord(record)
    BY DEF Sent, IsRecord
<1> QED
    BY <1>1, <1>2 DEF Recorded

\* Nothing of what the providers did changes any more.
LEMMA AskedStays ==
    ASSUME AskedInv, UNCHANGED <<request, results, outcomes, papers>>
    PROVE  AskedInv' /\ Working' = Working /\ (AllAsked' <=> AllAsked)
<1>1. Working' = Working /\ \A p : Its(p)' = Its(p)
    BY DEF Working, Its
<1>2. AskedInv'
    BY <1>1 DEF AskedInv
<1> QED
    BY <1>1, <1>2 DEF AllAsked, Valid

LEMMA CollectStep ==
    ASSUME AskedInv, Asking, Collect
    PROVE  AskedInv' /\ DedupInv' /\ AllAsked' /\ Working' # {}
<1>1. /\ AllAsked /\ Working # {}
      /\ UNCHANGED <<request, results, outcomes, papers, index, todo, seen>>
      /\ root' = Alone(papers).root /\ dois' = Alone(papers).dois
      /\ arxivs' = Alone(papers).arxivs
    BY DEF Collect
<1>2. AskedInv' /\ Working' = Working /\ AllAsked'
    BY <1>1, AskedStays
<1>3. Recorded'
    BY <1>2, SentAreRecords, PTL
<1>4. SharedKey' = SharedKey /\ Alone(papers)' = Alone(papers)
    BY <1>1 DEF SharedKey, Alone
<1>5. Begun'
    BY <1>1, <1>3, <1>4 DEF Begun, Asking
<1>6. DedupInv'
    BY <1>5, BeginAccounted, PTL
<1> QED
    BY <1>1, <1>2, <1>6

LEMMA DeduplicateStep ==
    ASSUME AskedInv, DedupInv, Deduplicate
    PROVE  AskedInv' /\ DedupInv' /\ Working' = Working /\ (AllAsked' <=> AllAsked)
<1>1. NextDedup /\ UNCHANGED serviceVars
    BY DEF Deduplicate
<1>2. papers' = papers
    BY <1>1 DEF NextDedup, Advance, Remember, Unite, PassOver
<1>3. DedupInv'
    BY <1>1, DedupStep
<1> QED
    BY <1>1, <1>2, <1>3, AskedStays DEF serviceVars

\* The papers that pass the filters.
Passing ==
    {paper \in {Candidate(Group(r)) : r \in {root[i] : i \in DOMAIN papers}} : Passes(paper)}

\* There are no more of them than records.
LEMMA PassingFinite ==
    ASSUME Recorded
    PROVE  IsFiniteSet(Passing) /\ Cardinality(Passing) \in Nat
<1> DEFINE of == [i \in DOMAIN papers |-> Candidate(Group(root[i]))]
           Candidates2 == {Candidate(Group(r)) : r \in {root[i] : i \in DOMAIN papers}}
<1>1. IsFiniteSet(DOMAIN papers)
    <2>1. Len(papers) \in Int /\ DOMAIN papers = 1..Len(papers)
        BY DEF Recorded
    <2> QED
        BY <2>1, FS_Interval
<1>2. of \in Surjection(DOMAIN papers, Candidates2)
    BY DEF Surjection
<1>3. IsFiniteSet(Candidates2)
    BY <1>1, <1>2, FS_Surjection
<1>4. Passing \in SUBSET Candidates2
    BY DEF Passing
<1>5. IsFiniteSet(Passing)
    BY <1>3, <1>4, FS_Subset
<1> QED
    BY <1>5, FS_CardinalityType

LEMMA ValidLimit == Valid => request.limit \in Nat
<1>1. Valid => request.limit \in 1..50
    BY DEF Valid
<1> QED
    BY <1>1

\* A ranking lists papers that pass, none twice, as many as the limit allows.
LEMMA RankingsList ==
    ASSUME AskedInv, AllAsked, NEW list \in Rankings
    PROVE  \E length \in Nat :
              /\ list \in Injection(1..length, Passing)
              /\ length = Cardinality(Passing) \/ length = request.limit
<1> DEFINE length == IF Cardinality(Passing) <= request.limit
                     THEN Cardinality(Passing) ELSE request.limit
<1>1. request.limit \in Nat
    BY ValidLimit DEF AllAsked
<1>2. length \in Nat
    BY <1>1, PassingFinite, SentAreRecords
<1>3. /\ list \in [1..length -> Passing]
      /\ \A k, l \in 1..length : list[k] = list[l] => k = l
    BY DEF Rankings, Passing
<1>4. list \in Injection(1..length, Passing)
    BY <1>3 DEF Injection, IsInjective
<1> QED
    BY <1>2, <1>4

LEMMA ShowableFinite ==
    ASSUME AskedInv, AllAsked, NEW list, Showable(list)
    PROVE  IsFiniteSet(DOMAIN list)
<1>1. CASE list = << >>
    <2>1. DOMAIN list = {}
        BY <1>1
    <2> QED
        BY <2>1, FS_EmptySet
<1>2. CASE list \in Rankings
    <2>1. PICK length \in Nat : DOMAIN list = 1..length
        BY <1>2, RankingsList DEF Injection
    <2> QED
        BY <2>1, FS_Interval
<1> QED
    BY <1>1, <1>2 DEF Showable

LEMMA RankingsSame ==
    ASSUME UNCHANGED <<request, papers, root>>
    PROVE  Rankings' = Rankings
BY DEF Rankings, Candidate, Merge, Group, ProvidersOf, FirstOf, First, Field, Years,
       LongestAbstract, DoiOf, TitleOf, Passes, InYears, InJournals

\* The result tells what the providers did and what is shown.
LEMMA RespondStep ==
    ASSUME AskedInv, AllAsked, NEW list, Respond(list), Showable(list)
    PROVE  AskedInv' /\ Reported'
<1> DEFINE Credited(n) == {k \in DOMAIN list : results[n].provider \in list[k].providers}
<1>1. /\ shown' = list
      /\ results' = [n \in DOMAIN results |->
                         [results[n] EXCEPT !.returned = Cardinality(Credited(n))]]
      /\ status' = Aggregate(list) /\ http' = HttpStatus
      /\ UNCHANGED <<request, outcomes>> /\ UNCHANGED dedupVars
    BY DEF Respond
<1>2. ASSUME NEW n PROVE Cardinality(Credited(n)) \in Nat
    <2>1. IsFiniteSet(DOMAIN list) /\ Credited(n) \in SUBSET DOMAIN list
        BY ShowableFinite
    <2>2. IsFiniteSet(Credited(n))
        BY <2>1, FS_Subset
    <2> QED
        BY <2>2, FS_CardinalityType
<1> HIDE DEF Credited
<1>3. /\ results' \in Seq(ProviderResult)
      /\ DOMAIN results' = DOMAIN results /\ Len(results') = Len(results)
      /\ \A n \in DOMAIN results :
            /\ results'[n].provider = results[n].provider
            /\ results'[n].status = results[n].status
            /\ results'[n].fetched = results[n].fetched
            /\ results'[n].returned = Cardinality(Credited(n))
    <2>1. /\ Len(results) \in Nat /\ DOMAIN results = 1..Len(results)
          /\ \A n \in DOMAIN results :
                results[n] \in ProviderResult
        BY DEF AskedInv
    <2>2. /\ DOMAIN results' = DOMAIN results
          /\ \A n \in DOMAIN results :
                results'[n] = [results[n] EXCEPT !.returned = Cardinality(Credited(n))]
        BY <1>1
    <2>3. \A n \in DOMAIN results :
            /\ results'[n] \in ProviderResult
            /\ results'[n].provider = results[n].provider
            /\ results'[n].status = results[n].status
            /\ results'[n].fetched = results[n].fetched
            /\ results'[n].returned = Cardinality(Credited(n))
        BY <1>2, <2>1, <2>2 DEF ProviderResult
    <2>4. results' \in [1..Len(results) -> ProviderResult]
        BY <1>1, <2>1, <2>3
    <2>5. /\ results' \in Seq(ProviderResult)
          /\ Len(results') = Len(results)
        BY <2>1, <2>4
    <2> QED
        BY <2>2, <2>3, <2>5
<1>4. UNCHANGED <<papers, index, todo, seen, root, dois, arxivs>>
    BY <1>1 DEF dedupVars
<1>5. Working' = Working /\ \A p : Its(p)' = Its(p)
    BY <1>3, <1>4 DEF Working, Its
<1>6. AskedInv'
    <2>1. /\ request' \in Requests /\ papers' \in Seq(Sent)
          /\ outcomes' \in Seq({"answered"} \cup Error)
          /\ Len(outcomes') = Len(results') /\ Len(results') <= Len(Providers)
        BY <1>1, <1>3, <1>4 DEF AskedInv
    <2>2. \A n \in DOMAIN results' :
            /\ results'[n].provider = Providers[n]
            /\ results'[n].fetched = Cardinality(Its(Providers[n])')
            /\ outcomes'[n] = "answered" => Works(results'[n].status)
            /\ outcomes'[n] # "answered" => results'[n].status = StateOf(outcomes'[n])
        BY <1>1, <1>3, <1>5 DEF AskedInv
    <2>3. \A i \in DOMAIN papers' : \E n \in Working' :
            papers'[i].provider = results'[n].provider
        BY <1>3, <1>4, <1>5 DEF AskedInv, Working
    <2> QED
        BY <1>3, <2>1, <2>2, <2>3 DEF AskedInv
<1>7. AllAsked'
    BY <1>1, <1>3 DEF AllAsked, Valid
<1>8. Showable(list)'
    <2>1. Rankings' = Rankings
        BY <1>1, <1>4, RankingsSame
    <2>2. DedupInv => DedupInv'
        BY <1>1, DedupStep
    <2>3. (list \in Rankings)' <=> list \in Rankings'
        BY <1>1
    <2> QED
        BY <1>5, <2>1, <2>2 DEF Showable
<1>9. status' = Aggregate(shown)' /\ http' = HttpStatus'
    BY <1>1, <1>3, <1>5 DEF Aggregate, HttpStatus
<1>10. \A n \in DOMAIN results' :
          results'[n].returned =
              Cardinality({k \in DOMAIN list : results'[n].provider \in list[k].providers})
    BY <1>3 DEF Credited
<1> QED
    BY <1>1, <1>6, <1>7, <1>8, <1>9, <1>10 DEF Reported

LEMMA StutterStep ==
    ASSUME SearchInv, UNCHANGED searchVars
    PROVE  SearchInv'
<1>1. /\ UNCHANGED <<papers, index, todo, seen, root, dois, arxivs>>
      /\ UNCHANGED <<request, phase, results, shown, status, http, outcomes>>
    BY DEF searchVars, serviceVars, dedupVars
<1>2. /\ AskedInv' /\ Working' = Working /\ (AllAsked' <=> AllAsked)
    BY <1>1, AskedStays DEF SearchInv
<1>3. DedupInv => DedupInv'
    BY <1>1, DedupStep DEF dedupVars
<1>4. Rankings' = Rankings
    BY <1>1, RankingsSame
<1>5. Asking => Asking'
    BY <1>1 DEF Asking, SharedKey
<1>6. Showable(shown) => Showable(shown)'
    BY <1>1, <1>2, <1>3, <1>4 DEF Showable
<1>7. Aggregate(shown)' = Aggregate(shown) /\ HttpStatus' = HttpStatus
    BY <1>1, <1>2 DEF Aggregate, HttpStatus
<1>8. Reported => Reported'
    BY <1>1, <1>2, <1>6, <1>7 DEF Reported
<1> QED
    BY <1>1, <1>2, <1>3, <1>5, <1>8 DEF SearchInv

\* A provider answers, with whatever records.
LEMMA AnswerKeeps ==
    ASSUME SearchInv, NEW provider \in Provider,
           NEW records \in Seq({record \in Sent : record.provider = provider}),
           Answer(provider, records)
    PROVE  SearchInv'
<1>1. AskedInv /\ (phase = "ask" => Asking)
    BY DEF SearchInv
<1>2. /\ phase = "ask" /\ phase' = "ask"
      /\ UNCHANGED <<shown, index, todo, seen>>
    BY DEF Answer, Asks
<1>3. Asking'
    BY <1>1, <1>2 DEF Asking, SharedKey
<1>4. AskedInv'
    BY <1>1, AnswerStep
<1> QED
    BY <1>2, <1>3, <1>4 DEF SearchInv

LEMMA SearchStep == SearchInv /\ [NextSearch]_searchVars => SearchInv'
<1> SUFFICES ASSUME SearchInv, [NextSearch]_searchVars PROVE SearchInv'
    OBVIOUS
<1>1. AskedInv /\ (phase = "ask" => Asking)
    BY DEF SearchInv
<1>2. CASE Refuse
    <2>1. /\ phase' = "done" /\ http' = "422"
          /\ UNCHANGED <<request, results, outcomes, papers>>
        BY <1>2 DEF Refuse, dedupVars
    <2>2. AskedInv'
        BY <1>1, <2>1, AskedStays
    <2> QED
        BY <2>1, <2>2 DEF SearchInv
<1>3. ASSUME NEW provider \in Provider, NEW records \in Answers[provider],
             Answer(provider, records)
      PROVE  SearchInv'
    <2>1. records \in Seq({record \in Sent : record.provider = provider})
        BY AnswersAssumption
    <2> QED
        BY <1>3, <2>1, AnswerKeeps
<1>4. ASSUME NEW provider \in Provider, NEW error \in Failures, Raise(provider, error)
      PROVE  SearchInv'
    <2>1. /\ phase = "ask" /\ phase' = "ask"
          /\ UNCHANGED <<shown, index, todo, seen>>
        BY <1>4 DEF Raise, Asks, dedupVars
    <2>2. Asking'
        BY <1>1, <2>1 DEF Asking, SharedKey
    <2>3. AskedInv'
        BY <1>1, <1>4, RaiseStep
    <2> QED
        BY <2>1, <2>2, <2>3 DEF SearchInv
<1>5. CASE Collect
    <2>1. phase = "ask" /\ phase' = "merge"
        BY <1>5 DEF Collect
    <2>2. AskedInv' /\ DedupInv' /\ AllAsked' /\ Working' # {}
        BY <1>1, <1>5, <2>1, CollectStep
    <2> QED
        BY <2>1, <2>2 DEF SearchInv
<1>6. CASE Deduplicate
    <2>1. phase = "merge" /\ phase' = "merge"
        BY <1>6 DEF Deduplicate, serviceVars
    <2>2. DedupInv /\ AllAsked /\ Working # {}
        BY <2>1 DEF SearchInv
    <2>3. AskedInv' /\ DedupInv' /\ AllAsked' /\ Working' # {}
        BY <1>1, <1>6, <2>2, DeduplicateStep
    <2> QED
        BY <2>1, <2>3 DEF SearchInv
<1>7. CASE Rank
    <2>1. PICK list \in Rankings : Respond(list)
        BY <1>7 DEF Rank
    <2>2. AllAsked /\ Showable(list)
        BY <1>7, <2>1 DEF Rank, SearchInv, Showable
    <2>3. AskedInv' /\ Reported' /\ phase' = "done"
        BY <1>1, <2>1, <2>2, RespondStep DEF Respond
    <2> QED
        BY <2>3 DEF SearchInv
<1>8. CASE NothingWorked
    <2>1. AllAsked /\ Showable(<< >>) /\ Respond(<< >>)
        BY <1>8 DEF NothingWorked, Showable
    <2>2. AskedInv' /\ Reported' /\ phase' = "done"
        BY <1>1, <2>1, RespondStep DEF Respond
    <2> QED
        BY <2>2 DEF SearchInv
<1>9. CASE UNCHANGED searchVars
    BY <1>9, StutterStep
<1> QED
    BY <1>2, <1>3, <1>4, <1>5, <1>6, <1>7, <1>8, <1>9 DEF NextSearch

LEMMA SearchBegins == InitSearch => SearchInv
<1> SUFFICES ASSUME InitSearch PROVE SearchInv
    OBVIOUS
<1>1. /\ results = << >> /\ outcomes = << >> /\ papers = << >> /\ request \in Requests
      /\ phase = "ask" /\ Asking
    BY DEF InitSearch, Asking
<1>2. AskedInv
    BY <1>1, SearchAssumption DEF AskedInv
<1> QED
    BY <1>1, <1>2 DEF SearchInv

\* Whatever the providers send and in whatever way they fail, each phase of a
\* search finds what the one before promised (SearchService.search).
THEOREM SearchAccounted == SpecSearch => []SearchInv
<1> QED
    BY SearchBegins, SearchStep, PTL DEF SpecSearch

-----------------------------------------------------------------------------
(* What is shown.                                                           *)

\* What a group becomes (_merge, and the journal that search() gives it).
LEMMA CandidateFields ==
    ASSUME NEW S
    PROVE  /\ Candidate(S).records = S
           /\ Candidate(S).providers = ProvidersOf(S)
           /\ Candidate(S).meta.year = FirstOf(Years(S))
           /\ LET issn == FirstOf(Field(S, "issn"))
              IN  issn # None => Candidate(S).meta.journalId = issn
<1> DEFINE meta == Merge(S).meta
<1>1. /\ meta.year = FirstOf(Years(S)) /\ meta.issn = FirstOf(Field(S, "issn"))
      /\ Merge(S).records = S /\ Merge(S).providers = ProvidersOf(S)
      /\ meta = [year |-> meta.year, issn |-> meta.issn, sourceId |-> meta.sourceId,
                 journalId |-> meta.journalId, name |-> meta.name]
    BY DEF Merge
<1>2. Candidate(S).meta = WithJournal(meta)
      /\ Candidate(S).records = Merge(S).records
      /\ Candidate(S).providers = Merge(S).providers
    BY DEF Candidate, Merge
<1> HIDE DEF meta
<1>3. WithJournal(meta).year = meta.year
    BY <1>1 DEF WithJournal
<1>4. meta.issn # None => JournalOf(meta) = meta.issn
    BY DEF JournalOf, FirstKnown
<1>5. meta.issn # None => WithJournal(meta).journalId = meta.issn
    BY <1>1, <1>4 DEF WithJournal
<1> QED
    BY <1>1, <1>2, <1>3, <1>5

\* Each paper of a response is a group of records that passed, and each group is
\* shown at most once.
LEMMA ShownGroups ==
    ASSUME SearchInv, SearchDone
    PROVE  /\ \A k \in DOMAIN shown : \E i \in DOMAIN papers :
                /\ shown[k] = Candidate(Group(root[i])) /\ Passes(shown[k])
                /\ shown[k].records = Group(root[i]) /\ i \in Group(root[i])
                /\ shown[k].providers = ProvidersOf(Group(root[i]))
           /\ \A k, l \in DOMAIN shown :
                shown[k].records \cap shown[l].records # {} => k = l
<1>1. Reported
    BY DEF SearchInv, SearchDone
<1>2. CASE shown = << >>
    BY <1>2
<1>3. CASE DedupInv /\ shown \in Rankings
    <2>1. /\ \A k \in DOMAIN shown : shown[k] \in Passing
          /\ \A k, l \in DOMAIN shown : shown[k] = shown[l] => k = l
        BY <1>1, <1>3, RankingsList DEF SearchInv, Reported, Injection, IsInjective
    <2>2. root \in [DOMAIN papers -> DOMAIN papers]
        BY <1>3 DEF DedupInv, DedupTypeOK
    <2>3. ASSUME NEW k \in DOMAIN shown
          PROVE  \E i \in DOMAIN papers :
                    /\ shown[k] = Candidate(Group(root[i])) /\ Passes(shown[k])
                    /\ shown[k].records = Group(root[i]) /\ i \in Group(root[i])
                    /\ shown[k].providers = ProvidersOf(Group(root[i]))
        <3>1. PICK i \in DOMAIN papers : shown[k] = Candidate(Group(root[i])) /\ Passes(shown[k])
            BY <2>1 DEF Passing
        <3>2. i \in Group(root[i])
            BY <2>2 DEF Group
        <3> QED
            BY <3>1, <3>2, CandidateFields
    <2>4. ASSUME NEW k \in DOMAIN shown, NEW l \in DOMAIN shown,
                 NEW m \in shown[k].records \cap shown[l].records
          PROVE  k = l
        <3>1. PICK i \in DOMAIN papers :
                shown[k] = Candidate(Group(root[i])) /\ shown[k].records = Group(root[i])
            BY <2>3
        <3>2. PICK j \in DOMAIN papers :
                shown[l] = Candidate(Group(root[j])) /\ shown[l].records = Group(root[j])
            BY <2>3
        <3>3. root[m] = root[i] /\ root[m] = root[j]
            BY <3>1, <3>2 DEF Group
        <3> QED
            BY <2>1, <3>1, <3>2, <3>3
    <2> QED
        BY <2>3, <2>4
<1> QED
    BY <1>1, <1>2, <1>3 DEF Reported, Showable

LEMMA ShownRoots ==
    ASSUME SearchInv, SearchDone, shown # << >>
    PROVE  DOMAIN root = DOMAIN papers
<1>1. Reported
    BY DEF SearchInv, SearchDone
<1> QED
    BY <1>1 DEF Reported, Showable, DedupInv, DedupTypeOK

\* A provider is credited with no more papers than it sent records.
LEMMA CreditedSent ==
    ASSUME SearchInv, SearchDone, NEW provider
    PROVE  Cardinality({k \in DOMAIN shown : shown[k].records \cap Its(provider) # {}})
             <= Cardinality(Its(provider))
<1> DEFINE Credited == {k \in DOMAIN shown : shown[k].records \cap Its(provider) # {}}
           sample == [k \in Credited |-> CHOOSE i \in Its(provider) : i \in shown[k].records]
<1>1. \A k \in Credited : sample[k] \in Its(provider) /\ sample[k] \in shown[k].records
    OBVIOUS
<1> HIDE DEF sample
<1>2. \A k, l \in Credited : sample[k] = sample[l] => k = l
    BY <1>1, ShownGroups
<1>3. sample \in Injection(Credited, Its(provider))
    BY <1>1, <1>2 DEF Injection, IsInjective, sample
<1>4. IsFiniteSet(Its(provider))
    <2>1. Len(papers) \in Int /\ Its(provider) \in SUBSET (1..Len(papers))
        BY DEF SearchInv, AskedInv, Its
    <2>2. IsFiniteSet(1..Len(papers))
        BY <2>1, FS_Interval
    <2> QED
        BY <2>1, <2>2, FS_Subset
<1> QED
    BY <1>3, <1>4, FS_Injection

LEMMA CountsWhenDone == SearchInv => CountsAgree
<1> SUFFICES ASSUME SearchInv, SearchDone
             PROVE  /\ \A n \in DOMAIN results :
                          LET its == {i \in DOMAIN papers : papers[i].provider = results[n].provider}
                          IN  /\ results[n].fetched = Cardinality(its)
                              /\ results[n].returned <= results[n].fetched
                              /\ results[n].returned =
                                    Cardinality({k \in DOMAIN shown : shown[k].records \cap its # {}})
                    /\ \A k \in DOMAIN shown : \E n \in Working :
                          results[n].provider \in shown[k].providers
    BY DEF CountsAgree
<1>1. AskedInv /\ Reported
    BY DEF SearchInv, SearchDone
<1>2. ASSUME NEW n \in DOMAIN results
      PROVE  LET its == {i \in DOMAIN papers : papers[i].provider = results[n].provider}
             IN  /\ results[n].fetched = Cardinality(its)
                 /\ results[n].returned <= results[n].fetched
                 /\ results[n].returned =
                       Cardinality({k \in DOMAIN shown : shown[k].records \cap its # {}})
    <2> DEFINE its == Its(results[n].provider)
               Credited == {k \in DOMAIN shown : shown[k].records \cap its # {}}
    <2>1. results[n].fetched = Cardinality(its)
        BY <1>1 DEF AskedInv
    <2>2. ASSUME NEW k \in DOMAIN shown
          PROVE  results[n].provider \in shown[k].providers <=> shown[k].records \cap its # {}
        <3>1. PICK i \in DOMAIN papers :
                /\ shown[k].records = Group(root[i])
                /\ shown[k].providers = ProvidersOf(Group(root[i]))
            BY ShownGroups
        <3>2. DOMAIN root = DOMAIN papers
            BY ShownRoots
        <3> QED
            BY <3>1, <3>2 DEF ProvidersOf, Its, Group
    <2>3. Credited = {k \in DOMAIN shown : results[n].provider \in shown[k].providers}
        BY <2>2
    <2>4. results[n].returned = Cardinality(Credited)
        BY <1>1, <2>3 DEF Reported
    <2>5. Cardinality(Credited) <= Cardinality(its)
        BY CreditedSent
    <2> QED
        BY <2>1, <2>4, <2>5 DEF Its
<1>3. ASSUME NEW k \in DOMAIN shown
      PROVE  \E n \in Working : results[n].provider \in shown[k].providers
    <2>1. PICK i \in DOMAIN papers :
            i \in Group(root[i]) /\ shown[k].providers = ProvidersOf(Group(root[i]))
        BY ShownGroups
    <2>2. PICK n \in Working : papers[i].provider = results[n].provider
        BY <1>1 DEF AskedInv
    <2> QED
        BY <2>1, <2>2 DEF ProvidersOf
<1> QED
    BY <1>2, <1>3

\* The first of some records is one of them (First is a CHOOSE).
LEMMA FirstIn ==
    ASSUME NEW S \in SUBSET Nat, S # {}
    PROVE  First(S) \in S /\ \A j \in S : First(S) <= j
<1> DEFINE less == OpToRel(<, Nat)
<1>1. less = {pair \in Nat \X Nat : pair[1] < pair[2]}
    BY DEF OpToRel
<1>2. IsWellFoundedOn(less, Nat)
    BY NatLessThanWellFounded
<1> HIDE DEF less
<1>3. PICK i \in S : \A j \in S : ~(<<j, i>> \in less)
    BY <1>2, WFMin
<1>4. ASSUME NEW j \in S PROVE i <= j
    <2>1. i \in Nat /\ j \in Nat
        OBVIOUS
    <2>2. j < i => <<j, i>> \in less
        BY <1>1, <2>1
    <2> QED
        BY <1>3, <2>1, <2>2
<1> QED
    BY <1>4 DEF First

\* A field that some record has is taken from one of those that have it.
LEMMA FirstOfKnown ==
    ASSUME NEW value, DOMAIN value \in SUBSET Nat
    PROVE  /\ (\E i \in DOMAIN value : value[i] # None) =>
                \E i \in DOMAIN value : value[i] # None /\ FirstOf(value) = value[i]
           /\ (\A i \in DOMAIN value : value[i] = None) => FirstOf(value) = None
<1> DEFINE having == {i \in DOMAIN value : value[i] # None}
<1>1. having \in SUBSET Nat
    OBVIOUS
<1>2. CASE having = {}
    BY <1>2 DEF FirstOf
<1>3. CASE having # {}
    <2>1. First(having) \in having
        BY <1>1, <1>3, FirstIn
    <2>2. FirstOf(value) = value[First(having)]
        BY <1>3 DEF FirstOf
    <2> QED
        BY <2>1, <2>2
<1> QED
    BY <1>2, <1>3

LEMMA IssnWhenDone == SearchInv => JournalByIssn
<1> SUFFICES ASSUME SearchInv, SearchDone, request.journals # {}, NEW k \in DOMAIN shown,
                    {papers[i].meta.issn : i \in shown[k].records} \ {None} # {}
             PROVE  ({papers[i].meta.issn : i \in shown[k].records} \ {None})
                        \cap request.journals # {}
    BY DEF JournalByIssn
<1>1. PICK i \in DOMAIN papers :
        /\ shown[k] = Candidate(Group(root[i])) /\ Passes(shown[k])
        /\ shown[k].records = Group(root[i]) /\ i \in Group(root[i])
    BY ShownGroups
<1> DEFINE S == Group(root[i])
           issns == Field(S, "issn")
<1>2. DOMAIN issns = S /\ \A j \in S : issns[j] = papers[j].meta.issn
    BY DEF Field
<1>3. S \in SUBSET Nat
    <2>1. DOMAIN root = DOMAIN papers
        BY ShownRoots
    <2>2. DOMAIN papers \in SUBSET Nat
        BY DEF SearchInv, AskedInv
    <2> QED
        BY <2>1, <2>2 DEF Group
<1> HIDE DEF S, issns
<1>4. PICK j \in S : issns[j] # None /\ FirstOf(issns) = issns[j]
    <2>1. \E j \in S : issns[j] # None
        BY <1>1, <1>2 DEF S
    <2> QED
        BY <1>2, <1>3, <2>1, FirstOfKnown
<1>5. shown[k].meta.journalId = issns[j]
    BY <1>1, <1>4, CandidateFields DEF S, issns
<1>6. shown[k].meta.journalId \in request.journals
    BY <1>1 DEF Passes, InJournals
<1> QED
    BY <1>1, <1>2, <1>4, <1>5, <1>6 DEF S

\* A response that is not full shows every group that passes.
LEMMA NotFull ==
    ASSUME SearchInv, SearchDone, Len(shown) < request.limit, Working # {},
           NEW paper \in Passing
    PROVE  \E k \in DOMAIN shown : shown[k] = paper
<1>1. Reported /\ AskedInv /\ AllAsked /\ shown \in Rankings
    BY DEF SearchInv, SearchDone, Reported, Showable
<1>2. PICK length \in Nat :
        /\ shown \in Injection(1..length, Passing)
        /\ length = Cardinality(Passing) \/ length = request.limit
    BY <1>1, RankingsList
<1>3. Len(shown) = length /\ DOMAIN shown = 1..length
    <2>1. shown \in [1..length -> Passing]
        BY <1>2 DEF Injection
    <2>2. shown \in Seq(Passing)
        BY <2>1
    <2> QED
        BY <2>1, <2>2
<1>4. length = Cardinality(Passing)
    BY <1>2, <1>3
<1>5. IsFiniteSet(Passing)
    BY <1>1, PassingFinite, SentAreRecords
<1>6. Cardinality(1..length) = length
    BY FS_Interval
<1>7. shown \in Surjection(1..length, Passing)
    BY <1>2, <1>4, <1>5, <1>6, FS_Injection
<1> QED
    BY <1>3, <1>7 DEF Surjection

LEMMA InRangeWhenDone == SearchInv => NothingInRangeIsLost
<1> SUFFICES ASSUME SearchInv, SearchDone, request.journals = {}, Len(shown) < request.limit,
                    NEW i \in DOMAIN papers,
                    \E j \in Group(root[i]) : InYears(request, papers[j].meta.year),
                    \A j \in Group(root[i]) :
                        papers[j].meta.year # None => InYears(request, papers[j].meta.year)
             PROVE  \E k \in DOMAIN shown : i \in shown[k].records
    BY DEF NothingInRangeIsLost
<1> DEFINE S == Group(root[i])
           years == Years(S)
<1>1. AskedInv /\ Reported
    BY DEF SearchInv, SearchDone
<1>2. Working # {}
    BY <1>1 DEF AskedInv
<1>3. DedupInv /\ DOMAIN papers \in SUBSET Nat
    BY <1>1, <1>2 DEF Reported, Showable, AskedInv
<1>4. i \in S /\ S \in SUBSET Nat
    BY <1>3 DEF DedupInv, DedupTypeOK, Group
<1>5. DOMAIN years = S /\ \A j \in S : years[j] = papers[j].meta.year
    BY DEF Years, Field
<1> HIDE DEF S, years
<1>6. InYears(request, FirstOf(years))
    <2>1. CASE \E j \in S : years[j] # None
        <3>1. PICK j \in S : years[j] # None /\ FirstOf(years) = years[j]
            BY <1>4, <1>5, <2>1, FirstOfKnown
        <3> QED
            BY <1>5, <3>1 DEF S
    <2>2. CASE \A j \in S : years[j] = None
        <3>1. FirstOf(years) = None
            BY <1>4, <1>5, <2>2, FirstOfKnown
        <3> QED
            BY <1>5, <2>2, <3>1 DEF S
    <2> QED
        BY <2>1, <2>2
<1>7. Passes(Candidate(S))
    BY <1>6, CandidateFields DEF Passes, InJournals, years
<1>8. Candidate(S) \in Passing
    BY <1>7 DEF Passing, S
<1>9. PICK k \in DOMAIN shown : shown[k] = Candidate(S)
    BY <1>2, <1>8, NotFull
<1> QED
    BY <1>4, <1>9, CandidateFields

LEMMA StatusWhenDone == SearchInv => StatusFits
<1> SUFFICES ASSUME SearchInv, SearchDone
             PROVE  LET failed == {n \in DOMAIN outcomes : outcomes[n] \in Error}
                        late == {n \in DOMAIN outcomes : outcomes[n] = "timeout"}
                    IN  /\ http = "504" <=> late = DOMAIN outcomes
                        /\ http = "502" <=> failed = DOMAIN outcomes /\ late # failed
                        /\ status = "all_providers_failed" <=> http # "200"
                        /\ status = "partial_success" <=> failed # {} /\ failed # DOMAIN outcomes
                        /\ failed = {} <=> status \in {"success", "success_empty"}
    BY DEF StatusFits
<1> DEFINE failed == {n \in DOMAIN outcomes : outcomes[n] \in Error}
           late == {n \in DOMAIN outcomes : outcomes[n] = "timeout"}
<1>1. AskedInv /\ Reported
    BY DEF SearchInv, SearchDone
<1>2. DOMAIN outcomes = DOMAIN results /\ DOMAIN results # {}
    BY <1>1, SearchAssumption DEF AskedInv, Reported, AllAsked
<1>3. ASSUME NEW n \in DOMAIN outcomes
      PROVE  /\ outcomes[n] \in Error <=> ~Works(results[n].status)
             /\ outcomes[n] = "timeout" <=> results[n].status = "timeout"
    <2>1. outcomes[n] \in {"answered"} \cup Error /\ "answered" \notin Error
        BY <1>1 DEF AskedInv, Error
    <2>2. CASE outcomes[n] = "answered"
        <3>1. Works(results[n].status)
            BY <1>1, <1>2, <2>2 DEF AskedInv
        <3> QED
            BY <2>1, <2>2, <3>1 DEF Works
    <2>3. CASE outcomes[n] \in Error
        <3>1. results[n].status = StateOf(outcomes[n])
            BY <1>1, <1>2, <2>1, <2>3 DEF AskedInv
        <3> QED
            BY <2>3, <3>1, FailureStates
    <2> QED
        BY <2>1, <2>2, <2>3
<1>4. /\ failed = DOMAIN results \ Working
      /\ late = {n \in DOMAIN results : results[n].status = "timeout"}
      /\ late \subseteq failed
    BY <1>2, <1>3 DEF Working, Error
<1>5. status = Aggregate(shown) /\ http = HttpStatus
    BY <1>1 DEF Reported
<1>6. Working \subseteq DOMAIN results /\ Working \cap failed = {}
    BY <1>4 DEF Working
<1>7. late = DOMAIN outcomes <=> \A n \in DOMAIN results : results[n].status = "timeout"
    BY <1>2, <1>4
<1> HIDE DEF failed, late
<1>8. CASE Working # {}
    <2>1. http = "200"
        BY <1>5, <1>8 DEF HttpStatus
    <2>2. status # "all_providers_failed" /\ (status = "partial_success" <=> Working # DOMAIN results)
          /\ (Working = DOMAIN results => status \in {"success", "success_empty"})
        BY <1>5, <1>8 DEF Aggregate
    <2> QED
        BY <1>2, <1>4, <1>6, <1>8, <2>1, <2>2 DEF failed, late
<1>9. CASE Working = {}
    <2>1. /\ status = "all_providers_failed"
          /\ failed = DOMAIN outcomes
        BY <1>2, <1>4, <1>5, <1>9 DEF Aggregate
    <2>2. http = IF late = DOMAIN outcomes THEN "504" ELSE "502"
        BY <1>5, <1>7, <1>9 DEF HttpStatus
    <2> QED
        BY <1>2, <2>1, <2>2 DEF failed, late
<1> QED
    BY <1>8, <1>9

-----------------------------------------------------------------------------

\* However providers overlap, each is credited with the papers that its records
\* went into, and never with more than it sent (returned_count, fetched_count).
THEOREM CountsStay == SpecSearch => []CountsAgree
<1> QED
    BY CountsWhenDone, SearchAccounted, PTL

\* A paper in range of which all known years are in range is in every response
\* that has room for it (search(): years are compared after the union).
THEOREM NothingLost == SpecSearch => []NothingInRangeIsLost
<1> QED
    BY InRangeWhenDone, SearchAccounted, PTL

\* What an ISSN says of a paper's journal decides whether it is shown, whatever
\* its other records say (resolve_identity).
THEOREM IssnDecides == SpecSearch => []JournalByIssn
<1> QED
    BY IssnWhenDone, SearchAccounted, PTL

\* The status of a search and of its response tell how many providers failed, and
\* whether they were late (SearchResult.status, search_literature).
THEOREM StatusTrue == SpecSearch => []StatusFits
<1> QED
    BY StatusWhenDone, SearchAccounted, PTL

-----------------------------------------------------------------------------
(* What the hints change.                                                   *)

\* A record as the filters see it, if it is the only one of its paper.
RecordPasses(record) ==
    /\ InYears(request, record.meta.year)
    /\ InJournals(request, JournalOf(record.meta))
    /\ request.journals # {} => <<NormalTitle[record.title], record.abstract>> \in Acoustic

Ident(record) == <<Normalize(NormalDoi, record.doi), NormalTitle[record.title]>>

\* The records that the providers of the service know, and those that pass.
KnownRecords ==
    UNION {{known[Providers[n]][m] : m \in DOMAIN known[Providers[n]]} : n \in DOMAIN Providers}

GoodRecords == {record \in KnownRecords : RecordPasses(record)}

\* The records of the search that pass.
GoodOnes == {i \in DOMAIN papers : RecordPasses(papers[i])}

AllAnswered == \A n \in DOMAIN outcomes : outcomes[n] = "answered"

\* The records came from the catalog; all that were asked for did; and none is of the
\* paper of another one, if the catalog is so.
FromCatalog ==
    /\ \A i \in DOMAIN papers : \E m \in DOMAIN known[papers[i].provider] :
          papers[i] = known[papers[i].provider][m]
    /\ \A n \in DOMAIN results : outcomes[n] = "answered" =>
          \A m \in DOMAIN known[Providers[n]] :
              (hinted => Allows(Providers[n], known[Providers[n]][m])) =>
                  \E i \in DOMAIN papers : papers[i] = known[Providers[n]][m]
    /\ EachKnownOnce =>
          \A i, j \in DOMAIN papers : i # j => KeysOf(papers[i]) \cap KeysOf(papers[j]) = {}

\* What the first search showed, if it was not cut.
BeforeInv ==
    EachKnownOnce /\ Len(before) < request.limit =>
        /\ Identifiers(before) = {Ident(record) : record \in GoodRecords}
        /\ Cardinality(GoodRecords) < request.limit

\* The inductive invariant of both searches.
HintInv ==
    /\ SearchInv
    /\ known \in Catalogs /\ hinted \in BOOLEAN
    /\ FromCatalog
    /\ phase = "merge" => LinkedInv
    /\ phase = "done" /\ http = "200" => LinkedInv
    /\ hinted => Valid /\ AllAnswered /\ BeforeInv
    /\ hinted /\ phase = "done" => http # "422"

-----------------------------------------------------------------------------
(* Papers that one record makes.                                            *)

LEMMA OneOfOne ==
    ASSUME NEW i \in Nat, NEW v
    PROVE  First({i}) = i /\ FirstOf([k \in {i} |-> v]) = v
<1>1. First({i}) \in {i}
    BY FirstIn
<1>2. CASE v = None
    <2>1. {j \in DOMAIN [k \in {i} |-> v] : [k \in {i} |-> v][j] # None} = {}
        BY <1>2
    <2> QED
        BY <1>1, <1>2, <2>1 DEF FirstOf
<1>3. CASE v # None
    <2>1. {j \in DOMAIN [k \in {i} |-> v] : [k \in {i} |-> v][j] # None} = {i}
        BY <1>3
    <2> QED
        BY <1>1, <1>3, <2>1 DEF FirstOf
<1> QED
    BY <1>1, <1>2, <1>3

\* A paper of one record is that record, its journal resolved.
LEMMA LoneCandidate ==
    ASSUME AskedInv, NEW i \in DOMAIN papers
    PROVE  /\ Candidate({i}).records = {i}
           /\ <<Candidate({i}).doi, Candidate({i}).title>> = Ident(papers[i])
           /\ Passes(Candidate({i})) <=> RecordPasses(papers[i])
<1>1. i \in Nat /\ papers[i] \in Sent
    BY DEF AskedInv
<1>2. papers[i].meta \in Metadata /\ papers[i].abstract \in Abstract
    BY <1>1 DEF Sent
<1> DEFINE meta == papers[i].meta
           merged == Merge({i})
<1>3. First({i}) = i /\ \A v : FirstOf([j \in {i} |-> v]) = v
    BY <1>1, OneOfOne
<1>4. ASSUME NEW name
      PROVE  FirstOf(Field({i}, name)) = papers[i].meta[name]
    <2>1. Field({i}, name) = [j \in {i} |-> papers[i].meta[name]]
        BY DEF Field
    <2> QED
        BY <1>3, <2>1
<1>5. FirstOf([j \in {i} |-> DoiOf(j)]) = DoiOf(i)
    <2>1. [j \in {i} |-> DoiOf(j)] = [j \in {i} |-> DoiOf(i)]
        OBVIOUS
    <2> QED
        BY <1>3, <2>1
<1>6. LongestAbstract({i}) = papers[i].abstract
    <2>1. papers[i].abstract.length <= papers[i].abstract.length
        BY <1>2, NormalFormAssumption
    <2>2. {j \in {i} : \A k \in {i} : papers[k].abstract.length <= papers[j].abstract.length} = {i}
        BY <2>1
    <2> QED
        BY <1>3, <2>2 DEF LongestAbstract
<1>7. meta = [year |-> meta.year, issn |-> meta.issn, sourceId |-> meta.sourceId,
              journalId |-> meta.journalId, name |-> meta.name]
    BY <1>2 DEF Metadata
<1>8. /\ merged.records = {i} /\ merged.doi = DoiOf(i) /\ merged.title = TitleOf(i)
      /\ merged.abstract = papers[i].abstract /\ merged.meta = meta
    <2>1. merged.meta = [year |-> meta["year"], issn |-> meta["issn"],
                         sourceId |-> meta["sourceId"], journalId |-> meta["journalId"],
                         name |-> meta["name"]]
        BY <1>4 DEF Merge, Years
    <2> QED
        BY <1>3, <1>5, <1>6, <1>7, <2>1 DEF Merge
<1>9. /\ Candidate({i}).records = merged.records /\ Candidate({i}).doi = merged.doi
      /\ Candidate({i}).title = merged.title /\ Candidate({i}).abstract = merged.abstract
      /\ Candidate({i}).meta = WithJournal(merged.meta)
    BY DEF Candidate, Merge
<1> HIDE DEF merged, meta
<1>10. WithJournal(meta).year = meta.year /\ WithJournal(meta).journalId = JournalOf(meta)
    BY <1>7 DEF WithJournal, JournalOf, FirstKnown
<1> QED
    BY <1>8, <1>9, <1>10 DEF Ident, DoiOf, TitleOf, Passes, RecordPasses, meta

LEMMA SharingKeys ==
    ASSUME AskedInv, NEW i \in DOMAIN papers, NEW j \in DOMAIN papers, Share(i, j)
    PROVE  KeysOf(papers[i]) \cap KeysOf(papers[j]) # {}
<1>1. CASE DoiOf(i) # None /\ DoiOf(i) = DoiOf(j)
    <2>1. <<"doi", DoiOf(i)>> \in KeysOf(papers[i]) /\ <<"doi", DoiOf(i)>> \in KeysOf(papers[j])
        BY <1>1 DEF KeysOf, DoiOf
    <2> QED
        BY <2>1
<1>2. CASE ArxivOf(i) # None /\ ArxivOf(i) = ArxivOf(j)
    <2>1. /\ <<"arxiv", ArxivOf(i)>> \in KeysOf(papers[i])
          /\ <<"arxiv", ArxivOf(i)>> \in KeysOf(papers[j])
        BY <1>2 DEF KeysOf, ArxivOf
    <2> QED
        BY <2>1
<1>3. CASE SourceOf(i) = SourceOf(j)
    <2>1. /\ <<"provider", SourceOf(i)>> \in KeysOf(papers[i])
          /\ <<"provider", SourceOf(i)>> \in KeysOf(papers[j])
        BY <1>3 DEF KeysOf, SourceOf
    <2> QED
        BY <2>1
<1>4. CASE TitleOf(i) = TitleOf(j)
    <2>1. <<"title", TitleOf(i)>> \in KeysOf(papers[i]) /\ <<"title", TitleOf(i)>> \in KeysOf(papers[j])
        BY <1>4 DEF KeysOf, TitleOf
    <2> QED
        BY <2>1
<1> QED
    BY <1>1, <1>2, <1>3, <1>4 DEF Share

\* Records that share no key stay alone.
LEMMA LoneGroups ==
    ASSUME AskedInv, DedupInv, GroupsAreLinked,
           \A i, j \in DOMAIN papers : i # j => KeysOf(papers[i]) \cap KeysOf(papers[j]) = {},
           NEW i \in DOMAIN papers
    PROVE  Group(root[i]) = {i}
<1>1. root[i] \in DOMAIN papers /\ DOMAIN root = DOMAIN papers
    BY DEF DedupInv, DedupTypeOK
<1>2. i \in Group(root[i]) /\ Group(root[i]) \subseteq DOMAIN papers
    BY <1>1 DEF Group
<1>3. SUFFICES ASSUME Group(root[i]) # {i} PROVE FALSE
    OBVIOUS
<1>4. {i} \in SUBSET Group(root[i]) /\ {i} # {}
    BY <1>2
<1>5. \A S \in SUBSET Group(root[i]) :
         S # {} /\ S # Group(root[i]) =>
             \E j \in S, k \in Group(root[i]) \ S : Share(j, k)
    BY <1>1 DEF GroupsAreLinked
<1>6. PICK j \in {i}, k \in Group(root[i]) \ {i} : Share(j, k)
    BY <1>3, <1>4, <1>5
<1> QED
    BY <1>2, <1>6, SharingKeys

\* The papers that pass are then the records that do.
LEMMA LonePassing ==
    ASSUME AskedInv, DedupInv, GroupsAreLinked,
           \A i, j \in DOMAIN papers : i # j => KeysOf(papers[i]) \cap KeysOf(papers[j]) = {}
    PROVE  /\ Passing = {Candidate({i}) : i \in GoodOnes}
           /\ IsFiniteSet(GoodOnes)
           /\ Cardinality(Passing) = Cardinality(GoodOnes)
<1>1. \A i \in DOMAIN papers : Group(root[i]) = {i}
    BY LoneGroups
<1>2. Passing = {Candidate({i}) : i \in GoodOnes}
    <2>1. ASSUME NEW paper \in Passing
          PROVE  paper \in {Candidate({i}) : i \in GoodOnes}
        <3>1. PICK i \in DOMAIN papers : paper = Candidate(Group(root[i])) /\ Passes(paper)
            BY DEF Passing
        <3>2. paper = Candidate({i}) /\ i \in GoodOnes
            BY <1>1, <3>1, LoneCandidate DEF GoodOnes
        <3> QED
            BY <3>2
    <2>2. ASSUME NEW i \in GoodOnes
          PROVE  Candidate({i}) \in Passing
        <3>1. i \in DOMAIN papers /\ Passes(Candidate({i}))
            BY LoneCandidate DEF GoodOnes
        <3>2. Candidate({i}) = Candidate(Group(root[i]))
            BY <1>1, <3>1
        <3> QED
            BY <3>1, <3>2 DEF Passing
    <2> QED
        BY <2>1, <2>2
<1>3. IsFiniteSet(GoodOnes)
    <2>1. Len(papers) \in Int /\ GoodOnes \in SUBSET (1..Len(papers))
        BY DEF AskedInv, GoodOnes
    <2>2. IsFiniteSet(1..Len(papers))
        BY <2>1, FS_Interval
    <2> QED
        BY <2>1, <2>2, FS_Subset
<1> DEFINE of == [i \in GoodOnes |-> Candidate({i})]
<1>4. of \in Surjection(GoodOnes, Passing)
    BY <1>2 DEF Surjection
<1>5. of \in Injection(GoodOnes, Passing)
    <2>1. ASSUME NEW i \in GoodOnes, NEW j \in GoodOnes, of[i] = of[j] PROVE i = j
        <3>1. of[i].records = {i} /\ of[j].records = {j}
            BY LoneCandidate DEF GoodOnes
        <3> QED
            BY <2>1, <3>1
    <2>2. of \in [GoodOnes -> Passing]
        BY <1>2
    <2> HIDE DEF of
    <2> QED
        BY <2>1, <2>2 DEF Injection, IsInjective
<1>6. Cardinality(Passing) = Cardinality(GoodOnes)
    BY <1>3, <1>4, <1>5, FS_Surjection
<1> QED
    BY <1>2, <1>3, <1>6

\* What passes the filters passes the hints.
LEMMA HintsLetPass ==
    ASSUME HintInv, AllAsked, SourcesAgree, NEW n \in DOMAIN Providers,
           NEW m \in DOMAIN known[Providers[n]], RecordPasses(known[Providers[n]][m])
    PROVE  Allows(Providers[n], known[Providers[n]][m])
<1> DEFINE record == known[Providers[n]][m]
<1>1. DateHint(record.meta.year)
    BY DEF RecordPasses, InYears, DateHint
<1>2. ASSUME Providers[n] = "openalex", request.journals \cap Sourced # {}
      PROVE  record.meta.sourceId \in request.journals \cap Sourced
    <2>1. IfListed(record.meta.sourceId) = JournalOf(record.meta)
        BY <1>2 DEF SourcesAgree
    <2>2. JournalOf(record.meta) \in request.journals
        BY <1>2 DEF RecordPasses, InJournals
    <2>3. request.journals \subseteq Journal
        BY DEF AllAsked, Valid
    <2>4. record.meta.sourceId \in request.journals /\ record.meta.sourceId \in Journal
        BY <2>1, <2>2, <2>3, MetadataAssumption DEF IfListed
    <2>5. Providers[n] \in Provider
        BY SearchAssumption
    <2>6. record.meta.sourceId \in Sourced
        BY <2>4, <2>5, HintAssumption DEF HintInv
    <2> QED
        BY <2>4, <2>6
<1> QED
    BY <1>1, <1>2 DEF Allows, SourceHint

\* A search that every provider answers has the records that pass, each once.
LEMMA GoodFound ==
    ASSUME HintInv, EachKnownOnce, AllAsked, AllAnswered, hinted => SourcesAgree
    PROVE  /\ GoodRecords = {papers[i] : i \in GoodOnes}
           /\ Cardinality(GoodRecords) = Cardinality(GoodOnes)
<1>1. AskedInv /\ FromCatalog
    BY DEF HintInv, SearchInv
<1>2. ASSUME NEW i \in GoodOnes
      PROVE  papers[i] \in GoodRecords
    <2>1. i \in DOMAIN papers /\ RecordPasses(papers[i])
        BY DEF GoodOnes
    <2>2. PICK n \in Working : papers[i].provider = results[n].provider
        BY <1>1, <2>1 DEF AskedInv
    <2>3. n \in DOMAIN Providers /\ papers[i].provider = Providers[n]
        BY <1>1, <2>2, SearchAssumption DEF AskedInv, Working
    <2>4. PICK m \in DOMAIN known[Providers[n]] : papers[i] = known[Providers[n]][m]
        BY <1>1, <2>1, <2>3 DEF FromCatalog
    <2> QED
        BY <2>1, <2>3, <2>4 DEF GoodRecords, KnownRecords
<1>3. ASSUME NEW record \in GoodRecords
      PROVE  \E i \in GoodOnes : papers[i] = record
    <2>1. PICK n \in DOMAIN Providers : \E m \in DOMAIN known[Providers[n]] :
              record = known[Providers[n]][m]
        BY DEF GoodRecords, KnownRecords
    <2>2. PICK m \in DOMAIN known[Providers[n]] : record = known[Providers[n]][m]
        BY <2>1
    <2>3. RecordPasses(record)
        BY DEF GoodRecords
    <2>4. n \in DOMAIN results /\ n \in DOMAIN outcomes
        BY <1>1, SearchAssumption DEF AskedInv, AllAsked
    <2>5. outcomes[n] = "answered"
        BY <2>4 DEF AllAnswered
    <2>6. hinted => Allows(Providers[n], known[Providers[n]][m])
        BY <2>2, <2>3, HintsLetPass
    <2>7. PICK i \in DOMAIN papers : papers[i] = known[Providers[n]][m]
        BY <1>1, <2>4, <2>5, <2>6 DEF FromCatalog
    <2> QED
        BY <2>2, <2>3, <2>7 DEF GoodOnes
<1>4. GoodRecords = {papers[i] : i \in GoodOnes}
    BY <1>2, <1>3
<1> DEFINE of == [i \in GoodOnes |-> papers[i]]
<1>5. of \in Surjection(GoodOnes, GoodRecords)
    BY <1>4 DEF Surjection
<1>6. of \in Injection(GoodOnes, GoodRecords)
    <2>1. ASSUME NEW i \in GoodOnes, NEW j \in GoodOnes, papers[i] = papers[j] PROVE i = j
        <3>1. i \in DOMAIN papers /\ j \in DOMAIN papers
            BY DEF GoodOnes
        <3>2. <<"provider", FoldKey[papers[i].source]>> \in KeysOf(papers[i])
            BY DEF KeysOf
        <3>3. i # j => KeysOf(papers[i]) \cap KeysOf(papers[j]) = {}
            BY <1>1, <3>1 DEF FromCatalog
        <3> QED
            BY <2>1, <3>2, <3>3
    <2>2. of \in [GoodOnes -> GoodRecords]
        BY <1>4
    <2> QED
        BY <2>1, <2>2 DEF Injection, IsInjective
<1>7. IsFiniteSet(GoodOnes)
    <2>1. Len(papers) \in Int /\ GoodOnes \in SUBSET (1..Len(papers))
        BY <1>1 DEF AskedInv, GoodOnes
    <2>2. IsFiniteSet(1..Len(papers))
        BY <2>1, FS_Interval
    <2> QED
        BY <2>1, <2>2, FS_Subset
<1> QED
    BY <1>4, <1>5, <1>6, <1>7, FS_Surjection

\* A search that every provider answers shows what passes, unless it is cut.
LEMMA ShowsGood ==
    ASSUME HintInv, phase = "done", http = "200", AllAnswered, EachKnownOnce,
           hinted => SourcesAgree
    PROVE  /\ AllAsked
           /\ Len(shown) < request.limit <=> Cardinality(GoodRecords) < request.limit
           /\ Len(shown) < request.limit =>
                 Identifiers(shown) = {Ident(record) : record \in GoodRecords}
<1>1. SearchInv /\ AskedInv /\ Reported /\ AllAsked /\ FromCatalog /\ LinkedInv
    BY DEF HintInv, SearchInv, Reported
<1>2. Working # {}
    BY <1>1 DEF Reported, HttpStatus
<1>3. DedupInv /\ shown \in Rankings /\ GroupsAreLinked
    BY <1>1, <1>2 DEF Reported, Showable, LinkedInv
<1>4. /\ Passing = {Candidate({i}) : i \in GoodOnes}
      /\ IsFiniteSet(GoodOnes) /\ Cardinality(Passing) = Cardinality(GoodOnes)
    BY <1>1, <1>3, LonePassing DEF FromCatalog
<1>5. /\ GoodRecords = {papers[i] : i \in GoodOnes}
      /\ Cardinality(GoodRecords) = Cardinality(GoodOnes)
    BY <1>1, GoodFound
<1>6. /\ Cardinality(GoodRecords) \in Nat /\ request.limit \in Nat
      /\ Cardinality(Passing) = Cardinality(GoodRecords)
    <2>1. request.limit \in Nat
        BY <1>1, ValidLimit DEF AllAsked
    <2>2. Cardinality(GoodOnes) \in Nat
        BY <1>4, FS_CardinalityType
    <2> QED
        BY <1>4, <1>5, <2>1, <2>2
<1> DEFINE length == IF Cardinality(Passing) <= request.limit
                     THEN Cardinality(Passing) ELSE request.limit
<1>7. length \in Nat /\ shown \in [1..length -> Passing]
    BY <1>3, <1>6 DEF Rankings, Passing
<1>8. Len(shown) = length /\ DOMAIN shown = 1..length
    <2> HIDE DEF length
    <2>1. shown \in Seq(Passing)
        BY <1>7
    <2> QED
        BY <1>7, <2>1
<1>9. Len(shown) < request.limit <=> Cardinality(GoodRecords) < request.limit
    BY <1>6, <1>8
<1>10. ASSUME Len(shown) < request.limit
       PROVE  Identifiers(shown) = {Ident(record) : record \in GoodRecords}
    <2>1. ASSUME NEW k \in DOMAIN shown
          PROVE  <<shown[k].doi, shown[k].title>> \in {Ident(record) : record \in GoodRecords}
        <3>1. PICK i \in GoodOnes : shown[k] = Candidate({i})
            BY <1>4, <1>7, <1>8
        <3>2. <<shown[k].doi, shown[k].title>> = Ident(papers[i])
            BY <1>1, <3>1, LoneCandidate DEF GoodOnes
        <3> QED
            BY <1>5, <3>2
    <2>2. ASSUME NEW record \in GoodRecords
          PROVE  \E k \in DOMAIN shown : <<shown[k].doi, shown[k].title>> = Ident(record)
        <3>1. PICK i \in GoodOnes : record = papers[i]
            BY <1>5
        <3>2. Candidate({i}) \in Passing
            BY <1>4
        <3>3. PICK k \in DOMAIN shown : shown[k] = Candidate({i})
            BY <1>1, <1>2, <1>10, <3>2, NotFull DEF SearchDone
        <3> QED
            BY <1>1, <3>1, <3>3, LoneCandidate DEF GoodOnes
    <2> QED
        BY <2>1, <2>2 DEF Identifiers
<1> QED
    BY <1>1, <1>9, <1>10

-----------------------------------------------------------------------------
(* Both searches, step by step.                                             *)

\* What a provider sends is a list of different records of its own, with all that
\* it was asked for.
LEMMA SentList ==
    ASSUME known \in Catalogs, NEW provider \in Provider, NEW records \in Sends(provider)
    PROVE  /\ records \in Seq({record \in Sent : record.provider = provider})
           /\ \E place \in [DOMAIN records -> DOMAIN known[provider]] :
                 /\ \A m, n \in DOMAIN records : place[m] = place[n] => m = n
                 /\ \A m \in DOMAIN records : records[m] = known[provider][place[m]]
                 /\ \A n \in DOMAIN known[provider] :
                       (hinted => Allows(provider, known[provider][n])) =>
                           \E m \in DOMAIN records : place[m] = n
<1> DEFINE Its2 == {record \in Sent : record.provider = provider}
           wanted == {n \in DOMAIN known[provider] :
                         hinted => Allows(provider, known[provider][n])}
<1>1. known[provider] \in Seq(Its2)
    BY HintAssumption
<1>2. PICK place \in [1..Cardinality(wanted) -> wanted] :
         /\ \A n \in wanted : \E m \in DOMAIN place : place[m] = n
         /\ \A m, n \in DOMAIN place : m < n => place[m] < place[n]
         /\ records = [m \in DOMAIN place |-> known[provider][place[m]]]
    BY DEF Sends
<1>3. Cardinality(wanted) \in Nat
    <2> HIDE DEF Its2
    <2>1. Len(known[provider]) \in Int /\ wanted \in SUBSET (1..Len(known[provider]))
        BY <1>1
    <2> HIDE DEF wanted
    <2>2. IsFiniteSet(1..Len(known[provider]))
        BY <2>1, FS_Interval
    <2>3. IsFiniteSet(wanted)
        BY <2>1, <2>2, FS_Subset
    <2> QED
        BY <2>3, FS_CardinalityType
<1>4. wanted \subseteq DOMAIN known[provider] /\ wanted \subseteq Nat
    <2> HIDE DEF Its2
    <2> QED
        BY <1>1
<1>5. \A n \in DOMAIN known[provider] : known[provider][n] \in Its2
    <2> HIDE DEF Its2
    <2> QED
        BY <1>1
<1>6. \A n \in DOMAIN known[provider] :
         (hinted => Allows(provider, known[provider][n])) => n \in wanted
    OBVIOUS
<1> HIDE DEF wanted, Its2
<1>7. /\ DOMAIN records = 1..Cardinality(wanted) /\ DOMAIN place = DOMAIN records
      /\ \A m \in DOMAIN records : records[m] = known[provider][place[m]]
    BY <1>2
<1>8. records \in [1..Cardinality(wanted) -> Its2]
    BY <1>2, <1>4, <1>5
<1>9. records \in Seq(Its2)
    BY <1>3, <1>8
<1>10. \A m, n \in DOMAIN records : place[m] = place[n] => m = n
    <2>1. ASSUME NEW m \in DOMAIN records, NEW n \in DOMAIN records, place[m] = place[n]
          PROVE  m = n
        <3>1. /\ m \in 1..Cardinality(wanted) /\ n \in 1..Cardinality(wanted)
              /\ place[m] \in wanted /\ place[n] \in wanted
            BY <1>2, <1>7
        <3>2. (m < n => place[m] < place[n]) /\ (n < m => place[n] < place[m])
            BY <1>2, <1>7
        <3>3. place[m] \in Nat /\ place[n] \in Nat
            BY <1>4, <3>1
        <3>4. m \in Nat /\ n \in Nat
            BY <1>3, <3>1
        <3> QED
            BY <2>1, <3>2, <3>3, <3>4
    <2> QED
        BY <2>1
<1>11. place \in [DOMAIN records -> DOMAIN known[provider]]
    BY <1>2, <1>4, <1>7
<1> QED
    BY <1>2, <1>6, <1>7, <1>9, <1>10, <1>11 DEF Its2

LEMMA BeforeStays ==
    ASSUME BeforeInv, UNCHANGED <<request, known, before>>
    PROVE  BeforeInv'
<1>1. GoodRecords' = GoodRecords
    BY DEF GoodRecords, KnownRecords, RecordPasses, InYears, InJournals
<1>2. EachKnownOnce' = EachKnownOnce /\ Identifiers(before)' = Identifiers(before)
    BY DEF EachKnownOnce, Identifiers
<1> QED
    BY <1>1, <1>2 DEF BeforeInv

LEMMA CatalogStays ==
    ASSUME FromCatalog, UNCHANGED <<papers, outcomes, known, hinted, request>>,
           DOMAIN results' = DOMAIN results
    PROVE  FromCatalog'
<1>1. \A p, record : Allows(p, record)' = Allows(p, record)
    BY DEF Allows, DateHint, SourceHint
<1>2. EachKnownOnce' = EachKnownOnce
    BY DEF EachKnownOnce
<1> QED
    BY <1>1, <1>2 DEF FromCatalog

LEMMA RespondCatalog ==
    ASSUME FromCatalog, NEW list, Respond(list), UNCHANGED <<known, hinted>>
    PROVE  FromCatalog'
BY CatalogStays DEF Respond, dedupVars

\* More records from a provider that has sent nothing yet.
LEMMA AnswerCatalog ==
    ASSUME HintInv, NEW provider \in Provider, AnswerHinted(provider)
    PROVE  FromCatalog'
<1>1. AskedInv /\ FromCatalog /\ known \in Catalogs
    BY DEF HintInv, SearchInv
<1>2. PICK records \in Sends(provider) : Answer(provider, records)
    BY DEF AnswerHinted
<1>3. records \in Seq({record \in Sent : record.provider = provider})
    BY <1>1, SentList
<1>4. PICK place \in [DOMAIN records -> DOMAIN known[provider]] :
         /\ \A m, n \in DOMAIN records : place[m] = place[n] => m = n
         /\ \A m \in DOMAIN records : records[m] = known[provider][place[m]]
         /\ \A n \in DOMAIN known[provider] :
               (hinted => Allows(provider, known[provider][n])) =>
                   \E m \in DOMAIN records : place[m] = n
    BY <1>1, SentList
<1>5. /\ papers' = papers \o records /\ outcomes' = Append(outcomes, "answered")
      /\ UNCHANGED <<known, hinted, request>>
      /\ \E new : results' = Append(results, new)
    BY <1>2 DEF Answer, AnswerHinted
<1>6. /\ \A p, record : Allows(p, record)' = Allows(p, record)
      /\ EachKnownOnce' = EachKnownOnce
    BY <1>5 DEF Allows, DateHint, SourceHint, EachKnownOnce
<1>7. PICK old \in Nat, more \in Nat, asked \in Nat :
         /\ old = Len(papers) /\ more = Len(records) /\ asked = Len(results)
         /\ DOMAIN papers = 1..old /\ DOMAIN records = 1..more /\ DOMAIN results = 1..asked
         /\ DOMAIN outcomes = 1..asked
    BY <1>1, <1>3 DEF AskedInv
<1>8. /\ DOMAIN papers' = 1..old + more
      /\ \A i \in 1..old : papers'[i] = papers[i]
      /\ \A i \in old + 1..old + more : i - old \in 1..more /\ papers'[i] = records[i - old]
    <2>1. papers \in Seq(Sent) /\ records \in Seq(Sent)
        BY <1>1, <1>3 DEF AskedInv
    <2>2. papers' = papers \o records
        BY <1>5
    <2>3. DOMAIN papers' = 1..old + more /\ \A i \in 1..old : papers'[i] = papers[i]
        BY <1>7, <2>1, <2>2
    <2>4. ASSUME NEW i \in old + 1..old + more
          PROVE  i - old \in 1..more /\ papers'[i] = records[i - old]
        BY <1>7, <2>1, <2>2
    <2> QED
        BY <2>3, <2>4
<1>9. /\ DOMAIN results' = 1..asked + 1 /\ Providers[asked + 1] = provider
      /\ outcomes'[asked + 1] = "answered"
      /\ \A n \in 1..asked : outcomes'[n] = outcomes[n] /\ Providers[n] # provider
    <2>1. provider = Providers[asked + 1] /\ \A n \in 1..asked : Providers[n] # provider
        BY <1>1, <1>2, <1>7, NextAsked DEF Answer
    <2>2. PICK new : results' = Append(results, new)
        BY <1>5
    <2>3. Len(results) = asked /\ Len(outcomes) = asked
        BY <1>1, <1>7 DEF AskedInv
    <2>4. DOMAIN results' = 1..asked + 1
        BY <1>1, <2>2, <2>3 DEF AskedInv
    <2>5. /\ outcomes'[asked + 1] = "answered"
          /\ \A n \in 1..asked : outcomes'[n] = outcomes[n]
        BY <1>1, <1>5, <2>3 DEF AskedInv
    <2> QED
        BY <2>1, <2>4, <2>5
<1>10. \A i \in 1..old : papers[i].provider # provider /\ papers[i].provider \in Provider
    <2>1. Its(provider) = {}
        BY <1>1, <1>2, NextAsked DEF Answer
    <2>2. \A i \in 1..old : papers[i] \in Sent
        BY <1>1, <1>7 DEF AskedInv
    <2> QED
        BY <1>7, <2>1, <2>2 DEF Its, Sent
<1>11. \A n \in 1..more : records[n].provider = provider
    BY <1>3, <1>7
<1>12. ASSUME NEW i \in DOMAIN papers'
       PROVE  \E m \in DOMAIN known'[papers'[i].provider] :
                  papers'[i] = known'[papers'[i].provider][m]
    <2>1. CASE i \in 1..old
        <3>1. papers'[i] = papers[i] /\ i \in DOMAIN papers
            BY <1>7, <1>8, <2>1
        <3> QED
            BY <1>1, <1>5, <3>1 DEF FromCatalog
    <2>2. CASE i \in old + 1..old + more
        <3>1. i - old \in 1..more /\ papers'[i] = records[i - old]
            BY <1>8, <2>2
        <3>2. papers'[i].provider = provider
            BY <1>11, <3>1
        <3>3. /\ papers'[i] = known[provider][place[i - old]]
              /\ place[i - old] \in DOMAIN known[provider]
            BY <1>4, <1>7, <3>1
        <3> QED
            BY <1>5, <3>2, <3>3
    <2> QED
        BY <1>8, <2>1, <2>2
<1>13. ASSUME NEW n \in DOMAIN results', outcomes'[n] = "answered",
              NEW m \in DOMAIN known'[Providers[n]],
              hinted' => Allows(Providers[n], known[Providers[n]][m])'
       PROVE  \E i \in DOMAIN papers' : papers'[i] = known'[Providers[n]][m]
    <2>1. m \in DOMAIN known[Providers[n]] /\ known' = known
        BY <1>5, <1>13
    <2>2. hinted => Allows(Providers[n], known[Providers[n]][m])
        BY <1>5, <1>6, <1>13
    <2>3. CASE n \in 1..asked
        <3>1. outcomes[n] = "answered" /\ n \in DOMAIN results
            BY <1>7, <1>9, <1>13, <2>3
        <3>2. PICK i \in DOMAIN papers : papers[i] = known[Providers[n]][m]
            BY <1>1, <2>1, <2>2, <3>1 DEF FromCatalog
        <3>3. i \in DOMAIN papers' /\ papers'[i] = papers[i]
            BY <1>7, <1>8, <3>2
        <3> QED
            BY <2>1, <3>2, <3>3
    <2>4. CASE n = asked + 1
        <3>1. PICK k \in DOMAIN records : place[k] = m
            BY <1>4, <1>9, <2>1, <2>2, <2>4
        <3>2. records[k] = known[Providers[n]][m] /\ k \in 1..more
            BY <1>4, <1>7, <1>9, <2>4, <3>1
        <3>3. old + k \in old + 1..old + more /\ (old + k) - old = k
            BY <3>2
        <3>4. old + k \in DOMAIN papers' /\ papers'[old + k] = records[k]
            BY <1>8, <3>3
        <3> QED
            BY <2>1, <3>2, <3>4
    <2> QED
        BY <1>9, <2>3, <2>4
<1>14. ASSUME EachKnownOnce, NEW i \in DOMAIN papers', NEW j \in DOMAIN papers', i # j
       PROVE  KeysOf(papers'[i]) \cap KeysOf(papers'[j]) = {}
    <2>1. ASSUME NEW p \in Provider, NEW q \in Provider,
                 NEW m \in DOMAIN known[p], NEW n \in DOMAIN known[q], ~(p = q /\ m = n)
          PROVE  KeysOf(known[p][m]) \cap KeysOf(known[q][n]) = {}
        BY <1>14, <2>1 DEF EachKnownOnce
    <2>2. ASSUME NEW k \in 1..old, NEW l \in old + 1..old + more
          PROVE  KeysOf(papers'[k]) \cap KeysOf(papers'[l]) = {}
        <3>1. papers'[k] = papers[k] /\ k \in DOMAIN papers
            BY <1>7, <1>8
        <3>2. l - old \in 1..more /\ papers'[l] = records[l - old]
            BY <1>8
        <3>3. PICK m \in DOMAIN known[papers[k].provider] :
                 papers[k] = known[papers[k].provider][m]
            BY <1>1, <3>1 DEF FromCatalog
        <3>4. /\ records[l - old] = known[provider][place[l - old]]
              /\ place[l - old] \in DOMAIN known[provider]
            BY <1>4, <1>7, <3>2
        <3>5. papers[k].provider # provider /\ papers[k].provider \in Provider
            BY <1>10
        <3>6. KeysOf(known[papers[k].provider][m]) \cap KeysOf(known[provider][place[l - old]]) = {}
            BY <2>1, <3>4, <3>5
        <3> QED
            BY <3>1, <3>2, <3>3, <3>4, <3>6
    <2>3. CASE i \in 1..old /\ j \in 1..old
        <3>1. papers'[i] = papers[i] /\ papers'[j] = papers[j]
            BY <1>8, <2>3
        <3> QED
            BY <1>1, <1>7, <1>14, <2>3, <3>1 DEF FromCatalog
    <2>4. CASE i \in old + 1..old + more /\ j \in old + 1..old + more
        <3>1. /\ i - old \in 1..more /\ papers'[i] = records[i - old]
              /\ j - old \in 1..more /\ papers'[j] = records[j - old]
            BY <1>8, <2>4
        <3>2. i - old # j - old
            BY <1>14, <2>4
        <3>3. place[i - old] # place[j - old]
            BY <1>4, <1>7, <3>1, <3>2
        <3>4. /\ records[i - old] = known[provider][place[i - old]]
              /\ records[j - old] = known[provider][place[j - old]]
              /\ place[i - old] \in DOMAIN known[provider]
              /\ place[j - old] \in DOMAIN known[provider]
            BY <1>4, <1>7, <3>1
        <3>5. KeysOf(known[provider][place[i - old]])
                \cap KeysOf(known[provider][place[j - old]]) = {}
            BY <2>1, <3>3, <3>4
        <3>6. /\ papers'[i] = known[provider][place[i - old]]
              /\ papers'[j] = known[provider][place[j - old]]
            BY <3>1, <3>4
        <3> QED
            BY <3>5, <3>6
    <2>5. CASE i \in old + 1..old + more /\ j \in 1..old
        <3>1. KeysOf(papers'[j]) \cap KeysOf(papers'[i]) = {}
            BY <2>2, <2>5
        <3> QED
            BY <3>1
    <2>6. CASE i \in 1..old /\ j \in old + 1..old + more
        BY <2>2, <2>6
    <2>7. /\ i \in 1..old \/ i \in old + 1..old + more
          /\ j \in 1..old \/ j \in old + 1..old + more
        BY <1>8
    <2> QED
        BY <2>3, <2>4, <2>5, <2>6, <2>7
<1> QED
    BY <1>6, <1>12, <1>13, <1>14 DEF FromCatalog

LEMMA AnswerHintedStep ==
    ASSUME HintInv, NEW provider \in Provider, AnswerHinted(provider)
    PROVE  HintInv'
<1>1. SearchInv /\ AskedInv /\ known \in Catalogs
    BY DEF HintInv, SearchInv
<1>2. PICK records \in Sends(provider) : Answer(provider, records)
    BY DEF AnswerHinted
<1>3. SearchInv'
    BY <1>1, <1>2, SentList, AnswerKeeps
<1>4. phase' = "ask" /\ UNCHANGED <<request, known, hinted, before>>
    BY <1>2 DEF Answer, Asks, AnswerHinted
<1>5. AllAnswered => AllAnswered'
    <2>1. outcomes \in Seq({"answered"} \cup Error) /\ outcomes' = Append(outcomes, "answered")
        BY <1>1, <1>2 DEF AskedInv, Answer
    <2> QED
        BY <2>1 DEF AllAnswered
<1>6. FromCatalog'
    BY AnswerCatalog
<1>7. BeforeInv => BeforeInv'
    BY <1>4, BeforeStays
<1> QED
    BY <1>3, <1>4, <1>5, <1>6, <1>7 DEF HintInv, Valid

LEMMA FailUnhintedStep ==
    ASSUME HintInv, NEW provider \in Provider, NEW error \in Failures,
           FailUnhinted(provider, error)
    PROVE  HintInv'
<1>1. SearchInv /\ AskedInv /\ FromCatalog
    BY DEF HintInv, SearchInv
<1>2. /\ ~hinted /\ Raise(provider, error) /\ UNCHANGED <<known, hinted, before, papers, request>>
      /\ phase' = "ask"
    BY DEF FailUnhinted, Raise, Asks, dedupVars
<1>3. SearchInv'
    BY <1>1, <1>2, SearchStep DEF NextSearch
<1>4. FromCatalog'
    <2>1. PICK m \in Nat : m = Len(results)
        BY <1>1 DEF AskedInv
    <2>2. error # "answered"
        BY SearchAssumption DEF Error
    <2>3. /\ DOMAIN results = 1..m /\ DOMAIN results' = 1..m + 1
          /\ outcomes'[m + 1] = error /\ \A n \in 1..m : outcomes'[n] = outcomes[n]
        BY <1>1, <1>2, <2>1 DEF AskedInv, Raise
    <2>4. EachKnownOnce' = EachKnownOnce
        BY <1>2 DEF EachKnownOnce
    <2>5. \A p, record : Allows(p, record)' = Allows(p, record)
        BY <1>2 DEF Allows, DateHint, SourceHint
    <2>6. \A n \in DOMAIN results' : outcomes'[n] = "answered" =>
             n \in DOMAIN results /\ outcomes[n] = "answered"
        BY <2>1, <2>2, <2>3
    <2> QED
        BY <1>1, <1>2, <2>4, <2>5, <2>6 DEF FromCatalog
<1> QED
    BY <1>2, <1>3, <1>4 DEF HintInv

LEMMA ProceedStep ==
    ASSUME HintInv, Proceed
    PROVE  HintInv'
<1>1. SearchInv /\ AskedInv /\ FromCatalog
    BY DEF HintInv, SearchInv
<1>2. UNCHANGED <<known, hinted, before>>
    BY DEF Proceed
<1>3. SearchInv'
    BY <1>1, SearchStep DEF Proceed, NextSearch
<1>4. UNCHANGED <<request, papers, outcomes>> /\ DOMAIN results' = DOMAIN results
    <2>1. CASE Refuse
        BY <2>1 DEF Refuse, dedupVars
    <2>2. CASE Collect
        BY <2>2 DEF Collect
    <2>3. CASE Deduplicate
        BY <2>3 DEF Deduplicate, serviceVars, NextDedup, Advance, Remember, Unite, PassOver
    <2>4. CASE Rank
        BY <2>4 DEF Rank, Respond, dedupVars
    <2>5. CASE NothingWorked
        BY <2>5 DEF NothingWorked, Respond, dedupVars
    <2> QED
        BY <2>1, <2>2, <2>3, <2>4, <2>5 DEF Proceed
<1>5. FromCatalog'
    BY <1>1, <1>2, <1>4, CatalogStays
<1>6. /\ phase' = "merge" => LinkedInv'
      /\ phase' = "done" /\ http' = "200" => LinkedInv'
    <2>1. CASE Refuse
        BY <2>1 DEF Refuse
    <2>2. CASE Collect
        <3>1. phase = "ask"
            BY <2>2 DEF Collect
        <3>2. Recorded'
            BY <1>3, SentAreRecords, PTL DEF SearchInv
        <3>3. Begun'
            BY <1>1, <2>2, <3>1, <3>2 DEF SearchInv, Asking, Collect, Begun, Alone, SharedKey
        <3> QED
            BY <3>3, BeginLinked, PTL
    <2>3. CASE Deduplicate
        BY <2>3, LinkedStep DEF Deduplicate, HintInv, SearchInv
    <2>4. CASE Rank
        <3>1. phase = "merge" /\ UNCHANGED dedupVars
            BY <2>4 DEF Rank, Respond
        <3> QED
            BY <3>1, LinkedStep DEF HintInv, SearchInv
    <2>5. CASE NothingWorked
        <3>1. Working = {} /\ http' = HttpStatus
            BY <2>5 DEF NothingWorked, Respond
        <3>2. http' # "200" /\ phase' = "done"
            BY <2>5, <3>1 DEF HttpStatus, NothingWorked, Respond
        <3> QED
            BY <3>2
    <2> QED
        BY <2>1, <2>2, <2>3, <2>4, <2>5 DEF Proceed
<1>7. (Valid => Valid') /\ (AllAnswered => AllAnswered') /\ (BeforeInv => BeforeInv')
    BY <1>2, <1>4, BeforeStays DEF Valid, AllAnswered
<1>8. hinted /\ phase' = "done" => http' # "422"
    <2>1. CASE Refuse
        BY <2>1 DEF Refuse, HintInv
    <2>2. CASE Collect
        BY <2>2 DEF Collect
    <2>3. CASE Deduplicate
        BY <2>3 DEF Deduplicate, serviceVars, HintInv
    <2>4. CASE Rank \/ NothingWorked
        <3>1. http' = HttpStatus
            BY <2>4 DEF Rank, NothingWorked, Respond
        <3> QED
            BY <3>1 DEF HttpStatus
    <2> QED
        BY <2>1, <2>2, <2>3, <2>4 DEF Proceed
<1> QED
    BY <1>2, <1>3, <1>5, <1>6, <1>7, <1>8 DEF HintInv

LEMMA AgainStep ==
    ASSUME HintInv, Again
    PROVE  HintInv'
<1>1. SearchInv /\ AskedInv
    BY DEF HintInv, SearchInv
<1>2. /\ phase = "done" /\ ~hinted /\ AllAnswered /\ http = "200"
      /\ hinted' = TRUE /\ before' = shown /\ UNCHANGED <<request, known>>
      /\ phase' = "ask" /\ results' = << >> /\ outcomes' = << >> /\ papers' = << >>
    BY DEF Again, AllAnswered
<1>3. InitSearch'
    BY <1>1, <1>2 DEF Again, InitSearch, AskedInv, SharedKey
<1>4. SearchInv'
    BY <1>3, SearchBegins, PTL
<1>5. FromCatalog' /\ AllAnswered'
    BY <1>2 DEF FromCatalog, AllAnswered
<1>6. Valid'
    <2>1. Valid
        BY <1>1, <1>2 DEF SearchInv, Reported, AllAsked
    <2> QED
        BY <1>2, <2>1 DEF Valid
<1>7. BeforeInv'
    <2>1. GoodRecords' = GoodRecords /\ EachKnownOnce' = EachKnownOnce
        BY <1>2 DEF GoodRecords, KnownRecords, RecordPasses, InYears, InJournals, EachKnownOnce
    <2>2. Identifiers(before)' = Identifiers(shown)
        BY <1>2 DEF Identifiers
    <2>3. EachKnownOnce /\ Len(shown) < request.limit =>
             /\ Identifiers(shown) = {Ident(record) : record \in GoodRecords}
             /\ Cardinality(GoodRecords) < request.limit
        BY <1>2, ShowsGood
    <2> QED
        BY <1>2, <2>1, <2>2, <2>3 DEF BeforeInv
<1>8. known' \in Catalogs /\ hinted' \in BOOLEAN /\ phase' # "merge" /\ phase' # "done"
    BY <1>2 DEF HintInv
<1> QED
    BY <1>4, <1>5, <1>6, <1>7, <1>8 DEF HintInv

LEMMA HintedStep == HintInv /\ [NextHinted]_hintVars => HintInv'
<1> SUFFICES ASSUME HintInv, [NextHinted]_hintVars PROVE HintInv'
    OBVIOUS
<1>1. ASSUME NEW provider \in Provider, AnswerHinted(provider) PROVE HintInv'
    BY <1>1, AnswerHintedStep
<1>2. ASSUME NEW provider \in Provider, NEW error \in Failures, FailUnhinted(provider, error)
      PROVE  HintInv'
    BY <1>2, FailUnhintedStep
<1>3. CASE Proceed
    BY <1>3, ProceedStep
<1>4. CASE Again
    BY <1>4, AgainStep
<1>5. CASE UNCHANGED hintVars
    <2>1. UNCHANGED searchVars /\ UNCHANGED <<known, hinted, before>>
        BY <1>5 DEF hintVars
    <2>2. /\ UNCHANGED <<papers, index, todo, seen, root, dois, arxivs>>
          /\ UNCHANGED <<request, phase, results, shown, status, http, outcomes>>
        BY <2>1 DEF searchVars, serviceVars, dedupVars
    <2>3. SearchInv'
        BY <2>1, StutterStep DEF HintInv
    <2>4. FromCatalog'
        BY <2>1, <2>2, CatalogStays DEF HintInv
    <2>5. LinkedInv => LinkedInv'
        <3>1. LinkedInv => todo' \in Seq(Telling)
            BY <2>2 DEF LinkedInv
        <3> QED
            BY <2>2, <3>1, LinkedStays
    <2>6. (Valid => Valid') /\ (AllAnswered => AllAnswered') /\ (BeforeInv => BeforeInv')
        BY <2>1, <2>2, BeforeStays DEF Valid, AllAnswered
    <2> QED
        BY <2>1, <2>2, <2>3, <2>4, <2>5, <2>6 DEF HintInv
<1> QED
    BY <1>1, <1>2, <1>3, <1>4, <1>5 DEF NextHinted

LEMMA HintedBegins == InitHinted => HintInv
<1> SUFFICES ASSUME InitHinted PROVE HintInv
    OBVIOUS
<1>1. /\ SearchInv /\ phase = "ask" /\ papers = << >> /\ results = << >>
      /\ known \in Catalogs /\ hinted = FALSE
    BY SearchBegins DEF InitHinted, InitSearch
<1>2. FromCatalog
    BY <1>1 DEF FromCatalog
<1> QED
    BY <1>1, <1>2 DEF HintInv

\* With hints or without, what a search knows comes from the catalogue of each
\* provider, whole as far as it was asked for; the first search's result is kept.
THEOREM HintedAccounted == SpecHinted => []HintInv
BY HintedBegins, HintedStep, PTL DEF SpecHinted

\* What the theorems about SearchService say of one request holds of both, whatever
\* the hints keep away (SearchService.search).
THEOREM HintedSearchToo ==
    SpecHinted => [](CountsAgree /\ NothingInRangeIsLost /\ JournalByIssn /\ StatusFits)
<1>1. HintInv => CountsAgree /\ NothingInRangeIsLost /\ JournalByIssn /\ StatusFits
    BY CountsWhenDone, InRangeWhenDone, IssnWhenDone, StatusWhenDone DEF HintInv
<1> QED
    BY HintedAccounted, <1>1, PTL

\* For papers of one provider each, whose source ids agree with their other evidence,
\* the hints about years and journals neither keep away a paper that the filters would
\* let pass nor bring one that they would not (DateHint and SourceHint in the adapters,
\* the filters in SearchService.search).
THEOREM HintsSuit == SpecHinted => []HintsSuitLonePapers
<1>1. HintInv => HintsSuitLonePapers
    <2> SUFFICES ASSUME HintInv, Compared, EachKnownOnce, SourcesAgree,
                        Len(before) < request.limit
                 PROVE  Identifiers(shown) = Identifiers(before)
        BY DEF HintsSuitLonePapers
    <2>1. /\ phase = "done" /\ hinted /\ Valid /\ AllAnswered /\ AskedInv
          /\ Identifiers(before) = {Ident(record) : record \in GoodRecords}
          /\ Cardinality(GoodRecords) < request.limit
        BY DEF Compared, HintInv, BeforeInv, SearchInv
    <2>2. http = "200"
        <3>1. Reported
            BY <2>1 DEF HintInv, SearchInv
        <3>2. Working # {}
            BY <2>1, <3>1, SearchAssumption DEF AskedInv, Reported, AllAsked, Working, AllAnswered
        <3> QED
            BY <3>1, <3>2 DEF Reported, HttpStatus
    <2>3. /\ Len(shown) < request.limit <=> Cardinality(GoodRecords) < request.limit
          /\ Len(shown) < request.limit =>
                Identifiers(shown) = {Ident(record) : record \in GoodRecords}
        BY <2>1, <2>2, ShowsGood
    <2> QED
        BY <2>1, <2>3
<1> QED
    BY HintedAccounted, <1>1, PTL
=============================================================================
