----------------------------- MODULE Deduplication -----------------------------
(***************************************************************************)
(* Duplicates among the records of one search                              *)
(* (src/litwatch/search/deduplication.py): a union-find over the records,  *)
(* driven by the identity keys they share.                                 *)
(*                                                                         *)
(* Of the union-find structure only the answer of root(index) is kept:     *)
(* root[i] is the record that stands for the group of record i.  The       *)
(* parents between the two, and how root() shortens them, are abstracted.  *)
(***************************************************************************)
EXTENDS PaperIdentity, FiniteSets

CONSTANTS
    Candidates, \* the lists of records that may have to be deduplicated
    NoTitle     \* normalized_title of a title without a word character: ""

ASSUME CandidatesAssumption == Candidates \subseteq Seq(RawPaper)

VARIABLES
    papers,  \* the list of records
    index,   \* the record being looked at, 0 before the first
    todo,    \* the identity keys of that record still to be looked at
    seen,    \* key -> the first record that had it, 0 if none
    root,    \* record -> the record that stands for its group
    dois,    \* the DOIs of a group, at its root
    arxivs   \* the arXiv ids of a group, at its root

dedupVars == <<papers, index, todo, seen, root, dois, arxivs>>

SharedKey == Key \cup ({"title"} \X Title)

-----------------------------------------------------------------------------

DoiOf(i) == Normalize(NormalDoi, papers[i].doi)
ArxivOf(i) == Normalize(NormalArxiv, papers[i].arxiv)
SourceOf(i) == FoldKey[papers[i].source]
TitleOf(i) == NormalTitle[papers[i].title]

\* Faulty variant of IdentityKeys: titles without a word character match, too.
IdentityKeysOfAnyTitle(i) ==
    StrongKey("doi", DoiOf(i)) \o StrongKey("arxiv", ArxivOf(i))
      \o <<<<"provider", SourceOf(i)>>, <<"title", TitleOf(i)>>>>

\* _identity_keys: from the strongest key to the weakest.
IdentityKeys(i) ==
    StrongKey("doi", DoiOf(i)) \o StrongKey("arxiv", ArxivOf(i))
      \o <<<<"provider", SourceOf(i)>>>>
      \o StrongKey("title", IF TitleOf(i) = NoTitle THEN None ELSE TitleOf(i))

Singleton(v) == {v} \ {None}

Conflict(S, T) == S # {} /\ T # {} /\ S # T

\* Faulty variant of Apart: arXiv ids are not compared.
ApartByDoi(g, h, kind) == kind # "doi" /\ Conflict(dois[g], dois[h])

\* Two groups, by their roots, that a key of this kind must not unite.
Apart(g, h, kind) ==
    /\ kind # "doi"
    /\ \/ Conflict(dois[g], dois[h])
       \/ kind \in {"provider", "title"} /\ Conflict(arxivs[g], arxivs[h])

\* The union-find structure before the first record is looked at.
Alone(list) ==
    [root   |-> [i \in DOMAIN list |-> i],
     dois   |-> [i \in DOMAIN list |-> Singleton(Normalize(NormalDoi, list[i].doi))],
     arxivs |-> [i \in DOMAIN list |-> Singleton(Normalize(NormalArxiv, list[i].arxiv))]]

InitDedup ==
    /\ papers \in Candidates
    /\ index = 0
    /\ todo = << >>
    /\ seen = [key \in SharedKey |-> 0]
    /\ root = Alone(papers).root
    /\ dois = Alone(papers).dois
    /\ arxivs = Alone(papers).arxivs

\* for index, paper in enumerate(papers)
Advance ==
    /\ todo = << >>
    /\ index < Len(papers)
    /\ index' = index + 1
    /\ todo' = IdentityKeys(index + 1)
    /\ UNCHANGED <<papers, seen, root, dois, arxivs>>

\* for key in _identity_keys(paper): the first record with this key.
Remember ==
    /\ todo # << >>
    /\ seen[Head(todo)] = 0
    /\ seen' = [seen EXCEPT ![Head(todo)] = index]
    /\ todo' = Tail(todo)
    /\ UNCHANGED <<papers, index, root, dois, arxivs>>

\* The key leads to an earlier record: root(index) and root(seen[key]).
Meets(current, previous) ==
    /\ todo # << >>
    /\ seen[Head(todo)] # 0
    /\ current = root[index]
    /\ previous = root[seen[Head(todo)]]

\* Faulty variant of Union: only the record moves, not the group it is in.
UnionOfRecord(current, previous) ==
    /\ root' = [root EXCEPT ![index] = previous]
    /\ dois' = [dois EXCEPT ![previous] = @ \cup dois[current]]
    /\ arxivs' = [arxivs EXCEPT ![previous] = @ \cup arxivs[current]]

\* Faulty variant of Union: the identifiers of the group that joins are lost.
UnionForgets(current, previous) ==
    /\ root' = [i \in DOMAIN root |-> IF root[i] = current THEN previous ELSE root[i]]
    /\ UNCHANGED <<dois, arxivs>>

\* The whole group of current gets the root previous, which learns its ids.
Union(current, previous) ==
    /\ root' = [i \in DOMAIN root |-> IF root[i] = current THEN previous ELSE root[i]]
    /\ dois' = [dois EXCEPT ![previous] = @ \cup dois[current]]
    /\ arxivs' = [arxivs EXCEPT ![previous] = @ \cup arxivs[current]]

Unite ==
    \E current, previous \in DOMAIN root :
        /\ Meets(current, previous)
        /\ current # previous
        /\ ~Apart(current, previous, Head(todo)[1])
        /\ Union(current, previous)
        /\ todo' = Tail(todo)
        /\ UNCHANGED <<papers, index, seen>>

\* Faulty variant of PassOver: the loop stays at the key.
PassOverStays ==
    \E current, previous \in DOMAIN root :
        /\ Meets(current, previous)
        /\ current = previous \/ Apart(current, previous, Head(todo)[1])
        /\ UNCHANGED dedupVars

\* Already one group, or two that must stay apart: continue.  seen still leads
\* to the first record that had the key.
PassOver ==
    \E current, previous \in DOMAIN root :
        /\ Meets(current, previous)
        /\ current = previous \/ Apart(current, previous, Head(todo)[1])
        /\ todo' = Tail(todo)
        /\ UNCHANGED <<papers, index, seen, root, dois, arxivs>>

NextDedup == Advance \/ Remember \/ Unite \/ PassOver

SpecDedup == InitDedup /\ [][NextDedup]_dedupVars

\* Every record and every key has been looked at: the groups are final.
Finished == index = Len(papers) /\ todo = << >>

\* The records of a group, by its root.
Group(r) == {i \in DOMAIN root : root[i] = r}

-----------------------------------------------------------------------------
(* What must hold.                                                          *)

\* Types, and: a root stands for itself, a seen key points to a record that has
\* been looked at.
DedupTypeOK ==
    /\ index \in 0..Len(papers)
    /\ todo \in Seq(SharedKey)
    /\ seen \in [SharedKey -> 0..index]
    /\ root \in [DOMAIN papers -> DOMAIN papers]
    /\ \A i \in DOMAIN papers : root[root[i]] = root[i]
    /\ dois \in [DOMAIN papers -> SUBSET Doi]
    /\ arxivs \in [DOMAIN papers -> SUBSET ArxivId]

\* A group never holds records of two DOIs, over whatever chain of weaker keys
\* they are linked ("Conflicting DOI records must never merge solely by title",
\* the design document).  _merge keeps one DOI of a group: a second one would be
\* lost, and with it a paper.
NoConflictingDois ==
    \A i, j \in DOMAIN papers :
        root[i] = root[j] => ~Differ(DoiOf(i), DoiOf(j))

\* Records with two arXiv ids are in one group only if a DOI vouches for it: two
\* records of the group carry the same one.
ArxivsMeetUnderOneDoi ==
    \A i, j \in DOMAIN papers :
        root[i] = root[j] /\ Differ(ArxivOf(i), ArxivOf(j)) =>
            \E k, l \in Group(root[i]) : k # l /\ DoiOf(k) # None /\ DoiOf(k) = DoiOf(l)

\* The records all of whose keys have been looked at.
Looked == {i \in DOMAIN papers : i < index \/ (i = index /\ todo = << >>)}

\* A strong identifier is in one group only, in whatever order the records came:
\* a DOI always; an arXiv id unless the groups hold different DOIs.
StrongIdsTogether ==
    \A i, j \in Looked :
        root[i] # root[j] =>
            /\ DoiOf(i) = None \/ DoiOf(i) # DoiOf(j)
            /\ \/ ArxivOf(i) = None \/ ArxivOf(i) # ArxivOf(j)
               \/ Conflict(dois[root[i]], dois[root[j]])

\* Two records that the code may take for the same paper.
Share(i, j) ==
    \/ DoiOf(i) # None /\ DoiOf(i) = DoiOf(j)
    \/ ArxivOf(i) # None /\ ArxivOf(i) = ArxivOf(j)
    \/ SourceOf(i) = SourceOf(j)
    \/ TitleOf(i) # NoTitle /\ TitleOf(i) = TitleOf(j)

\* Nothing is united without a reason: however a group is cut in two, a key is
\* shared across the cut.  A title without a word character is no reason.
GroupsAreLinked ==
    \A i \in DOMAIN papers :
        \A S \in SUBSET Group(i) :
            S # {} /\ S # Group(i) => \E j \in S, k \in Group(i) \ S : Share(j, k)

\* "Union identities transitively, using titles only if stronger IDs do not
\* conflict." (deduplication.py:68): in the end, two groups that share a key of
\* some kind are kept apart by their identifiers.
NoDuplicateGroups ==
    Finished =>
        \A i, j \in DOMAIN papers :
            root[i] # root[j] /\ TitleOf(i) # NoTitle /\ TitleOf(i) = TitleOf(j) =>
                Apart(root[i], root[j], "title")
=============================================================================
