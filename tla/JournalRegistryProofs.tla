------------------------- MODULE JournalRegistryProofs -------------------------
(***************************************************************************)
(* Proofs about JournalRegistry, for any definitions, defined in any order.*)
(***************************************************************************)
EXTENDS JournalRegistry, SequenceTheorems, WellFoundedInduction, TLAPS

\* What leads to a definition, by index.
RequestKeys == [d \in Definitions |-> RequestNames(d)]
NameKeys == [d \in Definitions |-> ElementsOf(IdentityNames(d))]
IssnKeys == [d \in Definitions |-> d.issns]
SourceKeys == [d \in Definitions |-> d.sources]
IdKeys == [d \in Definitions |-> {d.id}]

\* An index knows the keys of the definitions in S and no others, and leads to the id
\* of a definition that has the key.
Exact(map, S, keys) ==
    \A k \in DOMAIN map :
        \/ map[k] = None /\ \A d \in S : k \notin keys[d]
        \/ map[k] # None /\ \E d \in S : k \in keys[d] /\ map[k] = d.id

\* The indexes are those of the definitions so far.
IndexInv ==
    /\ defined \in Seq(Definitions)
    /\ DOMAIN byRequest = Name /\ Exact(byRequest, ElementsOf(defined), RequestKeys)
    /\ DOMAIN byName = Name /\ Exact(byName, ElementsOf(defined), NameKeys)
    /\ DOMAIN byIssn = Issn /\ Exact(byIssn, ElementsOf(defined), IssnKeys)
    /\ DOMAIN bySource = SourceId /\ Exact(bySource, ElementsOf(defined), SourceKeys)
    /\ DOMAIN byId = JournalId /\ Exact(byId, ElementsOf(defined), IdKeys)

\* The answer is to the question, and by the indexes as they are.
AnswerInv ==
    /\ Asked("request") => asked.of \in Journals /\ answer = ResolveRequested(asked.of)
    /\ Asked("record") => asked.of \in Evidence /\ answer = ResolveIdentity(asked.of)
    /\ Asked("citation") => asked.of \in Citations /\ answer = ResolveReference(asked.of)

\* The inductive invariant.
RegistryInv == IndexInv /\ AnswerInv

-----------------------------------------------------------------------------
(* The indexes.                                                             *)

\* One more definition (the loop of the constructor) keeps an index exact.
LEMMA IndexedExact ==
    ASSUME NEW map, NEW S, NEW keys, NEW d, d.id # None, Exact(map, S, keys)
    PROVE  /\ DOMAIN Indexed(map, keys[d], d.id) = DOMAIN map
           /\ Exact(Indexed(map, keys[d], d.id), S \cup {d}, keys)
BY DEF Indexed, Exact

LEMMA EmptyExact ==
    ASSUME NEW K, NEW keys
    PROVE  Exact([k \in K |-> None], {}, keys)
BY DEF Exact

LEMMA OneMore ==
    ASSUME NEW S, NEW s \in Seq(S), NEW d
    PROVE  ElementsOf(Append(s, d)) = ElementsOf(s) \cup {d}
<1>1. DOMAIN s = 1..Len(s) /\ Len(s) \in Nat
    OBVIOUS
<1>2. DOMAIN Append(s, d) = 1..Len(s) + 1
    BY <1>1
<1>3. \A n \in 1..Len(s) : Append(s, d)[n] = s[n]
    BY <1>1
<1>4. Append(s, d)[Len(s) + 1] = d
    BY <1>1
<1> QED
    BY <1>1, <1>2, <1>3, <1>4 DEF ElementsOf

LEMMA RegistryInit == InitRegistry => RegistryInv
<1> SUFFICES ASSUME InitRegistry PROVE RegistryInv
    OBVIOUS
<1>1. ElementsOf(defined) = {} /\ defined \in Seq(Definitions)
    BY DEF InitRegistry, ElementsOf
<1>2. IndexInv
    BY <1>1, EmptyExact DEF InitRegistry, IndexInv
<1>3. AnswerInv
    BY DEF InitRegistry, AnswerInv, Asked
<1> QED
    BY <1>2, <1>3 DEF RegistryInv

LEMMA DefineStep ==
    ASSUME IndexInv, NEW d \in Definitions, Define(d)
    PROVE  RegistryInv'
<1>1. d.id # None
    BY RegistryAssumption DEF Definition
<1>2. defined' \in Seq(Definitions) /\ ElementsOf(defined') = ElementsOf(defined) \cup {d}
    BY OneMore DEF Define, IndexInv
<1>3. DOMAIN byRequest' = Name /\ Exact(byRequest', ElementsOf(defined) \cup {d}, RequestKeys)
    <2>1. byRequest' = Indexed(byRequest, RequestKeys[d], d.id)
        BY DEF Define, RequestKeys
    <2>2. DOMAIN byRequest = Name /\ Exact(byRequest, ElementsOf(defined), RequestKeys)
        BY DEF IndexInv
    <2>3. /\ DOMAIN Indexed(byRequest, RequestKeys[d], d.id) = Name
          /\ Exact(Indexed(byRequest, RequestKeys[d], d.id), ElementsOf(defined) \cup {d}, RequestKeys)
        BY <1>1, <2>2, IndexedExact
    <2> QED
        BY <2>1, <2>3
<1>4. DOMAIN byName' = Name /\ Exact(byName', ElementsOf(defined) \cup {d}, NameKeys)
    <2>1. byName' = Indexed(byName, NameKeys[d], d.id)
        BY DEF Define, NameKeys
    <2>2. DOMAIN byName = Name /\ Exact(byName, ElementsOf(defined), NameKeys)
        BY DEF IndexInv
    <2>3. /\ DOMAIN Indexed(byName, NameKeys[d], d.id) = Name
          /\ Exact(Indexed(byName, NameKeys[d], d.id), ElementsOf(defined) \cup {d}, NameKeys)
        BY <1>1, <2>2, IndexedExact
    <2> QED
        BY <2>1, <2>3
<1>5. DOMAIN byIssn' = Issn /\ Exact(byIssn', ElementsOf(defined) \cup {d}, IssnKeys)
    <2>1. byIssn' = Indexed(byIssn, IssnKeys[d], d.id)
        BY DEF Define, IssnKeys
    <2>2. DOMAIN byIssn = Issn /\ Exact(byIssn, ElementsOf(defined), IssnKeys)
        BY DEF IndexInv
    <2>3. /\ DOMAIN Indexed(byIssn, IssnKeys[d], d.id) = Issn
          /\ Exact(Indexed(byIssn, IssnKeys[d], d.id), ElementsOf(defined) \cup {d}, IssnKeys)
        BY <1>1, <2>2, IndexedExact
    <2> QED
        BY <2>1, <2>3
<1>6. DOMAIN bySource' = SourceId /\ Exact(bySource', ElementsOf(defined) \cup {d}, SourceKeys)
    <2>1. bySource' = Indexed(bySource, SourceKeys[d], d.id)
        BY DEF Define, SourceKeys
    <2>2. DOMAIN bySource = SourceId /\ Exact(bySource, ElementsOf(defined), SourceKeys)
        BY DEF IndexInv
    <2>3. /\ DOMAIN Indexed(bySource, SourceKeys[d], d.id) = SourceId
          /\ Exact(Indexed(bySource, SourceKeys[d], d.id), ElementsOf(defined) \cup {d}, SourceKeys)
        BY <1>1, <2>2, IndexedExact
    <2> QED
        BY <2>1, <2>3
<1>7. DOMAIN byId' = JournalId /\ Exact(byId', ElementsOf(defined) \cup {d}, IdKeys)
    <2>1. byId' = Indexed(byId, IdKeys[d], d.id)
        BY DEF Define, IdKeys
    <2>2. DOMAIN byId = JournalId /\ Exact(byId, ElementsOf(defined), IdKeys)
        BY DEF IndexInv
    <2>3. /\ DOMAIN Indexed(byId, IdKeys[d], d.id) = JournalId
          /\ Exact(Indexed(byId, IdKeys[d], d.id), ElementsOf(defined) \cup {d}, IdKeys)
        BY <1>1, <2>2, IndexedExact
    <2> QED
        BY <2>1, <2>3
<1>8. IndexInv'
    BY <1>2, <1>3, <1>4, <1>5, <1>6, <1>7 DEF IndexInv
<1>9. AnswerInv'
    BY DEF Define, AnswerInv, Asked
<1> QED
    BY <1>8, <1>9 DEF RegistryInv

LEMMA AnswerStep ==
    ASSUME IndexInv,
           \/ \E name \in Journals : Request(name)
           \/ \E e \in Evidence : Identify(e)
           \/ \E citation \in Citations : Cite(citation)
    PROVE  RegistryInv'
<1>1. IndexInv' /\ UNCHANGED <<defined, indexes>>
    BY DEF IndexInv, Request, Identify, Cite, Answer, indexes
<1>2. CASE \E name \in Journals : Request(name)
    <2>1. PICK name \in Journals : Request(name)
        BY <1>2
    <2>2. asked' = [kind |-> "request", of |-> name] /\ answer' = byRequest[name]
        BY <2>1 DEF Request, Answer, ResolveRequested
    <2>3. AnswerInv'
        BY <1>1, <2>2 DEF AnswerInv, Asked, ResolveRequested, indexes
    <2> QED
        BY <1>1, <2>3 DEF RegistryInv
<1>3. CASE \E e \in Evidence : Identify(e)
    <2>1. PICK e \in Evidence : Identify(e)
        BY <1>3
    <2>2. asked' = [kind |-> "record", of |-> e] /\ answer' = ResolveIdentity(e)
        BY <2>1 DEF Identify, Answer
    <2>3. ResolveIdentity(asked.of)' = ResolveIdentity(e)
        BY <1>1, <2>2 DEF ResolveIdentity, IssnJournal, indexes
    <2>4. AnswerInv'
        BY <2>2, <2>3 DEF AnswerInv, Asked
    <2> QED
        BY <1>1, <2>4 DEF RegistryInv
<1>4. CASE \E citation \in Citations : Cite(citation)
    <2>1. PICK citation \in Citations : Cite(citation)
        BY <1>4
    <2>2. asked' = [kind |-> "citation", of |-> citation] /\ answer' = ResolveReference(citation)
        BY <2>1 DEF Cite, Answer
    <2>3. ResolveReference(asked.of)' = ResolveReference(citation)
        BY <1>1, <2>2 DEF ResolveReference
    <2>4. AnswerInv'
        BY <2>2, <2>3 DEF AnswerInv, Asked
    <2> QED
        BY <1>1, <2>4 DEF RegistryInv
<1> QED
    BY <1>2, <1>3, <1>4

\* Whatever is defined and asked, in any order, the indexes lead from every key of a
\* journal that is defined to a journal that has the key, and from no other key
\* anywhere; an answer given is the one the indexes still give.
THEOREM RegistryIndexed == SpecRegistry => []RegistryInv
<1>1. InitRegistry => RegistryInv
    BY RegistryInit
<1>2. RegistryInv /\ [NextRegistry]_registryVars => RegistryInv'
    <2> SUFFICES ASSUME RegistryInv, [NextRegistry]_registryVars PROVE RegistryInv'
        OBVIOUS
    <2>1. CASE \E d \in Definitions : Define(d)
        BY <2>1, DefineStep DEF RegistryInv
    <2>2. CASE \/ \E name \in Journals : Request(name)
               \/ \E e \in Evidence : Identify(e)
               \/ \E citation \in Citations : Cite(citation)
        BY <2>2, AnswerStep DEF RegistryInv
    <2>3. CASE UNCHANGED registryVars
        <3>1. IndexInv'
            BY <2>3 DEF RegistryInv, IndexInv, registryVars, indexes
        <3>2. AnswerInv'
            BY <2>3 DEF RegistryInv, AnswerInv, Asked, registryVars, indexes,
                        ResolveRequested, ResolveIdentity, IssnJournal, ResolveReference
        <3> QED
            BY <3>1, <3>2 DEF RegistryInv
    <2> QED
        BY <2>1, <2>2, <2>3 DEF NextRegistry
<1> QED
    BY <1>1, <1>2, PTL DEF SpecRegistry

-----------------------------------------------------------------------------
(* Requests and records.                                                    *)

LEMMA DefinedOnes ==
    ASSUME IndexInv
    PROVE  /\ ElementsOf(defined) \subseteq Definitions
           /\ \A n \in DOMAIN defined : defined[n] \in ElementsOf(defined)
           /\ DOMAIN defined \in SUBSET Nat
<1>1. defined \in Seq(Definitions)
    BY DEF IndexInv
<1> QED
    BY <1>1 DEF ElementsOf

LEMMA RequestFound == NamesApart /\ RegistryInv => RequestMeansItsJournal
<1> SUFFICES ASSUME NamesApart, RegistryInv, NEW d \in ElementsOf(defined), Asked("request"),
                    asked.of \in ElementsOf(d.names) \cup d.aliases
             PROVE  answer = d.id
    BY DEF RequestMeansItsJournal
<1>1. ElementsOf(defined) \subseteq Definitions
    BY DefinedOnes DEF RegistryInv
<1>2. asked.of \in RequestNames(d) /\ asked.of \in RequestKeys[d]
    BY <1>1 DEF RequestNames, RequestKeys
<1>3. asked.of \in Name
    <2>1. d.names \in Seq(Name) /\ d.aliases \in SUBSET Name
        BY <1>1, RegistryAssumption DEF Definition
    <2> QED
        BY <2>1 DEF ElementsOf
<1>4. /\ answer = byRequest[asked.of]
      /\ DOMAIN byRequest = Name /\ Exact(byRequest, ElementsOf(defined), RequestKeys)
    BY DEF RegistryInv, IndexInv, AnswerInv, ResolveRequested
<1>5. PICK e \in ElementsOf(defined) : asked.of \in RequestKeys[e] /\ answer = e.id
    BY <1>2, <1>3, <1>4 DEF Exact
<1>6. asked.of \in RequestNames(e)
    BY <1>1, <1>5 DEF RequestKeys
<1>7. e = d
    BY <1>1, <1>2, <1>6 DEF NamesApart, RequestNames
<1> QED
    BY <1>5, <1>7

LEMMA FirstOfSome ==
    ASSUME NEW S \in SUBSET Nat, S # {}
    PROVE  \E n \in S : n = CHOOSE i \in S : \A m \in S : i <= m
<1> DEFINE less == OpToRel(<, Nat)
<1>1. less = {pair \in Nat \X Nat : pair[1] < pair[2]}
    BY DEF OpToRel
<1>2. IsWellFoundedOn(less, Nat)
    BY NatLessThanWellFounded
<1> HIDE DEF less
<1>3. PICK i \in S : \A m \in S : ~(<<m, i>> \in less)
    BY <1>2, WFMin
<1>4. ASSUME NEW m \in S PROVE i <= m
    <2>1. i \in Nat /\ m \in Nat
        OBVIOUS
    <2>2. m < i => <<m, i>> \in less
        BY <1>1, <2>1
    <2> QED
        BY <1>3, <2>1, <2>2
<1> QED
    BY <1>4

\* What an index says of a key: a journal of those that have it, if there is one.
LEMMA Lookup ==
    ASSUME NEW map, NEW S, NEW keys, Exact(map, S, keys), NEW k, None \notin DOMAIN map,
           \A d \in S : keys[d] \subseteq DOMAIN map, k \in DOMAIN map \cup {None}
    PROVE  LET found == {d.id : d \in {x \in S : k \in keys[x]}}
           IN  /\ found # {} => Of(map, k) \in found /\ Of(map, k) # None
               /\ found = {} => Of(map, k) = None
<1>1. CASE k = None
    BY <1>1 DEF Of
<1>2. CASE k # None
    <2>1. k \in DOMAIN map /\ Of(map, k) = map[k]
        BY <1>2 DEF Of
    <2>2. CASE map[k] = None /\ \A d \in S : k \notin keys[d]
        BY <2>1, <2>2
    <2>3. CASE map[k] # None /\ \E d \in S : k \in keys[d] /\ map[k] = d.id
        BY <2>1, <2>3
    <2> QED
        BY <2>1, <2>2, <2>3 DEF Exact
<1> QED
    BY <1>1, <1>2

LEMMA IssnLookup ==
    ASSUME IndexInv, NEW issns \in Seq(Issn)
    PROVE  LET found == {d.id : d \in {x \in ElementsOf(defined) :
                                          \E n \in DOMAIN issns : issns[n] \in x.issns}}
           IN  /\ found # {} => IssnJournal(issns) \in found /\ IssnJournal(issns) # None
               /\ found = {} => IssnJournal(issns) = None
<1> DEFINE found == {d.id : d \in {x \in ElementsOf(defined) :
                                      \E n \in DOMAIN issns : issns[n] \in x.issns}}
           listed == {n \in DOMAIN issns : byIssn[issns[n]] # None}
<1>1. /\ ElementsOf(defined) \subseteq Definitions
      /\ \A d \in Definitions : IssnKeys[d] = d.issns
    BY DefinedOnes DEF IssnKeys
<1>2. \A n \in DOMAIN issns :
        \/ byIssn[issns[n]] = None /\ \A d \in ElementsOf(defined) : issns[n] \notin d.issns
        \/ /\ byIssn[issns[n]] # None
           /\ \E d \in ElementsOf(defined) : issns[n] \in d.issns /\ byIssn[issns[n]] = d.id
    <2>1. \A n \in DOMAIN issns : issns[n] \in DOMAIN byIssn
        BY DEF IndexInv
    <2> QED
        BY <1>1, <2>1 DEF IndexInv, Exact
<1>3. CASE listed = {}
    <2>1. IssnJournal(issns) = None
        BY <1>3 DEF IssnJournal
    <2>2. found = {}
        BY <1>2, <1>3
    <2> QED
        BY <2>1, <2>2
<1>4. CASE listed # {}
    <2>1. listed \in SUBSET Nat
        OBVIOUS
    <2>2. PICK n \in listed : n = CHOOSE i \in listed : \A m \in listed : i <= m
        BY <1>4, <2>1, FirstOfSome
    <2>3. IssnJournal(issns) = byIssn[issns[n]]
        BY <1>4, <2>2 DEF IssnJournal
    <2>4. IssnJournal(issns) \in found /\ IssnJournal(issns) # None
        BY <1>2, <2>2, <2>3
    <2> QED
        BY <2>4
<1> QED
    BY <1>3, <1>4

LEMMA NamesOfBoth ==
    ASSUME NEW s \in Seq(Name), NEW t \in Seq(Name)
    PROVE  ElementsOf(s \o t) \subseteq Name
<1>1. s \o t \in Seq(Name)
    OBVIOUS
<1> HIDE DEF ElementsOf
<1>2. \A n \in DOMAIN (s \o t) : (s \o t)[n] \in Name
    BY <1>1
<1> QED
    BY <1>2 DEF ElementsOf

LEMMA EvidenceFound == RegistryInv => StrongestEvidenceDecides
<1> SUFFICES ASSUME RegistryInv, Asked("record") PROVE StrongestEvidenceDecides
    BY DEF StrongestEvidenceDecides
<1>1. PICK e \in Evidence : e = asked.of /\ answer = ResolveIdentity(e)
    BY DEF RegistryInv, AnswerInv
<1> DEFINE all == ElementsOf(defined)
           byIssns == {d.id : d \in {x \in all : \E n \in DOMAIN e.issns : e.issns[n] \in x.issns}}
           bySources == {d.id : d \in {x \in all : e.source \in x.sources}}
           byIds == {d.id : d \in {x \in all : e.id = x.id}}
           byNames == {d.id : d \in {x \in all : e.name \in ElementsOf(x.names \o x.spellings)}}
<1>2. IndexInv /\ all \subseteq Definitions
    BY DefinedOnes DEF RegistryInv
<1>3. /\ e.issns \in Seq(Issn) /\ e.source \in Maybe(SourceId) /\ e.id \in Maybe(JournalId)
      /\ e.name \in Maybe(Name)
      /\ None \notin JournalId /\ None \notin SourceId /\ None \notin Name
    BY RegistryAssumption
<1>4. \A d \in all : /\ d.id \in JournalId /\ d.sources \subseteq SourceId
                     /\ d.names \in Seq(Name) /\ d.spellings \in Seq(Name)
    BY <1>2, RegistryAssumption DEF Definition
<1>5. /\ byIssns # {} => IssnJournal(e.issns) \in byIssns /\ IssnJournal(e.issns) # None
      /\ byIssns = {} => IssnJournal(e.issns) = None
    BY <1>2, <1>3, IssnLookup
<1>6. /\ bySources # {} => Of(bySource, e.source) \in bySources /\ Of(bySource, e.source) # None
      /\ bySources = {} => Of(bySource, e.source) = None
    <2>1. \A d \in all : SourceKeys[d] = d.sources
        BY <1>2 DEF SourceKeys
    <2>2. bySources = {d.id : d \in {x \in all : e.source \in SourceKeys[x]}}
        BY <2>1
    <2>3. /\ DOMAIN bySource = SourceId /\ Exact(bySource, all, SourceKeys)
          /\ e.source \in SourceId \cup {None}
        BY <1>2, <1>3 DEF IndexInv, Maybe
    <2>4. \A d \in all : SourceKeys[d] \subseteq DOMAIN bySource
        BY <1>4, <2>1, <2>3
    <2> HIDE DEF all, bySources
    <2> QED
        BY <1>3, <2>2, <2>3, <2>4, Lookup
<1>7. /\ byIds # {} => Of(byId, e.id) \in byIds /\ Of(byId, e.id) # None
      /\ byIds = {} => Of(byId, e.id) = None
    <2>1. \A d \in all : IdKeys[d] = {d.id}
        BY <1>2 DEF IdKeys
    <2>2. byIds = {d.id : d \in {x \in all : e.id \in IdKeys[x]}}
        BY <2>1
    <2>3. /\ DOMAIN byId = JournalId /\ Exact(byId, all, IdKeys)
          /\ e.id \in JournalId \cup {None}
        BY <1>2, <1>3 DEF IndexInv, Maybe
    <2>4. \A d \in all : IdKeys[d] \subseteq DOMAIN byId
        BY <1>4, <2>1, <2>3
    <2> HIDE DEF all, byIds
    <2> QED
        BY <1>3, <2>2, <2>3, <2>4, Lookup
<1>8. /\ byNames # {} => Of(byName, e.name) \in byNames /\ Of(byName, e.name) # None
      /\ byNames = {} => Of(byName, e.name) = None
    <2>1. \A d \in all : NameKeys[d] = ElementsOf(d.names \o d.spellings)
        BY <1>2 DEF NameKeys, IdentityNames
    <2>2. byNames = {d.id : d \in {x \in all : e.name \in NameKeys[x]}}
        BY <2>1
    <2>3. /\ DOMAIN byName = Name /\ Exact(byName, all, NameKeys)
          /\ e.name \in Name \cup {None}
        BY <1>2, <1>3 DEF IndexInv, Maybe
    <2>4. \A d \in all : ElementsOf(d.names \o d.spellings) \subseteq Name
        BY <1>4, NamesOfBoth
    <2>5. \A d \in all : NameKeys[d] \subseteq DOMAIN byName
        BY <2>1, <2>3, <2>4
    <2> HIDE DEF all, byNames
    <2> QED
        BY <1>3, <2>2, <2>3, <2>5, Lookup
<1>9. /\ byIssns # {} => answer \in byIssns
      /\ byIssns = {} /\ bySources # {} => answer \in bySources
      /\ byIssns = {} /\ bySources = {} /\ byIds # {} => answer \in byIds
      /\ byIssns = {} /\ bySources = {} /\ byIds = {} /\ byNames # {} => answer \in byNames
      /\ byIssns = {} /\ bySources = {} /\ byIds = {} /\ byNames = {} => answer = None
    <2> HIDE DEF byIssns, bySources, byIds, byNames
    <2> QED
        BY <1>1, <1>5, <1>6, <1>7, <1>8 DEF ResolveIdentity, FirstKnown
<1> QED
    BY <1>1, <1>9 DEF StrongestEvidenceDecides, Candidates

\* A request for a journal by any of its names means that journal, if no two journals
\* share a name (resolve_requested).
THEOREM RequestsResolved ==
    ASSUME NamesApart
    PROVE  SpecRegistry => []RequestMeansItsJournal
<1>1. NamesApart
    OBVIOUS
<1>2. RegistryInv => RequestMeansItsJournal
    BY <1>1, RequestFound
<1> QED
    BY <1>2, RegistryIndexed, PTL

\* The first ISSN that is listed decides, then the source, the id and the name, for any
\* evidence and any definitions, also when journals share some of them
\* (resolve_identity).
THEOREM EvidenceDecides == SpecRegistry => []StrongestEvidenceDecides
BY EvidenceFound, RegistryIndexed, PTL

-----------------------------------------------------------------------------
(* Citations.                                                               *)

\* What follows the first words.
LEMMA RestOf ==
    ASSUME NEW words \in Seq(Word), NEW m \in Nat, m < Len(words)
    PROVE  LET rest == SubSeq(words, m + 1, Len(words))
           IN  /\ Len(rest) = Len(words) - m
               /\ \A n \in 1..Len(words) - m : rest[n] = words[m + n]
<1>1. Len(words) \in Nat /\ m + 1 \in 1..Len(words) + 1 /\ Len(words) \in m + 1 - 1..Len(words)
    OBVIOUS
<1>2. /\ Len(SubSeq(words, m + 1, Len(words))) = Len(words) - (m + 1) + 1
      /\ \A i \in 1..Len(words) - (m + 1) + 1 :
            SubSeq(words, m + 1, Len(words))[i] = words[m + 1 + i - 1]
    BY <1>1, SubSeqProperties
<1>3. Len(words) - (m + 1) + 1 = Len(words) - m
    BY <1>1
<1>4. ASSUME NEW n \in 1..Len(words) - m
      PROVE  SubSeq(words, m + 1, Len(words))[n] = words[m + n]
    <2>1. m + 1 + n - 1 = m + n
        BY <1>1
    <2> QED
        BY <1>2, <1>3, <2>1
<1> QED
    BY <1>2, <1>3, <1>4

\* Of a citation that begins with a name and goes on with a number or a volume, the
\* rest is a suffix that resolve_reference takes.
LEMMA Cited ==
    ASSUME VolumesNumbered, NEW citation \in Citations, NEW name \in Name,
           Len(name) <= Len(citation), SubSeq(citation, 1, Len(name)) = name,
           Len(name) < Len(citation) => citation[Len(name) + 1] \in Number \cup VolumeSign
    PROVE  Cites(citation, name)
<1> DEFINE rest == SubSeq(citation, Len(name) + 1, Len(citation))
<1>1. /\ citation \in Seq(Word) /\ Len(citation) \in Nat
      /\ DOMAIN citation = 1..Len(citation) /\ Len(name) \in Nat
    BY RegistryAssumption
<1>2. CASE Len(name) = Len(citation)
    <2>1. rest = << >>
        BY <1>1, <1>2
    <2> QED
        BY <1>1, <1>2, <2>1 DEF Cites, CitationSuffix
<1>3. CASE Len(name) < Len(citation)
    <2>1. /\ Len(rest) = Len(citation) - Len(name)
          /\ \A n \in 1..Len(citation) - Len(name) : rest[n] = citation[Len(name) + n]
        BY <1>1, <1>3, RestOf
    <2> HIDE DEF rest
    <2>2. rest[1] = citation[Len(name) + 1] /\ 1 \in 1..Len(rest)
        BY <1>1, <1>3, <2>1
    <2>3. CASE rest[1] \in Number
        <3>1. CitationSuffix(rest)
            BY <2>2, <2>3 DEF CitationSuffix
        <3> QED
            BY <1>1, <3>1 DEF Cites, rest
    <2>4. CASE rest[1] \in VolumeSign
        <3>1. /\ Len(name) + 1 \in DOMAIN citation
              /\ citation[Len(name) + 1] \in VolumeSign
            BY <1>1, <1>3, <2>2, <2>4
        <3>2. /\ Len(name) + 1 + 1 \in DOMAIN citation
              /\ citation[Len(name) + 1 + 1] \in Number
            BY <3>1 DEF VolumesNumbered
        <3>3. 2 \in 1..Len(rest) /\ Len(name) + 1 + 1 = Len(name) + 2
            BY <1>1, <2>1, <3>2
        <3>4. rest[2] \in Number
            BY <2>1, <3>2, <3>3
        <3>5. CitationSuffix(rest)
            BY <2>4, <3>3, <3>4 DEF CitationSuffix
        <3> QED
            BY <1>1, <3>5 DEF Cites, rest
    <2> QED
        BY <1>3, <2>2, <2>3, <2>4
<1>4. Len(name) = Len(citation) \/ Len(name) < Len(citation)
    <2>1. \A m, n \in Nat : m <= n => m = n \/ m < n
        OBVIOUS
    <2>2. Len(name) <= Len(citation) /\ Len(name) \in Nat /\ Len(citation) \in Nat
        BY <1>1
    <2> QED
        BY ONLY <2>1, <2>2
<1> QED
    BY <1>2, <1>3, <1>4

\* After a name that is cited comes a number, a volume sign or a separator.
LEMMA AfterCited ==
    ASSUME NEW citation \in Citations, NEW name \in Name, Cites(citation, name),
           Len(name) < Len(citation)
    PROVE  citation[Len(name) + 1] \in Number \cup VolumeSign \cup Separator
<1> DEFINE rest == SubSeq(citation, Len(name) + 1, Len(citation))
<1>1. /\ citation \in Seq(Word) /\ Len(citation) \in Nat /\ Len(name) \in Nat
    BY RegistryAssumption
<1>2. /\ Len(rest) = Len(citation) - Len(name)
      /\ rest[1] = citation[Len(name) + 1]
    BY <1>1, RestOf
<1>3. CitationSuffix(rest)
    BY DEF Cites
<1> HIDE DEF rest
<1>4. rest[1] \in Number \cup VolumeSign \cup Separator
    BY <1>1, <1>2, <1>3 DEF CitationSuffix
<1> QED
    BY <1>2, <1>4

\* Two names that a citation begins with: the word after the shorter is of the longer.
LEMMA WordAfter ==
    ASSUME NEW citation \in Seq(Word), NEW short \in Seq(Word), NEW long \in Seq(Word),
           Len(short) < Len(long), Len(long) <= Len(citation),
           SubSeq(citation, 1, Len(long)) = long
    PROVE  citation[Len(short) + 1] \in ElementsOf(long)
<1>1. Len(short) \in Nat /\ Len(long) \in Nat /\ Len(citation) \in Nat
    OBVIOUS
<1>2. Len(short) + 1 \in 1..Len(long)
    BY <1>1
<1>3. SubSeq(citation, 1, Len(long))[Len(short) + 1] = citation[Len(short) + 1]
    BY <1>1, <1>2
<1> QED
    BY <1>2, <1>3 DEF ElementsOf

\* Only one journal is cited.
LEMMA OneCited ==
    ASSUME NamesApart, NEW citation \in Citations, NEW d \in Definitions, NEW e \in Definitions,
           NEW name \in ElementsOf(IdentityNames(d)), NEW other \in ElementsOf(IdentityNames(e)),
           name \in Name, other \in Name,
           Len(name) <= Len(citation), SubSeq(citation, 1, Len(name)) = name,
           Len(name) < Len(citation) => citation[Len(name) + 1] \in Number \cup VolumeSign,
           Cites(citation, other)
    PROVE  d = e
<1> SUFFICES ASSUME d # e PROVE FALSE
    OBVIOUS
<1>1. /\ citation \in Seq(Word) /\ name \in Seq(Word) /\ other \in Seq(Word)
      /\ Len(citation) \in Nat /\ Len(name) \in Nat /\ Len(other) \in Nat
    BY RegistryAssumption
<1>2. name # other
    BY DEF NamesApart, IdentityNames
<1>3. Len(other) <= Len(citation) /\ SubSeq(citation, 1, Len(other)) = other
    BY DEF Cites
<1>4. /\ ElementsOf(name) \cap (Number \cup VolumeSign \cup Separator) = {}
      /\ ElementsOf(other) \cap (Number \cup VolumeSign \cup Separator) = {}
    BY DEF NamesApart, IdentityNames
<1>5. CASE Len(name) = Len(other)
    BY <1>2, <1>3, <1>5
<1>6. CASE Len(name) < Len(other)
    <2>1. citation[Len(name) + 1] \in ElementsOf(other)
        BY <1>1, <1>3, <1>6, WordAfter
    <2>2. citation[Len(name) + 1] \in Number \cup VolumeSign
        BY <1>1, <1>3, <1>6
    <2> QED
        BY <1>4, <2>1, <2>2
<1>7. CASE Len(other) < Len(name)
    <2>1. citation[Len(other) + 1] \in ElementsOf(name)
        BY <1>1, <1>7, WordAfter
    <2>2. citation[Len(other) + 1] \in Number \cup VolumeSign \cup Separator
        BY <1>1, <1>7, AfterCited
    <2> QED
        BY <1>4, <2>1, <2>2
<1> QED
    BY <1>1, <1>5, <1>6, <1>7

LEMMA CitationFound == NamesApart /\ VolumesNumbered /\ RegistryInv => CitationMeansWholeName
<1> SUFFICES ASSUME NamesApart, VolumesNumbered, RegistryInv, Asked("citation"),
                    NEW d \in ElementsOf(defined),
                    NEW name \in ElementsOf(d.names \o d.spellings),
                    Len(asked.of) - Len(name) >= 0,
                    SubSeq(asked.of, 1, Len(name)) = name,
                    Len(asked.of) - Len(name) > 0 =>
                        asked.of[Len(name) + 1] \in Number \cup VolumeSign
             PROVE  answer = d.id
    BY DEF CitationMeansWholeName
<1>1. PICK citation \in Citations : citation = asked.of /\ answer = ResolveReference(citation)
    BY DEF RegistryInv, AnswerInv
<1>2. /\ ElementsOf(defined) \subseteq Definitions
      /\ \A n \in DOMAIN defined : defined[n] \in ElementsOf(defined)
      /\ DOMAIN defined \in SUBSET Nat
    BY DefinedOnes DEF RegistryInv
<1>3. \A x \in Definitions : ElementsOf(IdentityNames(x)) \subseteq Name
    <2>1. \A x \in Definitions : x.names \in Seq(Name) /\ x.spellings \in Seq(Name)
        BY RegistryAssumption DEF Definition
    <2> QED
        BY <2>1, NamesOfBoth DEF IdentityNames
<1>4. name \in ElementsOf(IdentityNames(d)) /\ name \in Name
    BY <1>2, <1>3 DEF IdentityNames
<1>5. /\ Len(citation) \in Nat /\ Len(name) \in Nat
    BY <1>4, RegistryAssumption
<1>6. /\ Len(name) <= Len(citation)
      /\ SubSeq(citation, 1, Len(name)) = name
      /\ Len(name) < Len(citation) => citation[Len(name) + 1] \in Number \cup VolumeSign
    BY <1>1, <1>5
<1> DEFINE cited == {n \in DOMAIN defined : \E x \in ElementsOf(IdentityNames(defined[n])) :
                                                Cites(citation, x)}
<1>7. PICK k \in DOMAIN defined : defined[k] = d
    BY DEF ElementsOf
<1>8. k \in cited
    <2>1. Cites(citation, name)
        BY <1>4, <1>6, Cited
    <2> QED
        BY <1>4, <1>7, <2>1
<1>9. PICK n \in cited : n = CHOOSE i \in cited : \A m \in cited : i <= m
    BY <1>2, <1>8, FirstOfSome
<1>10. answer = defined[n].id
    BY <1>1, <1>8, <1>9 DEF ResolveReference
<1>11. PICK other \in ElementsOf(IdentityNames(defined[n])) : Cites(citation, other)
    BY <1>9
<1>12. defined[n] \in Definitions /\ other \in Name
    BY <1>2, <1>3, <1>9, <1>11
<1>13. defined[n] = d
    BY <1>2, <1>4, <1>6, <1>11, <1>12, OneCited
<1> QED
    BY <1>10, <1>13

\* A citation is resolved to the journal whose whole name it begins with, however many
\* names of other journals begin that name and whichever was defined first, if the
\* journals' names are apart and a volume has a number (resolve_reference).
THEOREM CitationsResolved ==
    ASSUME NamesApart, VolumesNumbered
    PROVE  SpecRegistry => []CitationMeansWholeName
<1>1. NamesApart /\ VolumesNumbered
    OBVIOUS
<1>2. RegistryInv => CitationMeansWholeName
    BY <1>1, CitationFound
<1> QED
    BY <1>2, RegistryIndexed, PTL
=============================================================================
