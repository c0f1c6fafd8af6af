---------------------------- MODULE JournalRegistry ----------------------------
(***************************************************************************)
(* The registry of journals: how its four indexes are built, one           *)
(* definition after the other, and how requests, records and citations are *)
(* resolved with them (src/litwatch/journals/registry.py).                 *)
(*                                                                         *)
(* A name is the sequence of its words, in normal form.  Of a citation     *)
(* suffix only what the regular expression looks at is kept: whether a     *)
(* word is a number, a volume sign or a separator.  The code compares      *)
(* characters (startswith), so each of these is a word of its own also     *)
(* where no space comes before it: "Nature12" is <<"nature", "12">>, and   *)
(* like "Nature 12" it cites Nature.  Any other longer word that begins    *)
(* like a name is another word: the expression rejects its remainder.      *)
(***************************************************************************)
EXTENDS Naturals, Sequences, FiniteSets

CONSTANTS
    Definitions, \* the journal definitions (see Definition)
    Word,        \* words of names and citations
    Name,        \* names, as sequences of words
    Issn,        \* ISSNs in normal form
    SourceId,    \* OpenAlex source ids
    JournalId,
    Number, VolumeSign, Separator, \* sets of words
    Journals,    \* the names that requests may give
    Evidence,    \* what records may say of their journal (see the assumption)
    Citations,   \* journal references of arXiv entries
    None

\* names: canonical name and abbreviation; spellings: its identity_aliases (none of the
\* listed journals has any); aliases: its aliases and its id read as a name.
Definition == [id : JournalId, names : Seq(Name), spellings : Seq(Name),
               aliases : SUBSET Name, issns : SUBSET Issn, sources : SUBSET SourceId]

Maybe(S) == S \cup {None}

ASSUME RegistryAssumption ==
    /\ Name \subseteq Seq(Word) /\ Citations \subseteq Seq(Word)
    /\ Definitions \subseteq Definition
    /\ None \notin JournalId /\ None \notin SourceId /\ None \notin Name
    /\ Evidence \subseteq [issns : Seq(Issn), source : Maybe(SourceId),
                           id : Maybe(JournalId), name : Maybe(Name)]

VARIABLES
    defined,   \* the definitions so far, in order
    byRequest, \* _by_request_name
    byName,    \* _by_identity_name
    byIssn, bySource, byId,
    asked,     \* a record's evidence, a requested name or a citation
    answer     \* the journal_id it was resolved to

indexes == <<byRequest, byName, byIssn, bySource, byId>>
registryVars == <<defined, indexes, asked, answer>>

-----------------------------------------------------------------------------

ElementsOf(s) == {s[n] : n \in DOMAIN s}

\* Faulty variant of RequestNames: the first word of a name is enough.
RequestNamesByWord(d) == ElementsOf(d.names) \cup {<<d.names[1][1]>>}

RequestNames(d) == ElementsOf(d.names) \cup d.aliases

\* The names in the order resolve_reference tries them.
IdentityNames(d) == d.names \o d.spellings

\* A later definition takes a key over.
Indexed(map, keys, id) == [k \in DOMAIN map |-> IF k \in keys THEN id ELSE map[k]]

InitRegistry ==
    /\ defined = << >>
    /\ byRequest = [n \in Name |-> None] /\ byName = [n \in Name |-> None]
    /\ byIssn = [i \in Issn |-> None] /\ bySource = [i \in SourceId |-> None]
    /\ byId = [i \in JournalId |-> None]
    /\ asked = None /\ answer = None

\* One turn of the constructor's loop; _by_id, built before it, grows along.
Define(d) ==
    /\ d \notin ElementsOf(defined)
    /\ defined' = Append(defined, d)
    /\ byRequest' = Indexed(byRequest, RequestNames(d), d.id)
    /\ byName' = Indexed(byName, ElementsOf(IdentityNames(d)), d.id)
    /\ byIssn' = Indexed(byIssn, d.issns, d.id)
    /\ bySource' = Indexed(bySource, d.sources, d.id)
    /\ byId' = Indexed(byId, {d.id}, d.id)
    /\ asked' = None /\ answer' = None

\* resolve_requested
ResolveRequested(name) == byRequest[name]

FirstKnown(v, w) == IF v # None THEN v ELSE w

\* The first ISSN of a record that is a listed one.
IssnJournal(issns) ==
    LET listed == {n \in DOMAIN issns : byIssn[issns[n]] # None}
    IN  IF listed = {} THEN None
        ELSE byIssn[issns[CHOOSE n \in listed : \A m \in listed : n <= m]]

Of(map, key) == IF key = None THEN None ELSE map[key]

\* Faulty variant of ResolveIdentity: an ISSN, if there is one, decides alone.
ResolveByIssnAlone(e) ==
    IF e.issns # << >> THEN IssnJournal(e.issns)
    ELSE FirstKnown(Of(bySource, e.source), FirstKnown(Of(byId, e.id), Of(byName, e.name)))

\* resolve_identity
ResolveIdentity(e) ==
    FirstKnown(IssnJournal(e.issns), FirstKnown(Of(bySource, e.source),
        FirstKnown(Of(byId, e.id), Of(byName, e.name))))

\* Faulty variant of CitationSuffix: whatever follows the name.
AnySuffix(words) == TRUE

\* The regular expression: [,;] vol|no 12 ..., all but the number optional.
CitationSuffix(words) ==
    \/ words = << >>
    \/ \E n \in 1..Len(words) :
          /\ words[n] \in Number
          /\ \/ n = 1
             \/ n = 2 /\ words[1] \in Separator \cup VolumeSign
             \/ n = 3 /\ words[1] \in Separator /\ words[2] \in VolumeSign

Cites(citation, name) ==
    /\ Len(name) <= Len(citation)
    /\ SubSeq(citation, 1, Len(name)) = name
    /\ CitationSuffix(SubSeq(citation, Len(name) + 1, Len(citation)))

\* resolve_reference: the first definition a name of which is cited.
ResolveReference(citation) ==
    LET cited == {n \in DOMAIN defined : \E name \in ElementsOf(IdentityNames(defined[n])) :
                                            Cites(citation, name)}
    IN  IF cited = {} THEN None
        ELSE defined[CHOOSE n \in cited : \A m \in cited : n <= m].id

Answer(kind, question, id) ==
    /\ asked' = [kind |-> kind, of |-> question]
    /\ answer' = id
    /\ UNCHANGED <<defined, indexes>>

Request(name) == Answer("request", name, ResolveRequested(name))
Identify(e) == Answer("record", e, ResolveIdentity(e))
Cite(citation) == Answer("citation", citation, ResolveReference(citation))

NextRegistry ==
    \/ \E d \in Definitions : Define(d)
    \/ \E name \in Journals : Request(name)
    \/ \E e \in Evidence : Identify(e)
    \/ \E citation \in Citations : Cite(citation)

SpecRegistry == InitRegistry /\ [][NextRegistry]_registryVars

-----------------------------------------------------------------------------
(* What must hold.                                                          *)

\* As in JOURNAL_REGISTRY: no two journals share a name, and no word of a name could
\* be the volume, the number or the comma of a citation.
NamesApart ==
    LET Requested(d) == ElementsOf(d.names) \cup d.aliases
        Cited(d) == ElementsOf(d.names \o d.spellings)
    IN  /\ \A d, e \in Definitions : d # e =>
              Requested(d) \cap Requested(e) = {} /\ Cited(d) \cap Cited(e) = {}
        /\ \A d \in Definitions : \A name \in Cited(d) :
              ElementsOf(name) \cap (Number \cup VolumeSign \cup Separator) = {}

\* Citations that give the number of the volume where they speak of a volume.
VolumesNumbered ==
    \A citation \in Citations : \A n \in DOMAIN citation :
        citation[n] \in VolumeSign =>
            n + 1 \in DOMAIN citation /\ citation[n + 1] \in Number

Asked(kind) == asked # None /\ asked.kind = kind

Candidates(P(_)) == {d.id : d \in {x \in ElementsOf(defined) : P(x)}}

\* A name by which a journal can be requested means that journal and no other, in
\* whatever order the journals were defined: the lists of names do not overlap, also
\* where one journal's name begins another's (Nature, Nature Communications).
RequestMeansItsJournal ==
    \A d \in ElementsOf(defined) :
        Asked("request") /\ asked.of \in ElementsOf(d.names) \cup d.aliases => answer = d.id

\* The strongest kind of evidence that leads to a journal decides, whatever the weaker
\* ones say, and one that leads nowhere does not stand in the way of the weaker ones.
StrongestEvidenceDecides ==
    Asked("record") =>
        LET e == asked.of
            byIssns   == Candidates(LAMBDA d : \E n \in DOMAIN e.issns : e.issns[n] \in d.issns)
            bySources == Candidates(LAMBDA d : e.source \in d.sources)
            byIds     == Candidates(LAMBDA d : e.id = d.id)
            byNames   == Candidates(LAMBDA d : e.name \in ElementsOf(d.names \o d.spellings))
        IN  IF byIssns # {} THEN answer \in byIssns
            ELSE IF bySources # {} THEN answer \in bySources
            ELSE IF byIds # {} THEN answer \in byIds
            ELSE IF byNames # {} THEN answer \in byNames ELSE answer = None

\* A citation with volume or number is resolved to the journal whose name it begins
\* with, never to one whose name is only the beginning of that name.
CitationMeansWholeName ==
    Asked("citation") =>
        \A d \in ElementsOf(defined) : \A name \in ElementsOf(d.names \o d.spellings) :
            LET rest == Len(asked.of) - Len(name)
            IN  /\ rest >= 0 /\ SubSeq(asked.of, 1, Len(name)) = name
                /\ rest > 0 => asked.of[Len(name) + 1] \in Number \cup VolumeSign
                => answer = d.id
=============================================================================
