------------------------------ MODULE PaperMetadata ------------------------------
(***************************************************************************)
(* What a record says about year and journal, how the journal is resolved, *)
(* and what becomes of both when one record enriches another               *)
(* (src/litwatch/journals/registry.py, storage/identity.py).               *)
(*                                                                         *)
(* Evidence for a journal is kept as the journal it is evidence of: issn   *)
(* is the journal that the first listed ISSN of the record belongs to, the *)
(* other fields are a listed journal, Unlisted for any other one, or None. *)
(***************************************************************************)
EXTENDS Naturals

CONSTANTS
    Year,      \* years of publication
    Journal,   \* ids of the journals in JOURNAL_REGISTRY
    Unlisted,  \* a source id or name of any other journal
    None       \* Python's None; also "no row" in the tables of PaperStore

Maybe(S) == S \cup {None}

ASSUME MetadataAssumption ==
    /\ Year \subseteq Nat
    /\ Unlisted \notin Journal
    /\ None \notin Year /\ None \notin Journal /\ None # Unlisted

\* year, journal_issns, journal_source_ids, journal_id and journal of a Paper.
Metadata ==
    [year : Maybe(Year), issn : Maybe(Journal),
     sourceId : Maybe(Journal \cup {Unlisted}), journalId : Maybe(Journal),
     name : Maybe(Journal \cup {Unlisted})]

\* The defaults of Paper: a record that says nothing about either.
NoMetadata ==
    [year |-> None, issn |-> None, sourceId |-> None, journalId |-> None, name |-> None]

FirstKnown(v, w) == IF v # None THEN v ELSE w

IfListed(v) == IF v \in Journal THEN v ELSE None

\* Faulty variant of JournalOf: the name is looked at first.
JournalByName(meta) ==
    FirstKnown(IfListed(meta.name), FirstKnown(meta.issn,
        FirstKnown(IfListed(meta.sourceId), meta.journalId)))

\* resolve_identity and, for names with a citation behind, resolve_reference.
JournalOf(meta) ==
    FirstKnown(meta.issn, FirstKnown(IfListed(meta.sourceId),
        FirstKnown(meta.journalId, IfListed(meta.name))))

\* search: a journal that was resolved gives the paper its id and its name.
WithJournal(meta) ==
    IF JournalOf(meta) = None THEN meta
    ELSE [meta EXCEPT !.journalId = JournalOf(meta), !.name = JournalOf(meta)]

\* enrich: kind of evidence by kind of evidence, the incoming record first.
Resolved(existing, incoming) ==
    FirstKnown(FirstKnown(incoming.issn, existing.issn),
    FirstKnown(FirstKnown(IfListed(incoming.sourceId), IfListed(existing.sourceId)),
    FirstKnown(FirstKnown(incoming.journalId, existing.journalId),
               FirstKnown(IfListed(incoming.name), IfListed(existing.name)))))

\* enrich: the year that is stored stays; a resolved journal brings its own
\* ISSNs, source id and name (every listed journal has all three).
EnrichMetadata(existing, incoming) ==
    LET year == FirstKnown(existing.year, incoming.year)
        journal == Resolved(existing, incoming)
    IN  IF journal = None
        THEN [year |-> year, issn |-> None,
              sourceId |-> FirstKnown(existing.sourceId, incoming.sourceId),
              journalId |-> None, name |-> FirstKnown(incoming.name, existing.name)]
        ELSE [year |-> year, issn |-> journal, sourceId |-> journal,
              journalId |-> journal, name |-> journal]
=============================================================================
