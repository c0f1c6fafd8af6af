-------------------------- MODULE PaperAnalysisProofs --------------------------
(***************************************************************************)
(* The safety properties of PaperAnalysis hold for any papers, scans and   *)
(* requests.                                                               *)
(*                                                                         *)
(* A request acts on what it read of the library earlier.  What it read    *)
(* can be outdated in one way only, the way in which committed tables may  *)
(* change: by growing (GrownFrom), every id staying the id of something.   *)
(***************************************************************************)
EXTENDS PaperAnalysis, PaperStoreProofs

\* An id that has become a redirect stays one.
Retired(d, t) == \A p \in PaperId : d.redirect[p] # None => t.redirect[p] # None

\* What a request knows is still true, as far as it matters:
\*   - an id that was given out stands for a paper, now as a redirect if it was
\*     not found among the papers;
\*   - the record found and the id asked for stand for the same paper;
\*   - the stored analysis is about that paper; there is one once it is committed,
\*     and otherwise only if the process died after that.
OfRequest(a) ==
    /\ step[a] # "unused" => asked[a] # None
    /\ step[a] # "unused" /\ given[a] => Resolve(db, asked[a]) # None
    /\ step[a] = "redirect" /\ given[a] => db.redirect[asked[a]] # None
    /\ step[a] \in {"ask", "store"} =>
          /\ found[a] # None
          /\ Resolve(db, found[a]) # None
          /\ Resolve(db, asked[a]) = Resolve(db, found[a])
    /\ step[a] = "404" => ~given[a]
    /\ step[a] \in {"reply", "200"} => db.analyses[a] # None
    /\ db.analyses[a] # None => /\ step[a] \in {"reply", "200", "dead"}
                                /\ db.analyses[a] = Resolve(db, asked[a])

RequestTypes ==
    /\ step \in [AnalysisId -> {"unused"} \cup InFlight \cup Ended]
    /\ asked \in [AnalysisId -> Maybe(PaperId)]
    /\ found \in [AnalysisId -> Maybe(PaperId)]
    /\ given \in [AnalysisId -> BOOLEAN]

AnalysisInv ==
    /\ IInv
    /\ Retired(db, tx)
    /\ RequestTypes
    /\ \A a \in AnalysisId : OfRequest(a)

-----------------------------------------------------------------------------
(* The library's steps.                                                     *)

LEMMA BecameLater ==
    ASSUME NEW d \in Tables, NEW t \in Tables, GrownFrom(d, t), NEW p \in PaperId,
           Resolve(d, p) # None
    PROVE  /\ Resolve(d, p) \in PaperId
           /\ Resolve(t, p) # None
           /\ Resolve(t, p) = Resolve(t, Resolve(d, p))
  BY ResolveType DEF GrownFrom, Became, Maybe

\* Uniting papers unmakes no redirect.
LEMMA ReparentRetires ==
    ASSUME NEW d, NEW t, NEW old \in PaperId, NEW new \in PaperId, Retired(d, t)
    PROVE  Retired(d, Reparent(t, old, new))
  BY NoneIsNoId DEF Retired, Reparent, Moved

\* A step of save() changes the committed tables by committing its own, if at all;
\* in both it leaves every redirect a redirect.
LEMMA SearchGrows ==
    ASSUME IInv, Retired(db, tx), NEW s \in ScanId, Search(s)
    PROVE  /\ db' = db \/ db' = tx
           /\ Retired(db', tx')
  <1>0. Retired(db, db)
    BY DEF Retired
  <1>1. CASE Call(s)
    BY <1>1 DEF Call, CallWith
  <1>2. CASE Begin(s)
    BY <1>0, <1>2 DEF Begin, InsertScan, Retired
  <1>3. CASE BusyTimeout(s)
    BY <1>3 DEF BusyTimeout
  <1>4. CASE Match(s)
    BY <1>4 DEF Match
  <1>5. CASE MergeDuplicate(s)
    <2>1. PICK q \in cur.pending : tx' = Reparent(tx, q, cur.id)
      BY <1>5 DEF MergeDuplicate
    <2>2. q \in PaperId
      BY <2>1 DEF IInv, TypeOK, Locals
    <2>3. stage = "merge" /\ cur.id \in Maybe(PaperId)
      BY <1>5 DEF MergeDuplicate, IInv, TypeOK, Locals
    <2>4. cur.id # None
      BY <2>1, <2>3 DEF IInv, Record
    <2>5. Retired(db, tx')
      BY <2>1, <2>2, <2>3, <2>4, ReparentRetires DEF Maybe
    <2> QED
      BY <1>5, <2>5 DEF MergeDuplicate
  <1>6. CASE SkipDuplicate(s)
    BY <1>6 DEF SkipDuplicate
  <1>7. CASE Store(s)
    <2>1. PICK id \in PaperId : Release(s, "conflict") \/ Write(s, id)
      BY <1>7 DEF Store
    <2> QED
      BY <1>0, <2>1 DEF Release, Write, Upsert, Retired
  <1>8. CASE Commit(s)
    BY <1>8 DEF Commit, Retired
  <1>9. CASE Abort(s)
    BY <1>0, <1>9 DEF Abort, Release
  <1> QED
    BY <1>1, <1>2, <1>3, <1>4, <1>5, <1>6, <1>7, <1>8, <1>9 DEF Search, Work

\* What a request knows outlasts any growth of the tables, and its own end in a crash.
LEMMA RequestKeeps ==
    ASSUME AnalysisInv, db' \in Tables, GrownFrom(db, db'), Retired(db, db'),
           NEW a \in AnalysisId,
           asked'[a] = asked[a], found'[a] = found[a], given'[a] = given[a],
           \/ step'[a] = step[a]
           \/ step[a] \in InFlight /\ step'[a] = "dead"
    PROVE  OfRequest(a)'
  <1>1. OfRequest(a) /\ db \in Tables
    BY DEF AnalysisInv, IInv, TypeOK
  <1>2. asked[a] \in Maybe(PaperId) /\ found[a] \in Maybe(PaperId)
    BY DEF AnalysisInv, RequestTypes
  <1>3. \A p \in PaperId : Resolve(db, p) # None =>
           /\ Resolve(db, p) \in PaperId
           /\ Resolve(db', p) # None
           /\ Resolve(db', p) = Resolve(db', Resolve(db, p))
    BY <1>1, BecameLater
  <1>4. /\ db.analyses[a] = None => db'.analyses[a] = None
        /\ db.analyses[a] # None => /\ db'.analyses[a] # None
                                    /\ db'.analyses[a] = Resolve(db', db.analyses[a])
    BY DEF GrownFrom, Became
  <1>5. step[a] # "unused" => step'[a] # "unused" /\ asked[a] \in PaperId
    BY <1>1, <1>2 DEF OfRequest, Maybe
  <1>6. step'[a] # "unused" => step[a] # "unused"
    BY DEF InFlight
  <1>7. step[a] \in {"ask", "store"} => found[a] \in PaperId
    BY <1>1, <1>2 DEF OfRequest, Maybe
  <1>8. /\ step'[a] # "unused" => asked'[a] # None
        /\ step'[a] # "unused" /\ given'[a] => Resolve(db', asked'[a]) # None
    BY <1>1, <1>3, <1>5, <1>6 DEF OfRequest
  <1>9. step'[a] = "redirect" /\ given'[a] => db'.redirect[asked'[a]] # None
    BY <1>1, <1>5 DEF OfRequest, Retired
  <1>10. step'[a] \in {"ask", "store"} =>
            /\ found'[a] # None
            /\ Resolve(db', found'[a]) # None
            /\ Resolve(db', asked'[a]) = Resolve(db', found'[a])
    BY <1>1, <1>3, <1>5, <1>7 DEF OfRequest
  <1>11. step'[a] = "404" => ~given'[a]
    BY <1>1 DEF OfRequest
  <1>12. /\ step'[a] \in {"reply", "200"} => db'.analyses[a] # None
         /\ db'.analyses[a] # None => step'[a] \in {"reply", "200", "dead"}
    BY <1>1, <1>4 DEF OfRequest, InFlight
  <1>13. db'.analyses[a] # None => db'.analyses[a] = Resolve(db', asked'[a])
    BY <1>1, <1>3, <1>4, <1>5 DEF OfRequest
  <1> QED
    BY <1>8, <1>9, <1>10, <1>11, <1>12, <1>13 DEF OfRequest

-----------------------------------------------------------------------------
(* The steps of the composition.                                            *)

LEMMA InitAnalysisInv == InitAnalysis => AnalysisInv
  <1> SUFFICES ASSUME InitAnalysis PROVE AnalysisInv
    OBVIOUS
  <1>1. IInv
    BY InitIInv DEF InitAnalysis
  <1>2. Retired(db, tx) /\ RequestTypes
    BY DEF InitAnalysis, Init, Retired, RequestTypes, Maybe
  <1>3. \A a \in AnalysisId : OfRequest(a)
    BY DEF InitAnalysis, Init, EmptyTables, OfRequest
  <1> QED
    BY <1>1, <1>2, <1>3 DEF AnalysisInv

\* A step that leaves the tables alone, and all requests but one.
LEMMA RequestStep ==
    ASSUME AnalysisInv, UNCHANGED vars, NEW a \in AnalysisId, RequestTypes', OfRequest(a)',
           \A b \in AnalysisId \ {a} : /\ step'[b] = step[b] /\ asked'[b] = asked[b]
                                       /\ found'[b] = found[b] /\ given'[b] = given[b]
    PROVE  AnalysisInv'
  <1>1. IInv'
    BY StoreStutters DEF AnalysisInv
  <1>2. Retired(db, tx)'
    BY DEF AnalysisInv, Retired, vars
  <1>3. db' = db /\ db \in Tables /\ GrownFrom(db, db) /\ Retired(db, db)
    BY GrownReflexive DEF AnalysisInv, IInv, TypeOK, vars, Retired
  <1>4. \A b \in AnalysisId \ {a} : OfRequest(b)'
    BY <1>3, RequestKeeps
  <1> QED
    BY <1>1, <1>2, <1>4 DEF AnalysisInv

LEMMA RequestArrives == ASSUME AnalysisInv, NEW a \in AnalysisId, Request(a) PROVE AnalysisInv'
  <1>1. PICK p \in PaperId :
           /\ asked' = [asked EXCEPT ![a] = p]
           /\ given' = [given EXCEPT ![a] = Resolve(db, p) # None]
    BY DEF Request
  <1>2. step' = [step EXCEPT ![a] = "select"] /\ UNCHANGED <<vars, found>> /\ step[a] = "unused"
    BY DEF Request, Goto
  <1>3. /\ asked'[a] = p /\ step'[a] = "select"
        /\ given'[a] = (Resolve(db, p) # None)
    BY <1>1, <1>2 DEF AnalysisInv, RequestTypes
  <1>4. RequestTypes'
    BY <1>1, <1>2 DEF AnalysisInv, RequestTypes, InFlight, Maybe
  <1>5. OfRequest(a)'
    BY <1>2, <1>3, NoneIsNoId DEF AnalysisInv, OfRequest, vars
  <1>6. \A b \in AnalysisId \ {a} : /\ step'[b] = step[b] /\ asked'[b] = asked[b]
                                    /\ found'[b] = found[b] /\ given'[b] = given[b]
    BY <1>1, <1>2 DEF AnalysisInv, RequestTypes
  <1> QED
    BY <1>2, <1>4, <1>5, <1>6, RequestStep

\* The record that was read has the id that the one asked for stands for.
LEMMA ReadKeeps ==
    ASSUME AnalysisInv, NEW a \in AnalysisId, step[a] \in {"select", "redirect"},
           NEW p \in PaperId, db.papers[p] # None, Resolve(db, asked[a]) = p, Read(a, p)
    PROVE  AnalysisInv'
  <1>1. PICK next \in {"ask", "409"} : step' = [step EXCEPT ![a] = next]
    BY DEF Read, Goto
  <1>2. found' = [found EXCEPT ![a] = p] /\ UNCHANGED <<vars, asked, given>>
    BY DEF Read
  <1>3. step'[a] = next /\ found'[a] = p
    BY <1>1, <1>2 DEF AnalysisInv, RequestTypes
  <1>4. RequestTypes'
    BY <1>1, <1>2 DEF AnalysisInv, RequestTypes, InFlight, Ended, Maybe
  <1>5. OfRequest(a)'
    <2>1. OfRequest(a)
      BY DEF AnalysisInv
    <2>2. Resolve(db, p) = p /\ p # None
      BY NoneIsNoId DEF Resolve
    <2> QED
      BY <1>2, <1>3, <2>1, <2>2 DEF OfRequest, vars
  <1>6. \A b \in AnalysisId \ {a} : /\ step'[b] = step[b] /\ asked'[b] = asked[b]
                                    /\ found'[b] = found[b] /\ given'[b] = given[b]
    BY <1>1, <1>2 DEF AnalysisInv, RequestTypes
  <1> QED
    BY <1>2, <1>4, <1>5, <1>6, RequestStep

\* A step in which a request only moves on.
LEMMA MoveKeeps ==
    ASSUME AnalysisInv, NEW a \in AnalysisId, NEW next \in InFlight \cup Ended,
           step' = [step EXCEPT ![a] = next], UNCHANGED <<vars, asked, found, given>>,
           step[a] \in InFlight, next \in {"reply", "200"} <=> step[a] \in {"reply", "200"},
           next = "redirect" => (given[a] => db.redirect[asked[a]] # None),
           next = "404" => ~given[a],
           next \in {"ask", "store"} => step[a] \in {"ask", "store"}
    PROVE  AnalysisInv'
  <1>1. step'[a] = next
    BY DEF AnalysisInv, RequestTypes
  <1>2. RequestTypes'
    BY DEF AnalysisInv, RequestTypes
  <1>3. OfRequest(a)'
    <2>1. OfRequest(a)
      BY DEF AnalysisInv
    <2>2. next # "unused" /\ step[a] # "unused"
      BY DEF InFlight, Ended
    <2>3. db' = db /\ UNCHANGED <<asked, found, given>>
      BY DEF vars
    <2>4. db.analyses[a] # None <=> step[a] \in {"reply", "200"}
      BY <2>1 DEF OfRequest, InFlight
    <2> QED
      BY <1>1, <2>1, <2>2, <2>3, <2>4 DEF OfRequest
  <1>4. \A b \in AnalysisId \ {a} : /\ step'[b] = step[b] /\ asked'[b] = asked[b]
                                    /\ found'[b] = found[b] /\ given'[b] = given[b]
    BY DEF AnalysisInv, RequestTypes
  <1> QED
    BY <1>2, <1>3, <1>4, RequestStep

LEMMA ReadPaperKeeps == ASSUME AnalysisInv, NEW a \in AnalysisId, ReadPaper(a) PROVE AnalysisInv'
  <1>1. asked[a] \in PaperId /\ OfRequest(a) /\ step[a] = "select"
    BY DEF AnalysisInv, RequestTypes, OfRequest, ReadPaper, Maybe
  <1>2. CASE db.papers[asked[a]] # None
    BY <1>1, <1>2, ReadKeeps DEF ReadPaper, Resolve
  <1>3. CASE db.papers[asked[a]] = None
    <2>1. given[a] => db.redirect[asked[a]] # None
      BY <1>1, <1>3 DEF OfRequest, Resolve
    <2>2. step' = [step EXCEPT ![a] = "redirect"] /\ UNCHANGED <<vars, asked, found, given>>
      BY <1>3 DEF ReadPaper, Goto
    <2> QED
      BY <1>1, <2>1, <2>2, MoveKeeps DEF InFlight
  <1> QED
    BY <1>2, <1>3

LEMMA ReadRedirectKeeps ==
    ASSUME AnalysisInv, NEW a \in AnalysisId, ReadRedirect(a) PROVE AnalysisInv'
  <1> DEFINE p == db.redirect[asked[a]]
  <1>1. asked[a] \in PaperId /\ OfRequest(a) /\ step[a] = "redirect"
    BY DEF AnalysisInv, RequestTypes, OfRequest, ReadRedirect, Maybe
  <1>2. p \in Maybe(PaperId)
    BY <1>1 DEF AnalysisInv, IInv, TypeOK, Tables
  <1>3. p # None => db.papers[asked[a]] = None /\ db.papers[p] # None
    BY <1>1 DEF AnalysisInv, IInv, Whole, ForeignKeys
  <1>4. CASE p # None
    <2>1. Resolve(db, asked[a]) = p
      BY <1>3, <1>4 DEF Resolve
    <2>2. p \in PaperId /\ Read(a, p)
      BY <1>2, <1>3, <1>4 DEF ReadRedirect, Maybe
    <2> QED
      BY <1>1, <1>3, <1>4, <2>1, <2>2, ReadKeeps
  <1>5. CASE p = None
    <2>1. ~given[a]
      BY <1>1, <1>5 DEF OfRequest
    <2>2. step' = [step EXCEPT ![a] = "404"] /\ UNCHANGED <<vars, asked, found, given>>
      BY <1>5 DEF ReadRedirect, Goto
    <2> QED
      BY <1>1, <2>1, <2>2, MoveKeeps DEF InFlight, Ended
  <1> QED
    BY <1>4, <1>5

\* The request's answer is stored under the id found, which has a row and so is
\* what both ids stand for.
LEMMA StoreAnswerKeeps ==
    ASSUME AnalysisInv, NEW a \in AnalysisId, StoreAnswer(a) PROVE AnalysisInv'
  <1>1. /\ OfRequest(a) /\ step[a] = "store"
        /\ step' = [step EXCEPT ![a] = "reply"] /\ UNCHANGED <<asked, found, given>>
        /\ SaveAnalysis(a, found[a])
    BY DEF AnalysisInv, StoreAnswer, Goto
  <1>2. found[a] \in PaperId /\ asked[a] \in PaperId
    BY <1>1 DEF AnalysisInv, RequestTypes, OfRequest, Maybe
  <1>3. /\ db.papers[found[a]] # None /\ db' = InsertAnalysis(db, a, found[a]) /\ tx' = db'
    BY <1>1 DEF SaveAnalysis
  <1>4. IInv'
    BY <1>1, <1>2, SaveAnalysisStep DEF AnalysisInv
  <1>5. Retired(db, tx)'
    BY <1>3 DEF Retired
  <1>6. RequestTypes'
    BY <1>1 DEF AnalysisInv, RequestTypes, InFlight
  <1>7. \A p : Resolve(db', p) = Resolve(db, p)
    BY <1>3 DEF InsertAnalysis, Resolve
  <1>8. db'.redirect = db.redirect
    BY <1>3 DEF InsertAnalysis
  <1>9. /\ db'.analyses[a] = found[a]
        /\ \A b \in AnalysisId \ {a} : db'.analyses[b] = db.analyses[b]
    BY <1>3 DEF InsertAnalysis, AnalysisInv, IInv, TypeOK, Tables
  <1>10. Resolve(db, found[a]) = found[a] /\ found[a] # None
    BY <1>2, <1>3, NoneIsNoId DEF Resolve
  <1>11. step'[a] = "reply" /\ \A b \in AnalysisId \ {a} : step'[b] = step[b]
    BY <1>1 DEF AnalysisInv, RequestTypes
  <1>12. OfRequest(a)'
    BY <1>1, <1>7, <1>9, <1>10, <1>11 DEF OfRequest
  <1>13. ASSUME NEW b \in AnalysisId \ {a} PROVE OfRequest(b)'
    <2>1. OfRequest(b)
      BY DEF AnalysisInv
    <2> QED
      BY <1>1, <1>7, <1>8, <1>9, <1>11, <2>1 DEF OfRequest
  <1> QED
    BY <1>4, <1>5, <1>6, <1>12, <1>13 DEF AnalysisInv

\* A step of save() or a crash.
LEMMA TablesKeep ==
    ASSUME AnalysisInv, IInv', Retired(db', tx'), db' = db \/ db' = tx, RequestTypes',
           UNCHANGED <<asked, found, given>>,
           \A a \in AnalysisId : \/ step'[a] = step[a]
                                 \/ step[a] \in InFlight /\ step'[a] = "dead"
    PROVE  AnalysisInv'
  <1>1. db' \in Tables
    BY DEF IInv, TypeOK
  <1>2. GrownFrom(db, db') /\ Retired(db, db')
    <2>1. GrownFrom(db, db) /\ Retired(db, db)
      BY GrownReflexive DEF AnalysisInv, IInv, TypeOK, Retired
    <2> QED
      BY <2>1 DEF AnalysisInv, IInv
  <1>3. \A a \in AnalysisId : OfRequest(a)'
    BY <1>1, <1>2, RequestKeeps
  <1> QED
    BY <1>3 DEF AnalysisInv

\* Every step of the composition keeps the invariant.
LEMMA NextAnalysisStep == AnalysisInv /\ [NextAnalysis]_allVars => AnalysisInv'
  <1> SUFFICES ASSUME AnalysisInv, [NextAnalysis]_allVars PROVE AnalysisInv'
    OBVIOUS
  <1>1. ASSUME NEW s \in ScanId, Search(s), UNCHANGED requestVars PROVE AnalysisInv'
    <2>1. IInv'
      BY <1>1, NextStep DEF AnalysisInv, Next
    <2>2. (db' = db \/ db' = tx) /\ Retired(db', tx')
      BY <1>1, SearchGrows DEF AnalysisInv
    <2>3. RequestTypes' /\ UNCHANGED <<step, asked, found, given>>
      BY <1>1 DEF AnalysisInv, RequestTypes, requestVars
    <2> QED
      BY <2>1, <2>2, <2>3, TablesKeep
  <1>2. CASE CrashAll
    <2>1. IInv'
      BY <1>2, CrashStep DEF AnalysisInv, CrashAll
    <2>2. db' = db /\ Retired(db', tx')
      BY <1>2 DEF CrashAll, Die, Retired
    <2>3. step' = [a \in AnalysisId |-> IF step[a] \in InFlight THEN "dead" ELSE step[a]]
            /\ UNCHANGED <<asked, found, given>>
      BY <1>2 DEF CrashAll
    <2>4. RequestTypes'
      BY <2>3 DEF AnalysisInv, RequestTypes, Ended
    <2> QED
      BY <2>1, <2>2, <2>3, <2>4, TablesKeep
  <1>3. ASSUME NEW a \in AnalysisId, Ask(a) PROVE AnalysisInv'
    BY <1>3, MoveKeeps DEF Ask, Goto, InFlight, Ended
  <1>4. ASSUME NEW a \in AnalysisId, RefuseAnswer(a) \/ AnswerBusy(a) PROVE AnalysisInv'
    BY <1>4, MoveKeeps DEF RefuseAnswer, AnswerBusy, Goto, InFlight, Ended
  <1>5. ASSUME NEW a \in AnalysisId, Reply(a) PROVE AnalysisInv'
    BY <1>5, MoveKeeps DEF Reply, Goto, InFlight, Ended
  <1>6. CASE UNCHANGED allVars
    <2>1. IInv' /\ UNCHANGED <<db, tx, step, asked, found, given>>
      BY <1>6, StoreStutters DEF AnalysisInv, allVars, requestVars, vars
    <2> QED
      BY <2>1, TablesKeep DEF AnalysisInv, RequestTypes
  <1> QED
    BY <1>1, <1>2, <1>3, <1>4, <1>5, <1>6, RequestArrives, ReadPaperKeeps, ReadRedirectKeeps,
       StoreAnswerKeeps DEF NextAnalysis, Serve, ServeLocally, GetPaper

LEMMA AnalysisAlways == SpecAnalysis => []AnalysisInv
  BY InitAnalysisInv, NextAnalysisStep, PTL DEF SpecAnalysis

-----------------------------------------------------------------------------

\* The requests' variables have their types (analysis/service.py, analyze).
THEOREM AnalysisTypes == SpecAnalysis => []AnalysisTypeOK
  <1>1. AnalysisInv => AnalysisTypeOK
    BY DEF AnalysisInv, RequestTypes, AnalysisTypeOK, OfRequest
  <1> QED
    BY <1>1, AnalysisAlways, PTL

\* An id that was given out is never answered 404, whatever is united between the
\* two SELECTs of get_paper (storage/repositories.py).
THEOREM GivenIdIsAlwaysFound == SpecAnalysis => []GivenIdIsFound
  <1>1. AnalysisInv => GivenIdIsFound
    BY DEF AnalysisInv, OfRequest, GivenIdIsFound
  <1> QED
    BY <1>1, AnalysisAlways, PTL

\* An analysis that a client was given is on record, and one on record is about the
\* paper that the id asked for stands for, before and after papers are united and
\* also if its request died after COMMIT (storage/reconciliation.py, _reparent).
THEOREM AnalysisAlwaysFollowsPaper == SpecAnalysis => []AnalysisFollowsPaper
  <1>1. AnalysisInv => AnalysisFollowsPaper
    BY DEF AnalysisInv, OfRequest, AnalysisFollowsPaper
  <1> QED
    BY <1>1, AnalysisAlways, PTL
=============================================================================
