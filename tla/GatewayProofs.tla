----------------------------- MODULE GatewayProofs -----------------------------
(***************************************************************************)
(* The safety properties of Gateway hold for any calls, addresses and      *)
(* answers of the resolver.                                                *)
(*                                                                         *)
(* Calls share nothing but the DNS, and a call reads it once.  So the      *)
(* inductive invariant is a predicate of one call, and the proof that a    *)
(* step keeps it needs only the step's own call.                           *)
(***************************************************************************)
EXTENDS Gateway, TLAPS

\* Before the validation, or when it failed.
Unvalidated == {"unused", "resolve", "invalid_url"}

LastOf(t) == t[Len(t)]

\* What validation leaves behind: a list of the answer's addresses, all public,
\* and the connections tried so far follow that list.
Captured(a, t, g) ==
    /\ a \in Seq(Address) /\ g \in Seq(Address)
    /\ a # << >>
    /\ ElementsOf(a) = ElementsOf(g)
    /\ ElementsOf(g) \subseteq Public
    /\ \A m, n \in 1..Len(a) : a[m] = a[n] => m = n
    /\ Len(t) <= Len(a)
    /\ \A n \in 1..Len(t) : t[n].to = a[n]

\* No connection was made.
Unconnected(t, k) ==
    /\ k = {}
    /\ \A n \in 1..Len(t) : t[n].reaction # "accepts"

\* The last connection tried was made; the request may have gone there.
Connected(t, k) ==
    /\ t # << >>
    /\ LastOf(t).reaction = "accepts"
    /\ k \subseteq {LastOf(t).to}

\* The inductive part, of one call: step, url, addresses, tried, last, given, keyed.
CallInv(s, u, a, t, l, g, k) ==
    /\ s # "unused" => u \in Urls
    /\ s \in Unvalidated => t = << >> /\ k = {}
    /\ t # << >> => u.dialled = u.origin
    /\ s \notin Unvalidated => Captured(a, t, g)
    /\ s = "connect" => /\ Unconnected(t, k)
                        /\ t # << >> => l = Error(LastOf(t).reaction)
    /\ s \in {"tls", "reply", "result", "bad_response"} => Connected(t, k)
    /\ s = "tls" => k = {}
    /\ s \in {"timeout", "upstream"} =>
          \/ u.dialled # u.origin /\ Unconnected(t, k)
          \/ Connected(t, k)
          \/ Unconnected(t, k) /\ Len(t) = Len(a) /\ s = Error(LastOf(t).reaction)

OfCall(c) == CallInv(step[c], url[c], addresses[c], tried[c], last[c], given[c], keyed[c])

GatewayInv == GatewayTypeOK /\ \A c \in Call : OfCall(c)

-----------------------------------------------------------------------------

\* What the resolver says is None or a list of addresses.
LEMMA LookupType ==
    ASSUME NEW u \in Urls, dns \in [Origin -> Maybe(Answers)]
    PROVE  Lookup(u) \in Maybe(Seq(Address))
  <1>1. u \in Url
    BY GatewayAssumption
  <1>2. u.origin \in Origin /\ u.address \in Address
    BY <1>1 DEF Url
  <1>3. <<u.address>> \in Seq(Address)
    BY <1>2
  <1>4. dns[u.origin] \in Maybe(Seq(Address))
    BY <1>2, GatewayAssumption DEF Maybe
  <1> QED
    BY <1>3, <1>4 DEF Lookup, Maybe

\* Removing duplicates from an acceptable answer leaves a captured list.
LEMMA DistinctIsCaptured ==
    ASSUME NEW answer \in Maybe(Seq(Address)), Acceptable(answer),
           NEW n \in 1..Len(answer), NEW list \in [1..n -> ElementsOf(answer)],
           Distinct(list, answer)
    PROVE  Captured(list, << >>, answer)
  <1>1. answer \in Seq(Address)
    BY DEF Maybe, Acceptable
  <1>2. n \in Nat \ {0}
    BY <1>1
  <1>3. ElementsOf(answer) \subseteq Address
    BY <1>1 DEF ElementsOf
  <1>4. /\ list \in Seq(Address)
        /\ Len(list) = n
    BY <1>2, <1>3
  <1>5. \A i, j \in 1..Len(list) : list[i] = list[j] => i = j
    BY <1>2, <1>4 DEF Distinct
  <1> QED
    BY <1>1, <1>2, <1>4, <1>5 DEF Captured, Distinct, Acceptable

\* The initial states are in the invariant.
LEMMA GatewayInit == InitGateway => GatewayInv
  <1> SUFFICES ASSUME InitGateway PROVE GatewayInv
    OBVIOUS
  <1>1. GatewayTypeOK
    BY DEF InitGateway, GatewayTypeOK, Maybe, Ended, Running
  <1>2. \A c \in Call : OfCall(c)
    BY DEF InitGateway, OfCall, CallInv, Unvalidated
  <1> QED
    BY <1>1, <1>2 DEF GatewayInv

\* A step of a call leaves the others alone.
LEMMA OthersStay ==
    ASSUME GatewayTypeOK, NEW c \in Call, \A d \in Call : OfCall(d),
           \A d \in Call \ {c} :
               /\ step'[d] = step[d] /\ url'[d] = url[d] /\ addresses'[d] = addresses[d]
               /\ tried'[d] = tried[d] /\ last'[d] = last[d] /\ given'[d] = given[d]
               /\ keyed'[d] = keyed[d],
           GatewayTypeOK', OfCall(c)'
    PROVE  GatewayInv'
  <1> SUFFICES ASSUME NEW d \in Call \ {c} PROVE OfCall(d)'
    BY DEF GatewayInv
  <1> QED
    BY DEF OfCall

LEMMA StartKeeps == ASSUME GatewayInv, NEW c \in Call, Start(c) PROVE GatewayInv'
  <1>1. GatewayTypeOK'
    BY DEF GatewayInv, GatewayTypeOK, Start, Goto, Maybe, Running
  <1>2. OfCall(c)'
    BY DEF GatewayInv, GatewayTypeOK, OfCall, CallInv, Unvalidated, Start, Goto
  <1> QED
    BY <1>1, <1>2, OthersStay DEF GatewayInv, GatewayTypeOK, Start, Goto

LEMMA RebindKeeps == ASSUME GatewayInv, NEW origin \in Origin, Rebind(origin) PROVE GatewayInv'
  BY DEF GatewayInv, GatewayTypeOK, OfCall, Rebind

LEMMA ForbidKeeps == ASSUME GatewayInv, NEW c \in Call, Forbid(c) PROVE GatewayInv'
  <1>1. GatewayTypeOK'
    BY DEF GatewayInv, GatewayTypeOK, Forbid, Goto, Ended
  <1>2. OfCall(c)'
    BY DEF GatewayInv, GatewayTypeOK, OfCall, CallInv, Unvalidated, Forbid, Goto
  <1> QED
    BY <1>1, <1>2, OthersStay DEF GatewayInv, GatewayTypeOK, Forbid, Goto

LEMMA ResolveKeeps == ASSUME GatewayInv, NEW c \in Call, Resolve(c) PROVE GatewayInv'
  <1> DEFINE answer == Lookup(url[c])
  <1>1. url[c] \in Urls /\ tried[c] = << >> /\ keyed[c] = {}
    BY DEF GatewayInv, OfCall, CallInv, Unvalidated, Resolve
  <1>2. answer \in Maybe(Seq(Address))
    BY <1>1, LookupType DEF GatewayInv, GatewayTypeOK
  <1>3. given' = [given EXCEPT ![c] = answer]
    BY DEF Resolve
  <1>4. CASE Acceptable(answer)
    <2>0. PICK n \in 1..Len(answer) : \E list \in [1..n -> ElementsOf(answer)] :
             /\ Distinct(list, answer)
             /\ addresses' = [addresses EXCEPT ![c] = list]
      BY <1>4 DEF Resolve
    <2>1. PICK list \in [1..n -> ElementsOf(answer)] :
             /\ Distinct(list, answer)
             /\ addresses' = [addresses EXCEPT ![c] = list]
      BY <2>0
    <2>2. Captured(list, << >>, answer)
      BY <1>2, <1>4, <2>1, DistinctIsCaptured
    <2>3. step' = [step EXCEPT ![c] = "connect"]
      BY <1>4 DEF Resolve, Goto
    <2>4. list \in Seq(Address)
      BY <2>2 DEF Captured
    <2> HIDE DEF answer
    <2>5. GatewayTypeOK'
      BY <1>2, <1>3, <2>1, <2>3, <2>4
         DEF GatewayInv, GatewayTypeOK, Resolve, Maybe, Running
    <2>6. OfCall(c)'
      <3>1. /\ step'[c] = "connect" /\ addresses'[c] = list /\ given'[c] = answer
            /\ url'[c] = url[c] /\ tried'[c] = << >> /\ keyed'[c] = {}
        BY <1>1, <1>3, <2>1, <2>3 DEF GatewayInv, GatewayTypeOK, Resolve
      <3> QED
        BY <1>1, <2>2, <3>1 DEF OfCall, CallInv, Unvalidated, Unconnected
    <2> QED
      BY <1>3, <2>1, <2>3, <2>5, <2>6, OthersStay DEF GatewayInv, GatewayTypeOK, Resolve
  <1>5. CASE ~ Acceptable(answer)
    <2>1. step' = [step EXCEPT ![c] = "invalid_url"] /\ addresses' = addresses
      BY <1>5 DEF Resolve, Goto
    <2> HIDE DEF answer
    <2>2. GatewayTypeOK'
      BY <1>2, <1>3, <2>1 DEF GatewayInv, GatewayTypeOK, Resolve, Ended
    <2>3. OfCall(c)'
      <3>1. /\ step'[c] = "invalid_url"
            /\ url'[c] = url[c] /\ tried'[c] = << >> /\ keyed'[c] = {}
        BY <1>1, <1>3, <2>1 DEF GatewayInv, GatewayTypeOK, Resolve
      <3> QED
        BY <1>1, <3>1 DEF OfCall, CallInv, Unvalidated
    <2> QED
      BY <1>3, <2>1, <2>2, <2>3, OthersStay DEF GatewayInv, GatewayTypeOK, Resolve
  <1> QED
    BY <1>4, <1>5

LEMMA MismatchKeeps == ASSUME GatewayInv, NEW c \in Call, Mismatch(c) PROVE GatewayInv'
  <1>1. GatewayTypeOK'
    BY DEF GatewayInv, GatewayTypeOK, Mismatch, Goto, Ended
  <1>2. OfCall(c)'
    BY DEF GatewayInv, GatewayTypeOK, OfCall, CallInv, Unvalidated, Mismatch,
           Validated, Goto
  <1> QED
    BY <1>1, <1>2, OthersStay DEF GatewayInv, GatewayTypeOK, Mismatch, Goto

LEMMA DialKeeps == ASSUME GatewayInv, NEW c \in Call, Dial(c) PROVE GatewayInv'
  <1> DEFINE a == addresses[c]
             t == tried[c]
  <1>1. /\ step[c] = "connect"
        /\ url[c] \in Urls
        /\ Captured(a, t, given[c])
        /\ Unconnected(t, keyed[c])
        /\ url[c].dialled = url[c].origin
    BY DEF GatewayInv, OfCall, CallInv, Unvalidated, Dial, Validated
  <1>2. t \in Seq(Attempt) /\ a \in Seq(Address) /\ Len(t) < Len(a)
    BY <1>1 DEF GatewayInv, GatewayTypeOK, Dial, Targets, Captured
  <1>3. PICK reaction \in Reaction :
           /\ tried' = [tried EXCEPT ![c] =
                          Append(@, [to |-> a[Len(@) + 1], reaction |-> reaction])]
           /\ last' = [last EXCEPT ![c] = Error(reaction)]
           /\ step' = [step EXCEPT ![c] = IF reaction = "accepts" THEN "tls" ELSE "connect"]
    BY DEF Dial, Targets, Advance, AfterAttempt, Goto
  <1> DEFINE attempt == [to |-> a[Len(t) + 1], reaction |-> reaction]
             t2 == Append(t, attempt)
  <1>4. attempt \in Attempt /\ attempt.to = a[Len(t) + 1] /\ attempt.reaction = reaction
    BY <1>2 DEF Attempt
  <1>5. Error(reaction) \in {"none", "timeout", "upstream"}
    BY DEF Error
  <1>6. tried' = [tried EXCEPT ![c] = t2]
    BY <1>3
  <1>7. /\ t2 \in Seq(Attempt)
        /\ Len(t2) = Len(t) + 1
        /\ t2[Len(t2)] = attempt
        /\ \A n \in 1..Len(t) : t2[n] = t[n]
        /\ t2 # << >>
    <2> HIDE DEF attempt
    <2> QED
      BY <1>2, <1>4
  <1> HIDE DEF attempt, t2
  <1>8. GatewayTypeOK'
    BY <1>3, <1>5, <1>6, <1>7 DEF GatewayInv, GatewayTypeOK, Dial, Running
  <1>9. Captured(a, t2, given[c])
    <2>1. Len(t2) <= Len(a)
      BY <1>2, <1>7
    <2>2. \A n \in 1..Len(t2) : t2[n].to = a[n]
      BY <1>1, <1>2, <1>4, <1>7 DEF Captured
    <2> QED
      BY <1>1, <2>1, <2>2 DEF Captured
  <1>10. /\ url'[c] = url[c] /\ addresses'[c] = a /\ tried'[c] = t2
         /\ last'[c] = Error(reaction) /\ given'[c] = given[c] /\ keyed'[c] = {}
    BY <1>1, <1>3, <1>6 DEF GatewayInv, GatewayTypeOK, Dial, Unconnected
  <1>11. OfCall(c)'
    <2>1. CASE reaction = "accepts"
      <3>1. step'[c] = "tls"
        BY <1>3, <2>1 DEF GatewayInv, GatewayTypeOK
      <3>2. Connected(t2, {})
        BY <1>4, <1>7, <2>1 DEF Connected, LastOf
      <3> QED
        BY <1>1, <1>9, <1>10, <3>1, <3>2 DEF OfCall, CallInv, Unvalidated
    <2>2. CASE reaction # "accepts"
      <3>1. step'[c] = "connect"
        BY <1>3, <2>2 DEF GatewayInv, GatewayTypeOK
      <3>2. Unconnected(t2, {})
        BY <1>1, <1>2, <1>4, <1>7, <2>2 DEF Unconnected
      <3>3. Error(reaction) = Error(LastOf(t2).reaction)
        BY <1>4, <1>7 DEF LastOf
      <3> QED
        BY <1>1, <1>9, <1>10, <3>1, <3>2, <3>3 DEF OfCall, CallInv, Unvalidated
    <2> QED
      BY <2>1, <2>2
  <1> QED
    BY <1>3, <1>6, <1>8, <1>11, OthersStay DEF GatewayInv, GatewayTypeOK, Dial

LEMMA GiveUpKeeps == ASSUME GatewayInv, NEW c \in Call, GiveUp(c) PROVE GatewayInv'
  <1>1. /\ Captured(addresses[c], tried[c], given[c])
        /\ Unconnected(tried[c], keyed[c])
        /\ url[c] \in Urls
        /\ tried[c] # << >> => /\ last[c] = Error(LastOf(tried[c]).reaction)
                               /\ url[c].dialled = url[c].origin
    BY DEF GatewayInv, OfCall, CallInv, Unvalidated, GiveUp
  <1>2. /\ tried[c] \in Seq(Attempt) /\ addresses[c] \in Seq(Address)
        /\ addresses[c] # << >> /\ Len(tried[c]) = Len(addresses[c])
    BY <1>1 DEF GatewayInv, GatewayTypeOK, GiveUp, Targets, Captured
  <1>3. tried[c] # << >> /\ Len(tried[c]) \in 1..Len(tried[c])
    BY <1>2
  <1>4. last[c] = Error(LastOf(tried[c]).reaction)
    BY <1>1, <1>3
  <1>5. LastOf(tried[c]) \in Attempt
    BY <1>2, <1>3 DEF LastOf
  <1>6. LastOf(tried[c]).reaction \in {"refuses", "silent"}
    BY <1>1, <1>3, <1>5 DEF Unconnected, LastOf, Attempt, Reaction
  <1>7. last[c] \in {"timeout", "upstream"}
    BY <1>4, <1>6 DEF Error
  <1>8. GatewayTypeOK'
    BY <1>7 DEF GatewayInv, GatewayTypeOK, GiveUp, Goto, Ended
  <1>9. step'[c] = last[c] /\ UNCHANGED <<url, addresses, tried, last, given, keyed>>
    BY DEF GatewayInv, GatewayTypeOK, GiveUp, Goto
  <1>10. OfCall(c)'
    BY <1>1, <1>2, <1>4, <1>7, <1>9 DEF OfCall, CallInv, Unvalidated
  <1> QED
    BY <1>8, <1>10, OthersStay DEF GatewayInv, GatewayTypeOK, GiveUp, Goto

LEMMA HandshakeKeeps == ASSUME GatewayInv, NEW c \in Call, Handshake(c) PROVE GatewayInv'
  <1> DEFINE address == LastOf(tried[c]).to
  <1>1. /\ Captured(addresses[c], tried[c], given[c])
        /\ Connected(tried[c], keyed[c])
        /\ keyed[c] = {}
        /\ url[c] \in Urls
        /\ tried[c] # << >> => url[c].dialled = url[c].origin
    BY DEF GatewayInv, OfCall, CallInv, Unvalidated, Handshake
  <1>2. tried[c] \in Seq(Attempt) /\ tried[c] # << >>
    BY <1>1 DEF GatewayInv, GatewayTypeOK, Connected
  <1>3. LastOf(tried[c]) \in Attempt
    BY <1>2 DEF LastOf
  <1>4. address \in Address
    BY <1>3 DEF Attempt
  <1>5. CASE /\ step' = [step EXCEPT ![c] = "reply"]
             /\ keyed' = [keyed EXCEPT ![c] = @ \cup {address}]
    <2>1. GatewayTypeOK'
      BY <1>4, <1>5 DEF GatewayInv, GatewayTypeOK, Handshake, Running
    <2>2. step'[c] = "reply" /\ keyed'[c] = {address}
      BY <1>1, <1>5 DEF GatewayInv, GatewayTypeOK
    <2>3. OfCall(c)'
      BY <1>1, <2>2 DEF Handshake, OfCall, CallInv, Unvalidated, Connected
    <2> QED
      BY <1>5, <2>1, <2>3, OthersStay DEF GatewayInv, GatewayTypeOK, Handshake
  <1>6. CASE /\ \E outcome \in {"timeout", "upstream"} : step' = [step EXCEPT ![c] = outcome]
             /\ keyed' = keyed
    <2>1. GatewayTypeOK'
      BY <1>6 DEF GatewayInv, GatewayTypeOK, Handshake, Ended
    <2>2. step'[c] \in {"timeout", "upstream"} /\ keyed'[c] = {}
      BY <1>1, <1>6 DEF GatewayInv, GatewayTypeOK
    <2>3. OfCall(c)'
      BY <1>1, <2>2 DEF Handshake, OfCall, CallInv, Unvalidated, Connected
    <2> QED
      BY <1>6, <2>1, <2>3, OthersStay DEF GatewayInv, GatewayTypeOK, Handshake
  <1> QED
    BY <1>5, <1>6 DEF Handshake, Goto, LastOf

LEMMA ReplyKeeps == ASSUME GatewayInv, NEW c \in Call, Reply(c) PROVE GatewayInv'
  <1>1. /\ Captured(addresses[c], tried[c], given[c])
        /\ Connected(tried[c], keyed[c])
        /\ url[c] \in Urls
        /\ tried[c] # << >> => url[c].dialled = url[c].origin
    BY DEF GatewayInv, OfCall, CallInv, Unvalidated, Reply
  <1>2. PICK outcome \in {"result", "timeout", "upstream", "bad_response"} :
           step' = [step EXCEPT ![c] = outcome]
    BY DEF Reply, Goto
  <1>3. GatewayTypeOK'
    BY <1>2 DEF GatewayInv, GatewayTypeOK, Reply, Ended
  <1>4. step'[c] = outcome
    BY <1>2 DEF GatewayInv, GatewayTypeOK
  <1>5. OfCall(c)'
    BY <1>1, <1>4 DEF Reply, OfCall, CallInv, Unvalidated
  <1> QED
    BY <1>2, <1>3, <1>5, OthersStay DEF GatewayInv, GatewayTypeOK, Reply

\* Every step keeps the invariant.
LEMMA GatewayStep == GatewayInv /\ [NextGateway]_gatewayVars => GatewayInv'
  <1> SUFFICES ASSUME GatewayInv, [NextGateway]_gatewayVars PROVE GatewayInv'
    OBVIOUS
  <1>1. CASE UNCHANGED gatewayVars
    BY <1>1 DEF gatewayVars, GatewayInv, GatewayTypeOK, OfCall
  <1>2. CASE \E origin \in Origin : Rebind(origin)
    BY <1>2, RebindKeeps
  <1>3. ASSUME NEW c \in Call, Start(c) \/ Proceed(c) PROVE GatewayInv'
    BY <1>3, StartKeeps, ForbidKeeps, ResolveKeeps, MismatchKeeps, DialKeeps, GiveUpKeeps,
       HandshakeKeeps, ReplyKeeps DEF Proceed, Connect
  <1> QED
    BY <1>1, <1>2, <1>3 DEF NextGateway

LEMMA GatewayAlways == SpecGateway => []GatewayInv
  BY GatewayInit, GatewayStep, PTL DEF SpecGateway

-----------------------------------------------------------------------------

\* The variables have their types (gateway.py, quick_scan); in particular the assertion
\* that there is an error to raise after the loop (gateway.py, connect_tcp) holds.
THEOREM GatewayTypes == SpecGateway => []GatewayTypeOK
  <1>1. GatewayInv => GatewayTypeOK
    BY DEF GatewayInv
  <1> QED
    BY <1>1, GatewayAlways, PTL

\* Only public addresses are dialled, however often the DNS changes between the
\* validation of the base URL and the connection, and only for the origin that was
\* validated (gateway.py, _PinnedNetworkBackend).
THEOREM OnlyPublicHolds == SpecGateway => []OnlyPublic
  <1>1. GatewayInv => OnlyPublic
    <2> SUFFICES ASSUME GatewayInv, NEW c \in Call
                 PROVE  /\ \A n \in DOMAIN tried[c] : tried[c][n].to \in Public
                        /\ tried[c] # << >> => /\ ElementsOf(given[c]) \subseteq Public
                                               /\ url[c].dialled = url[c].origin
      BY DEF OnlyPublic
    <2>1. tried[c] \in Seq(Attempt)
      BY DEF GatewayInv, GatewayTypeOK
    <2>2. CASE tried[c] = << >>
      BY <2>2
    <2>3. CASE tried[c] # << >>
      <3>1. Captured(addresses[c], tried[c], given[c])
        BY <2>3 DEF GatewayInv, OfCall, CallInv
      <3>2. \A n \in DOMAIN tried[c] : tried[c][n].to \in ElementsOf(addresses[c])
        BY <2>1, <3>1 DEF Captured, ElementsOf
      <3>3. url[c].dialled = url[c].origin
        BY <2>3 DEF GatewayInv, OfCall, CallInv
      <3> QED
        BY <3>1, <3>2, <3>3 DEF Captured
    <2> QED
      BY <2>2, <2>3
  <1> QED
    BY <1>1, GatewayAlways, PTL

\* The API key reaches at most one address, the one the connection was made to
\* (gateway.py, _send: redirects are not followed and nothing is retried).
THEOREM KeyGoesOnceHolds == SpecGateway => []KeyGoesOnce
  <1>1. GatewayInv => KeyGoesOnce
    <2> SUFFICES ASSUME GatewayInv, NEW c \in Call, NEW address \in keyed[c]
                 PROVE  /\ keyed[c] = {address}
                        /\ address = tried[c][Len(tried[c])].to
                        /\ step[c] \in {"reply"} \cup (Ended \ {"invalid_url"})
      BY DEF KeyGoesOnce
    <2>1. step[c] \in {"unused"} \cup Running \cup Ended /\ OfCall(c)
      BY DEF GatewayInv, GatewayTypeOK
    <2>2. step[c] \notin {"unused", "resolve", "invalid_url", "connect", "tls"}
      BY <2>1 DEF OfCall, CallInv, Unvalidated, Unconnected
    <2>3. Connected(tried[c], keyed[c])
      BY <2>1, <2>2 DEF Running, Ended, OfCall, CallInv, Unconnected
    <2> QED
      BY <2>1, <2>2, <2>3 DEF Running, Ended, Connected, LastOf
  <1> QED
    BY <1>1, GatewayAlways, PTL

\* A call that ends without a connection has tried every address captured for it
\* and reports the error of the last (gateway.py, connect_tcp and quick_scan).
THEOREM FailsOnlyIfUnreachableHolds == SpecGateway => []FailsOnlyIfUnreachable
  <1>1. GatewayInv => FailsOnlyIfUnreachable
    <2> SUFFICES ASSUME GatewayInv, NEW c \in Call, step[c] \in {"timeout", "upstream"},
                        ~ \E n \in DOMAIN tried[c] : tried[c][n].reaction = "accepts",
                        url[c].dialled = url[c].origin
                 PROVE  /\ ElementsOf(given[c]) = {tried[c][n].to : n \in DOMAIN tried[c]}
                        /\ \A m, n \in DOMAIN tried[c] :
                              tried[c][m].to = tried[c][n].to => m = n
                        /\ step[c] = Error(tried[c][Len(tried[c])].reaction)
      BY DEF FailsOnlyIfUnreachable
    <2>1. tried[c] \in Seq(Attempt)
      BY DEF GatewayInv, GatewayTypeOK
    <2>2. OfCall(c) /\ Captured(addresses[c], tried[c], given[c])
      BY DEF GatewayInv, OfCall, CallInv, Unvalidated
    <2>3. ~ Connected(tried[c], keyed[c])
      BY <2>1 DEF Connected, LastOf
    <2>4. Len(tried[c]) = Len(addresses[c]) /\ step[c] = Error(LastOf(tried[c]).reaction)
      BY <2>2, <2>3 DEF OfCall, CallInv
    <2>5. /\ addresses[c] \in Seq(Address)
          /\ DOMAIN tried[c] = DOMAIN addresses[c]
          /\ DOMAIN tried[c] = 1..Len(addresses[c])
      BY <2>1, <2>2, <2>4 DEF Captured
    <2>6. \A n \in DOMAIN tried[c] : tried[c][n].to = addresses[c][n]
      BY <2>2, <2>4, <2>5 DEF Captured
    <2>7. ElementsOf(given[c]) = {tried[c][n].to : n \in DOMAIN tried[c]}
      <3>1. ElementsOf(given[c]) = ElementsOf(addresses[c])
        BY <2>2 DEF Captured
      <3>2. ElementsOf(addresses[c]) = {addresses[c][n] : n \in DOMAIN tried[c]}
        BY <2>5 DEF ElementsOf
      <3>3. {addresses[c][n] : n \in DOMAIN tried[c]} = {tried[c][n].to : n \in DOMAIN tried[c]}
        BY <2>6
      <3> QED
        BY <3>1, <3>2, <3>3
    <2>8. \A m, n \in DOMAIN tried[c] : tried[c][m].to = tried[c][n].to => m = n
      BY <2>2, <2>5, <2>6 DEF Captured
    <2> QED
      BY <2>4, <2>7, <2>8 DEF LastOf
  <1> QED
    BY <1>1, GatewayAlways, PTL
=============================================================================
