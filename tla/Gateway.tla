-------------------------------- MODULE Gateway --------------------------------
(***************************************************************************)
(* Calls of OpenAICompatibleGateway.quick_scan                             *)
(* (src/litwatch/analysis/gateway.py): the base URL is validated, its host *)
(* looked up once, the connection made to the addresses captured then, and *)
(* the request sent with the user's API key.                               *)
(*                                                                         *)
(* Meanwhile the DNS may change its mind about a host.  An address is      *)
(* public or not, and accepts a connection, refuses it or stays silent, as *)
(* it likes.  Several calls run at a time, each with a client of its own.  *)
(***************************************************************************)
EXTENDS Naturals, Sequences

CONSTANTS
    Call,     \* calls of quick_scan
    Origin,   \* host and port, as validation reads them or httpx dials them
    Address,  \* IP addresses
    Public,   \* those for which _is_public holds
    Answers,  \* the answers the resolver may give: lists of addresses
    Urls,     \* base URLs (see Url)
    None

\* A base URL, by what _validated_endpoint makes of it: "malformed" (urlsplit or
\* .port raise), "forbidden" (not https, a user, a query, localhost ...), "name"
\* (a host to look up) or "literal" (an IP address).  httpx reads the URL again
\* and may dial another origin (an internationalized name, port 0).
Url == [form : {"malformed", "forbidden", "name", "literal"}, origin : Origin,
        dialled : Origin, address : Address]

Maybe(S) == S \cup {None}

Reaction == {"accepts", "refuses", "silent"}

\* A call of the inner connect_tcp, and how the address reacted.
Attempt == [to : Address, reaction : Reaction]

\* The exception: ConnectError, ConnectTimeout.
Error(reaction) ==
    IF reaction = "refuses" THEN "upstream" ELSE IF reaction = "silent" THEN "timeout" ELSE "none"

ASSUME GatewayAssumption ==
    /\ Public \subseteq Address
    /\ Answers \subseteq Seq(Address)
    /\ Urls \subseteq Url
    /\ None \notin Answers /\ None \notin Urls /\ None \notin Seq(Address)

VARIABLES
    dns,       \* what the resolver says of an origin's host; None: it raises
    step,      \* where each call is, or how it ended
    url,       \* the base URL of each call
    addresses, \* endpoint.addresses of each call, None until validated
    tried,     \* history: the connections each call has tried (see Attempt)
    last,      \* last_error of connect_tcp
    given,     \* history: the answer of the resolver that each call got
    keyed      \* history: the addresses that got the request of each call

gatewayVars == <<dns, step, url, addresses, tried, last, given, keyed>>

Running == {"resolve", "connect", "tls", "reply"}

\* A result, InvalidBaseUrlError, GatewayTimeoutError, GatewayUpstreamError and
\* GatewayResponseError.
Ended == {"result", "invalid_url", "timeout", "upstream", "bad_response"}

-----------------------------------------------------------------------------

ElementsOf(s) == {s[n] : n \in DOMAIN s}

FirstAt(s, v) == CHOOSE n \in DOMAIN s : s[n] = v /\ \A m \in 1..(n - 1) : s[m] # v

\* dict.fromkeys: every address once, in the order of first occurrence.
Distinct(list, answer) ==
    /\ ElementsOf(list) = ElementsOf(answer)
    /\ \A m, n \in DOMAIN list : m < n =>
          list[m] # list[n] /\ FirstAt(answer, list[m]) < FirstAt(answer, list[n])

InitGateway ==
    /\ dns \in [Origin -> Maybe(Answers)]
    /\ step = [c \in Call |-> "unused"]
    /\ url = [c \in Call |-> None]
    /\ addresses = [c \in Call |-> None]
    /\ tried = [c \in Call |-> << >>]
    /\ last = [c \in Call |-> "none"]
    /\ given = [c \in Call |-> None]
    /\ keyed = [c \in Call |-> {}]

Goto(c, next) == step' = [step EXCEPT ![c] = next]

Start(c) ==
    /\ step[c] = "unused"
    /\ \E u \in Urls : url' = [url EXCEPT ![c] = u]
    /\ Goto(c, "resolve")
    /\ UNCHANGED <<dns, addresses, tried, last, given, keyed>>

\* The owner of a domain changes its records.
Rebind(origin) ==
    /\ \E answer \in Maybe(Answers) : dns' = [dns EXCEPT ![origin] = answer]
    /\ UNCHANGED <<step, url, addresses, tried, last, given, keyed>>

\* _validated_endpoint, before any lookup.
Forbid(c) ==
    /\ step[c] = "resolve"
    /\ url[c].form \in {"malformed", "forbidden"}
    /\ Goto(c, "invalid_url")
    /\ UNCHANGED <<dns, url, addresses, tried, last, given, keyed>>

\* What the resolver says of the host now; a literal address stands for itself.
Lookup(u) == IF u.form = "literal" THEN <<u.address>> ELSE dns[u.origin]

\* Faulty variant of Acceptable: one public address will do.
AcceptableIfAny(answer) ==
    answer # None /\ \E address \in ElementsOf(answer) : address \in Public

Acceptable(answer) ==
    /\ answer # None
    /\ ElementsOf(answer) # {} /\ ElementsOf(answer) \subseteq Public

\* The only lookup of the call.
Resolve(c) ==
    /\ step[c] = "resolve"
    /\ url[c].form \in {"name", "literal"}
    /\ LET answer == Lookup(url[c])
       IN  /\ given' = [given EXCEPT ![c] = answer]
           /\ IF Acceptable(answer)
              THEN /\ \E n \in 1..Len(answer) : \E list \in [1..n -> ElementsOf(answer)] :
                         /\ Distinct(list, answer)
                         /\ addresses' = [addresses EXCEPT ![c] = list]
                   /\ Goto(c, "connect")
              ELSE /\ Goto(c, "invalid_url")
                   /\ UNCHANGED addresses
    /\ UNCHANGED <<dns, url, tried, last, keyed>>

\* connect_tcp is asked for the origin that was validated.
Validated(c) == url[c].dialled = url[c].origin

\* It refuses to dial any other: ConnectError.
Mismatch(c) ==
    /\ step[c] = "connect"
    /\ ~Validated(c)
    /\ Goto(c, "upstream")
    /\ UNCHANGED <<dns, url, addresses, tried, last, given, keyed>>

Targets(c) == addresses[c]

\* Faulty variant of AfterAttempt: a timeout ends the loop.
AfterOrTimeout(reaction) ==
    IF reaction = "accepts" THEN "tls" ELSE IF reaction = "silent" THEN "timeout" ELSE "connect"

AfterAttempt(reaction) == IF reaction = "accepts" THEN "tls" ELSE "connect"

\* Faulty variant of Advance: the loop starts over.
AdvanceNot(attempts, attempt) == <<attempt>>

Advance(attempts, attempt) == Append(attempts, attempt)

\* One turn of connect_tcp's loop.
Dial(c) ==
    /\ step[c] = "connect"
    /\ Validated(c)
    /\ Len(tried[c]) < Len(Targets(c))
    /\ \E reaction \in Reaction :
          /\ tried' = [tried EXCEPT ![c] =
                          Advance(@, [to |-> Targets(c)[Len(@) + 1], reaction |-> reaction])]
          /\ last' = [last EXCEPT ![c] = Error(reaction)]
          /\ Goto(c, AfterAttempt(reaction))
    /\ UNCHANGED <<dns, url, addresses, given, keyed>>

\* raise last_error, which httpx turns into a timeout or another HTTPError.
GiveUp(c) ==
    /\ step[c] = "connect"
    /\ Validated(c)
    /\ Len(tried[c]) = Len(Targets(c))
    /\ Goto(c, last[c])
    /\ UNCHANGED <<dns, url, addresses, tried, last, given, keyed>>

\* The certificate must be one of the host; otherwise nothing is sent.
Handshake(c) ==
    /\ step[c] = "tls"
    /\ \/ /\ Goto(c, "reply")
          /\ keyed' = [keyed EXCEPT ![c] = @ \cup {tried[c][Len(tried[c])].to}]
       \/ /\ \E outcome \in {"timeout", "upstream"} : Goto(c, outcome)
          /\ UNCHANGED keyed
    /\ UNCHANGED <<dns, url, addresses, tried, last, given>>

\* Faulty variant of Reply: after a timeout the next address is tried.
ReplyOrRetry(c) ==
    /\ step[c] = "reply"
    /\ \E outcome \in {"result", "connect", "upstream", "bad_response"} : Goto(c, outcome)
    /\ UNCHANGED <<dns, url, addresses, tried, last, given, keyed>>

\* The answer: usable, none in time, a broken connection or a status other than
\* 2xx (redirects are not followed), or content that is not a QuickScan.
Reply(c) ==
    /\ step[c] = "reply"
    /\ \E outcome \in {"result", "timeout", "upstream", "bad_response"} : Goto(c, outcome)
    /\ UNCHANGED <<dns, url, addresses, tried, last, given, keyed>>

Connect(c) == Mismatch(c) \/ Dial(c) \/ GiveUp(c)

Proceed(c) == Forbid(c) \/ Resolve(c) \/ Connect(c) \/ Handshake(c) \/ Reply(c)

NextGateway ==
    \/ \E c \in Call : Start(c) \/ Proceed(c)
    \/ \E origin \in Origin : Rebind(origin)

SpecGateway == InitGateway /\ [][NextGateway]_gatewayVars

\* timeout=30 bounds every attempt to connect, so connect_tcp goes on.  Nothing is
\* assumed of the rest: getaddrinfo has no timeout, and for the reply the 30 seconds
\* are those of one operation on the socket, of which there may be any number.
FairSpecGateway == SpecGateway /\ \A c \in Call : WF_gatewayVars(Connect(c))

-----------------------------------------------------------------------------
(* What must hold.                                                          *)

\* The variables have their types.
GatewayTypeOK ==
    /\ dns \in [Origin -> Maybe(Answers)]
    /\ step \in [Call -> {"unused"} \cup Running \cup Ended]
    /\ url \in [Call -> Maybe(Urls)]
    /\ addresses \in [Call -> Maybe(Seq(Address))]
    /\ tried \in [Call -> Seq(Attempt)]
    /\ last \in [Call -> {"none", "timeout", "upstream"}]
    /\ given \in [Call -> Maybe(Seq(Address))]
    /\ keyed \in [Call -> SUBSET Address]

\* No call opens a connection to an address that is not public, whatever the DNS
\* says after the validation; a host that had any such address at that time is not
\* connected to at all, nor is an origin other than the one that was validated, if
\* httpx reads the base URL in another way than the validation did.
OnlyPublic ==
    \A c \in Call :
        /\ \A n \in DOMAIN tried[c] : tried[c][n].to \in Public
        /\ tried[c] # << >> => /\ ElementsOf(given[c]) \subseteq Public
                               /\ url[c].dialled = url[c].origin

\* The API key goes to one address at most, the last one a connection was tried
\* to: nothing is sent again elsewhere, neither after a timeout nor on a redirect.
KeyGoesOnce ==
    \A c \in Call :
        \A address \in keyed[c] :
            /\ keyed[c] = {address}
            /\ address = tried[c][Len(tried[c])].to
            /\ step[c] \in {"reply"} \cup (Ended \ {"invalid_url"})

\* A validated call that ends without a connection has tried every address the
\* resolver gave it, each once, and reports what happened at the last one.  So one
\* address that works is enough.
FailsOnlyIfUnreachable ==
    \A c \in Call :
        LET failed == step[c] \in {"timeout", "upstream"}
            connected == \E n \in DOMAIN tried[c] : tried[c][n].reaction = "accepts"
        IN  failed /\ ~connected /\ url[c].dialled = url[c].origin =>
               /\ ElementsOf(given[c]) = {tried[c][n].to : n \in DOMAIN tried[c]}
               /\ \A m, n \in DOMAIN tried[c] : tried[c][m].to = tried[c][n].to => m = n
               /\ step[c] = Error(tried[c][Len(tried[c])].reaction)

\* The loop over the addresses ends: a call does not stay in connect_tcp, however
\* many addresses a host has and however often none of them answers.
ConnectingEnds == \A c \in Call : step[c] = "connect" ~> step[c] \in Ended \cup {"tls"}
=============================================================================
