------------------------------ MODULE Importer ------------------------------
(***************************************************************************)
(* One fetch of an IMPORT cell's reference: resolved against the data base *)
(* or taken as written, authorized, sent, redirected hop by hop, and its   *)
(* body read under the cap, all of it under one deadline.  The server may  *)
(* answer anything, stall, or break off.  A host is its labels, a path its *)
(* segments; net/http (external) resolves a redirect's location.           *)
(***************************************************************************)
EXTENDS Integers, Sequences, SequencesExt

CONSTANTS
    Urls,         \* [scheme, host, path], what a server may redirect to
    References,   \* what a sheet may write, of the forms below
    Loopback,     \* hosts IsLoopback
    AllowedHosts, \* patterns [wild, labels]
    Bases,        \* [scheme, host, path] of the data bases, NoBase when there is none
    NoBase,
    MaxRedirects, \* maxRedirects
    MaxBytes,     \* Config.MaxBytes
    Longest       \* bound: the longest body

Unparsable == [form |-> "unparsable"]
HostOnly == [form |-> "hostOnly"]
Absolute(url) == [form |-> "absolute", url |-> url]
Relative(rooted, path) == [form |-> "relative", rooted |-> rooted, path |-> path]

ASSUME ImporterAssumption ==
    /\ MaxRedirects \in Nat \ {0}
    /\ {MaxBytes, Longest} \subseteq Nat
    /\ NoBase \notin Urls \cup Bases
    /\ \A b \in Bases : b = [scheme |-> b.scheme, host |-> b.host, path |-> b.path]

VARIABLES
    base,     \* Fetcher.base
    pc,       \* where Fetch stands
    ref,      \* the reference
    target,   \* the URL of the request last sent, or to be sent
    first,    \* req.URL
    fromBase, \* isFromBase, of the first request
    hops,     \* requests made, len(via) at a redirect
    length,   \* the body's length, as the server will send it
    read,     \* bytes of it read
    outcome,  \* "none", "ok", or what was refused
    reported  \* FetchResult.URL

requestVars == <<ref, target, first, fromBase>>
bodyVars == <<length, read>>
resultVars == <<outcome, reported>>
vars == <<base, pc, requestVars, hops, bodyVars, resultVars>>

None == [form |-> "none"]

FetchTypeOK ==
    /\ pc \in {"idle", "resolve", "send", "hop", "status", "body", "return"}
    /\ hops \in 0..MaxRedirects
    /\ pc \in {"hop", "status", "body"} => hops > 0
    /\ length \in 0..Longest /\ read \in 0..Longest
    /\ fromBase \in BOOLEAN
    /\ (pc = "return") = (outcome # "none")

TypeOK == base \in Bases \cup {NoBase} /\ FetchTypeOK
-----------------------------------------------------------------------------
MatchHost(pattern, host) ==
    IF pattern.wild
    THEN IsSuffix(pattern.labels, host) /\ Len(host) > Len(pattern.labels)
    ELSE host = pattern.labels

HostAllowed(host) == \E pattern \in AllowedHosts : MatchHost(pattern, host)

SchemeAllowed(url) ==
    url.scheme = "https" \/ (url.scheme = "http" /\ url.host \in Loopback)

\* path.Clean of a rooted path: ".." takes a segment away, and none at the root.
Clean(path) ==
    FoldLeft(LAMBDA kept, s :
        IF s # ".." THEN Append(kept, s) ELSE IF kept = <<>> THEN <<>> ELSE Front(kept),
        <<>>, path)

\* url.URL.ResolveReference, of a reference without a host.
ResolveReference(rooted, path) ==
    [base EXCEPT !.path = Clean(IF rooted THEN path ELSE Clean(base.path) \o path)]

\* DataBase.resolve: under the base's prefix, segment by segment.
UnderBase(url) == IsPrefix(Clean(base.path), url.path)
-----------------------------------------------------------------------------
FetchInit ==
    /\ pc = "idle"
    /\ ref = None /\ target = None /\ first = None /\ fromBase = FALSE
    /\ hops = 0
    /\ length = 0 /\ read = 0
    /\ outcome = "none" /\ reported = None

\* A base given as a URL is validated as it is built.
Init ==
    /\ base \in {b \in Bases : SchemeAllowed(b)} \cup {NoBase}
    /\ FetchInit

Goto(from, to) == pc = from /\ pc' = to

Conclude(from, result) ==
    /\ Goto(from, "return")
    /\ outcome' = result

Fetch ==
    /\ Goto("idle", "resolve")
    /\ ref' \in References
    /\ UNCHANGED <<base, target, first, fromBase, hops, bodyVars, resultVars>>

\* A request that is never built: the reference is refused before any network.
RefuseReference ==
    /\ pc = "resolve"
    /\ \/ ref \in {Unparsable, HostOnly} /\ Conclude("resolve", "url")
       \/ ref.form = "relative" /\ base = NoBase /\ Conclude("resolve", "noBase")
       \/ /\ ref.form = "relative" /\ base # NoBase
          /\ ~UnderBase(ResolveReference(ref.rooted, ref.path))
          /\ Conclude("resolve", "escape")
       \/ /\ ref.form = "absolute"
          /\ \/ ~SchemeAllowed(ref.url) /\ Conclude("resolve", "scheme")
             \/ SchemeAllowed(ref.url) /\ ~HostAllowed(ref.url.host)
                /\ Conclude("resolve", "hostDenied")
    /\ UNCHANGED <<base, requestVars, hops, bodyVars, reported>>

BuildRequest ==
    /\ Goto("resolve", "send")
    /\ \/ /\ ref.form = "relative" /\ base # NoBase
          /\ target' = ResolveReference(ref.rooted, ref.path)
          /\ UnderBase(target')
          /\ fromBase' = TRUE
       \/ /\ ref.form = "absolute"
          /\ SchemeAllowed(ref.url) /\ HostAllowed(ref.url.host)
          /\ target' = ref.url
          /\ fromBase' = FALSE
    /\ first' = target'
    /\ UNCHANGED <<base, ref, hops, bodyVars, resultVars>>

\* The server answers the request with its status and headers.
Answers ==
    /\ \/ Goto("send", "status") /\ UNCHANGED target
       \/ Goto("send", "hop") /\ target' \in Urls
    /\ hops' = hops + 1
    /\ UNCHANGED <<base, ref, first, fromBase, bodyVars, resultVars>>

Unreachable ==
    /\ Conclude("send", "fetch")
    /\ UNCHANGED <<base, requestVars, hops, bodyVars, reported>>

\* Mutated: a hop is counted only once it has been followed.
TooManyByOne == hops > MaxRedirects

TooMany == hops >= MaxRedirects

\* Mutated: the host of a hop is not looked at.
HopAllowedByScheme(url) == SchemeAllowed(url)

HopAllowed(url) == SchemeAllowed(url) /\ HostAllowed(url.host)

\* checkRedirect
RefuseRedirect ==
    /\ pc = "hop"
    /\ \/ TooMany /\ Conclude("hop", "tooManyRedirects")
       \/ ~TooMany /\ ~HopAllowed(target) /\ Conclude("hop", "redirect")
    /\ UNCHANGED <<base, requestVars, hops, bodyVars, reported>>

FollowRedirect ==
    /\ Goto("hop", "send")
    /\ ~TooMany /\ HopAllowed(target)
    /\ UNCHANGED <<base, requestVars, hops, bodyVars, resultVars>>

RefuseStatus ==
    /\ Conclude("status", "status")
    /\ reported' = first
    /\ UNCHANGED <<base, requestVars, hops, bodyVars>>

AcceptStatus ==
    /\ Goto("status", "body")
    /\ length' \in 0..Longest
    /\ UNCHANGED <<base, requestVars, hops, read, resultVars>>

\* Mutated: the limit is the cap itself.
LimitAtCap == MaxBytes

Limit == MaxBytes + 1

\* Some bytes of the body; io.LimitReader ends it one past the cap.
ReadBody ==
    /\ pc = "body"
    /\ \E n \in (read + 1)..length : n <= Limit /\ read' = n
    /\ UNCHANGED <<base, pc, requestVars, hops, length, resultVars>>

\* The body, or the limit, is at its end: the cap and then the Content-Type.
BodyEnds ==
    /\ read = length \/ read = Limit
    /\ \E result \in IF read > MaxBytes THEN {"tooLarge"} ELSE {"ok", "contentType"} :
        Conclude("body", result)
    /\ reported' = first
    /\ UNCHANGED <<base, requestVars, hops, bodyVars>>

BodyBreaksOff ==
    /\ Conclude("body", "read")
    /\ reported' = first
    /\ UNCHANGED <<base, requestVars, hops, bodyVars>>

\* Mutated: the deadline is the request's, and the body has none.
TimeOutSending ==
    /\ Conclude("send", "fetch")
    /\ UNCHANGED <<base, requestVars, hops, bodyVars, reported>>

\* The deadline of contextFor passes: while sending, or in the body.
TimeOut ==
    /\ Conclude("send", "fetch") \/ Conclude("body", "read")
    /\ reported' = IF pc = "body" THEN first ELSE reported
    /\ UNCHANGED <<base, requestVars, hops, bodyVars>>

Return ==
    /\ Goto("return", "idle")
    /\ ref' = None /\ target' = None /\ first' = None /\ fromBase' = FALSE
    /\ hops' = 0 /\ length' = 0 /\ read' = 0
    /\ outcome' = "none" /\ reported' = None
    /\ UNCHANGED base

Server == Answers \/ Unreachable \/ ReadBody \/ BodyBreaksOff

Fetcher ==
    \/ RefuseReference \/ BuildRequest
    \/ RefuseRedirect \/ FollowRedirect
    \/ RefuseStatus \/ AcceptStatus \/ BodyEnds
    \/ Return

Next == Fetch \/ Fetcher \/ Server \/ TimeOut

Spec == Init /\ [][Next]_vars

\* The fetcher runs on and its deadline passes; a server need not do a thing.
FairSpec == Spec /\ WF_vars(Fetcher) /\ WF_vars(TimeOut)
-----------------------------------------------------------------------------
\* "every hop is re-validated": a request goes only to a URL the policy permits,
\* at whichever hop, but for the first of a relative reference, which goes under
\* the base.
OnlyPermitted ==
    pc = "send" =>
        IF fromBase /\ hops = 0
        THEN UnderBase(target) /\ [target EXCEPT !.path = base.path] = base
        ELSE SchemeAllowed(target) /\ HostAllowed(target.host)

\* "rejects the whole body (never a truncation)": a fetch that succeeds has the
\* body to its end, within the cap, and one that fails read one byte past it at
\* the most.
WholeWithinCap ==
    /\ read <= MaxBytes + 1
    /\ outcome = "ok" => read = length /\ length <= MaxBytes
    /\ outcome = "tooLarge" => length > MaxBytes

\* What makes it so, whatever the server: redirects are counted, a request is sent
\* only while there is one left, and no more is read than was sent.
FetchInOrder ==
    /\ pc \in {"idle", "resolve"} => hops = 0 /\ ~fromBase
    /\ pc = "send" => hops < MaxRedirects
    /\ pc \notin {"body", "return"} => read = 0
    /\ read <= length
    /\ fromBase => base # NoBase

\* The deadline "bounds the whole exchange": a fetch comes to an end, whatever
\* the servers do or do not do.
FetchEnds == pc = "resolve" ~> pc = "return"

\* maxRedirects is 5 and "caps the redirect hops a single Fetch will follow
\* before refusing": one refused for their number has followed that many.
FollowsMaxRedirects == outcome = "tooManyRedirects" => hops - 1 >= MaxRedirects

\* "Report where it actually went so EXPLAIN can show it": the URL reported is
\* the one that sent the body.
ReportsWhereItWent == outcome = "ok" => reported = target
=============================================================================
