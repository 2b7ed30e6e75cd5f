----------------------------- MODULE RedirectChain -----------------------------
(***************************************************************************)
(* What a redirect chain carries from hop to hop: buildRedirectHop, and the *)
(* upload meter that executeRequest puts around the body of each hop. The  *)
(* server picks every status and Location. How long a chain may get, and   *)
(* what else may happen to it meanwhile, is RequestLifecycle's matter.     *)
(***************************************************************************)
EXTENDS Naturals

CONSTANTS
  Hosts,               \* host names
  IsSubdomainName(_, _), \* one is a subdomain of the other
  Ports,               \* ports as they show in URL#host ("" when default)
  Statuses,            \* the 3xx statuses servers answer with
  Starts,              \* the requests the environment picks from
  HookResults          \* what a beforeRedirect may turn a hop into

Urls == [scheme: {"http", "https"}, host: Hosts, port: Ports]
Methods == {"GET", "HEAD", "POST", "PUT"}

\* "text" stands for a string or Buffer, "stream" for anything with a pipe();
\* "form" is what the caller gave: a FormData to be sent as multipart.
Bodies == {"none", "text", "stream"}
GivenBodies == Bodies \cup {"form"}

\* One header of each kind the code tells apart; "content" is any Content-*.
Headers == {"authorization", "token", "content", "host", "accept"}
SensitiveRedirectHeaders == {"authorization"}

\* named: config.sensitiveHeaders; metered: an upload meter is asked for.
StartType ==
  [url: Urls, method: Methods, body: GivenBodies, headers: SUBSET Headers,
   named: SUBSET {"authorization", "token"}, metered: BOOLEAN,
   hook: {"none", "throws", "rewrites"}]

ASSUME StartAssumption == Starts \subseteq StartType
ASSUME HookAssumption == HookResults \subseteq [url: Urls, method: Methods, headers: SUBSET Headers]
ASSUME SubdomainAssumption ==
  \A a, b, c \in Hosts :
    IsSubdomainName(c, b) /\ IsSubdomainName(b, a) => IsSubdomainName(c, a)

VARIABLES
  first,    \* the request as it was given (fixed)
  url,      \* currentUrl
  method,   \* currentOptions.method
  headers,  \* currentOptions.headers
  body,     \* currentOptions.body
  wire,     \* the body undici was given for the hop in flight
  later,    \* the hop in flight is not the first
  state     \* "flying", "over", or why the chain was given up

vars == <<first, url, method, headers, body, wire, later, state>>

\* Mutant of Prepared: the meter is put around a string once and for all.
PreparedMetered(b) ==
  IF b = "form" \/ (first.metered /\ b # "none") THEN "stream" ELSE b

\* The body as it is given to the chain: a FormData is encoded into a stream,
\* a stream is metered and its length is checked as it flows.
Prepared(b) == IF b = "form" THEN "stream" ELSE b

\* dispatchBody: a resendable body is metered afresh for each hop; a metered
\* body is a stream of its own.
DispatchBody(b) == IF first.metered /\ b = "text" THEN "stream" ELSE b

Init ==
  /\ first \in Starts
  /\ url = first.url
  /\ method = first.method
  /\ headers = first.headers
  /\ body = Prepared(first.body)
  /\ wire = DispatchBody(body)
  /\ later = FALSE
  /\ state = "flying"

-----------------------------------------------------------------------------
(***************************************************************************)
(* buildRedirectHop.                                                       *)
(***************************************************************************)

DropBody(status, m) ==
  \/ status \in {301, 302} /\ m = "POST"
  \/ status = 303 /\ m \notin {"GET", "HEAD"}

\* URL#host is the name and the port, so a subdomain is one at the same port.
SameHost(from, to) == to.host = from.host /\ to.port = from.port
IsSubdomain(sub, of) == IsSubdomainName(sub.host, of.host) /\ sub.port = of.port

\* Mutant of ShouldStripSensitiveHeaders: an upgrade is asked for, not a downgrade.
ShouldStripOnUpgrade(from, to) ==
  \/ to.scheme # from.scheme /\ to.scheme = "https"
  \/ ~SameHost(from, to) /\ ~IsSubdomain(to, from)

ShouldStripSensitiveHeaders(from, to) ==
  \/ to.scheme # from.scheme /\ to.scheme # "https"
  \/ ~SameHost(from, to) /\ ~IsSubdomain(to, from)

IsSameOrigin(from, to) == to.scheme = from.scheme /\ SameHost(from, to)

\* The headers that do not follow from one URL to the next.
Sensitive(from, to) ==
  IF ShouldStripSensitiveHeaders(from, to)
    THEN SensitiveRedirectHeaders \cup first.named
  ELSE IF ~IsSameOrigin(from, to) THEN first.named
  ELSE {}

\* Mutant of HeadersFor: Content-* headers outlive the body they describe.
HeadersForAnyBody(to, drop) == (headers \ {"host"}) \ Sensitive(url, to)

HeadersFor(to, drop) ==
  ((IF drop THEN headers \ {"content"} ELSE headers) \ {"host"}) \ Sensitive(url, to)

\* A one-shot stream cannot be sent again.
CannotResend(status) == ~DropBody(status, method) /\ body = "stream"

\* The hop is dispatched.
Hop(to, m, hs, b) ==
  /\ url' = to
  /\ method' = m
  /\ headers' = hs
  /\ body' = b
  /\ wire' = DispatchBody(b)
  /\ later' = TRUE
  /\ UNCHANGED <<first, state>>

GiveUp(why) ==
  /\ state' = why
  /\ UNCHANGED <<first, url, method, headers, body, wire, later>>

\* No beforeRedirect.
Follow(status, to) ==
  LET drop == DropBody(status, method) IN
  /\ first.hook = "none"
  /\ ~CannotResend(status)
  /\ Hop(to, IF drop THEN "GET" ELSE method, HeadersFor(to, drop),
         IF drop THEN "none" ELSE body)

\* beforeRedirect may change everything but the body.
FollowRewritten(status) ==
  /\ first.hook = "rewrites"
  /\ ~CannotResend(status)
  /\ \E result \in HookResults :
       Hop(result.url, result.method, result.headers,
           IF DropBody(status, method) THEN "none" ELSE body)

\* buildRedirectHop throws: a Location that is no URL, a body that cannot be
\* resent, or beforeRedirect - its exception, or the URL it leaves behind.
Fails(status) ==
  \/ GiveUp("location")
  \/ CannotResend(status) /\ GiveUp("streamed")
  \/ first.hook = "throws" /\ ~CannotResend(status) /\ GiveUp("hook")

\* A redirect response arrives.
Redirect(status, to) ==
  /\ state = "flying"
  /\ \/ Follow(status, to)
     \/ FollowRewritten(status)
     \/ Fails(status)

\* Any other response.
Respond == state = "flying" /\ GiveUp("over")

Next ==
  \/ \E status \in Statuses, to \in Urls : Redirect(status, to)
  \/ Respond

Spec == Init /\ [][Next]_vars

-----------------------------------------------------------------------------
(***************************************************************************)
(* Properties.                                                             *)
(***************************************************************************)

\* Types.
TypeOK ==
  /\ first \in Starts
  /\ url \in Urls
  /\ method \in Methods
  /\ headers \in SUBSET Headers
  /\ body \in Bodies
  /\ wire \in Bodies
  /\ later \in BOOLEAN
  /\ state \in {"flying", "over", "streamed", "location", "hook"}

Untouched == first.hook # "rewrites"

\* Unless beforeRedirect puts them back, credentials only ever reach the host
\* they were meant for and its subdomains, at the same port, and never travel
\* in the clear if they did not from the start - over any number of hops.
CredentialsStayHome ==
  Untouched /\ "authorization" \in headers =>
    /\ SameHost(first.url, url) \/ IsSubdomain(url, first.url)
    /\ first.url.scheme = "https" => url.scheme = "https"

\* A header named in sensitiveHeaders never leaves the origin it was meant for,
\* not even by way of a subdomain and back.
NamedHeadersStayAtOrigin ==
  Untouched => \A h \in first.named \cap headers : IsSameOrigin(first.url, url)

\* A hop without the body the request had is a GET without a trace of it; a hop
\* that still has it has the request's own method.
BodyAndMethodAgree ==
  Untouched =>
    /\ body # Prepared(first.body) =>
         body = "none" /\ method = "GET" /\ "content" \notin headers
    /\ body # "none" => method = first.method

\* No secret of the first request reaches whoever it was not meant for.
SecretsStayHome == CredentialsStayHome /\ NamedHeadersStayAtOrigin

\* A body that can be read only once is sent only once. A body that can be sent
\* again never stands in the way of a redirect: measuring the upload of a string
\* does not turn it into a stream, and still measures every hop that carries it.
ResentBodyIsFresh ==
  /\ later => body # "stream"
  /\ first.body \in {"none", "text"} => state # "streamed"
  /\ first.metered => wire # "text"

\* A FormData is no stream: a redirect that keeps the body sends it again, as the
\* docs of maxRedirects and the comment on createStreamRedirectError have it. The
\* code encodes it into a Readable first, so this does not hold.
FormsAreSentAgain == first.body = "form" => state # "streamed"
=============================================================================
