------------------------- MODULE RedirectChain_proofs -------------------------
(***************************************************************************)
(* What a redirect chain carries, for any hosts, ports, statuses, requests *)
(* and hooks: the invariants of RedirectChain hold of every chain. Each is  *)
(* kept by one hop; all but ResentBodyIsFresh are inductive next to the    *)
(* types, which needs BodyKeptOrDropped besides.                           *)
(***************************************************************************)
EXTENDS RedirectChain, TLAPS

\* The body in hand is the one the chain began with, or none.
BodyKeptOrDropped == body \in {Prepared(first.body), "none"}

ChainInv ==
  /\ TypeOK
  /\ CredentialsStayHome
  /\ NamedHeadersStayAtOrigin
  /\ BodyAndMethodAgree
  /\ BodyKeptOrDropped
  /\ ResentBodyIsFresh

-----------------------------------------------------------------------------
(***************************************************************************)
(* What one hop does, on its own.                                          *)
(***************************************************************************)

\* A request that can be given has the type of requests (StartAssumption).
LEMMA FirstType == TypeOK => first \in StartType
  BY StartAssumption DEF TypeOK

\* A step either keeps the request in flight and all it carries, follows the
\* Location without a hook, or lets the hook decide.
LEMMA StepCases ==
  ASSUME [Next]_vars
  PROVE  \/ UNCHANGED <<first, url, method, headers, body, wire, later>>
         \/ \E status \in Statuses, to \in Urls : state = "flying" /\ Follow(status, to)
         \/ \E status \in Statuses : state = "flying" /\ FollowRewritten(status)
  BY DEF Next, Redirect, Respond, Fails, GiveUp, vars

\* Being at home - at a host or below it, at its port - is transitive.
LEMMA HomeTransitive ==
  ASSUME NEW a \in Urls, NEW b \in Urls, NEW c \in Urls,
         SameHost(a, b) \/ IsSubdomain(b, a),
         SameHost(b, c) \/ IsSubdomain(c, b)
  PROVE  SameHost(a, c) \/ IsSubdomain(c, a)
<1>1. a.host \in Hosts /\ b.host \in Hosts /\ c.host \in Hosts
  BY DEF Urls
<1>2. CASE SameHost(a, b)
  BY <1>2 DEF SameHost, IsSubdomain
<1>3. CASE IsSubdomain(b, a) /\ SameHost(b, c)
  BY <1>3 DEF SameHost, IsSubdomain
<1>4. CASE IsSubdomain(b, a) /\ IsSubdomain(c, b)
  BY <1>1, <1>4, SubdomainAssumption DEF IsSubdomain
<1>5. QED
  BY <1>2, <1>3, <1>4

-----------------------------------------------------------------------------
(***************************************************************************)
(* Each invariant across a hop.                                            *)
(***************************************************************************)

\* Types: a step leaves every variable in its type.
LEMMA TypeKept == TypeOK /\ [Next]_vars => TypeOK'
<1> SUFFICES ASSUME TypeOK, [Next]_vars PROVE TypeOK'
  OBVIOUS
<1>1. first \in StartType
  BY FirstType
<1>2. CASE UNCHANGED vars
  BY <1>2 DEF TypeOK, vars
<1>3. CASE Respond
  BY <1>3 DEF TypeOK, Respond, GiveUp
<1>4. ASSUME NEW status \in Statuses, NEW to \in Urls, state = "flying", Follow(status, to)
      PROVE  TypeOK'
  <2>1. url' \in Urls /\ headers' \in SUBSET Headers
    BY <1>4 DEF TypeOK, Follow, Hop, HeadersFor
  <2>2. method' \in Methods
    BY <1>4 DEF TypeOK, Follow, Hop, Methods
  <2>3. body' \in Bodies /\ wire' \in Bodies
    BY <1>4 DEF TypeOK, Follow, Hop, DispatchBody, Bodies
  <2>4. QED
    BY <1>4, <2>1, <2>2, <2>3 DEF TypeOK, Follow, Hop
<1>5. ASSUME NEW status \in Statuses, state = "flying", FollowRewritten(status)
      PROVE  TypeOK'
  <2>1. PICK result \in HookResults :
          Hop(result.url, result.method, result.headers,
              IF DropBody(status, method) THEN "none" ELSE body)
    BY <1>5 DEF FollowRewritten
  <2>2. /\ result.url \in Urls
        /\ result.method \in Methods
        /\ result.headers \in SUBSET Headers
    BY HookAssumption
  <2>3. body' \in Bodies /\ wire' \in Bodies
    BY <2>1 DEF TypeOK, Hop, DispatchBody, Bodies
  <2>4. QED
    BY <2>1, <2>2, <2>3 DEF TypeOK, Hop
<1>6. ASSUME NEW status \in Statuses, Fails(status)
      PROVE  TypeOK'
  BY <1>6 DEF TypeOK, Fails, GiveUp
<1>7. QED
  BY <1>2, <1>3, <1>4, <1>5, <1>6 DEF Next, Redirect

\* Credentials that were at home before a hop are at home after it.
LEMMA CredentialsKept ==
  TypeOK /\ CredentialsStayHome /\ [Next]_vars => CredentialsStayHome'
<1> SUFFICES ASSUME TypeOK, CredentialsStayHome, [Next]_vars,
                    Untouched', "authorization" \in headers'
             PROVE  /\ SameHost(first.url, url)' \/ IsSubdomain(url, first.url)'
                    /\ (first.url.scheme = "https" => url.scheme = "https")'
  BY DEF CredentialsStayHome
<1>1. CASE UNCHANGED <<first, url, method, headers, body, wire, later>>
  BY <1>1 DEF CredentialsStayHome, Untouched, SameHost, IsSubdomain
<1>2. ASSUME NEW status \in Statuses, NEW to \in Urls, Follow(status, to)
      PROVE  /\ SameHost(first.url, url)' \/ IsSubdomain(url, first.url)'
             /\ (first.url.scheme = "https" => url.scheme = "https")'
  <2>1. first' = first /\ url' = to /\ headers' = HeadersFor(to, DropBody(status, method))
    BY <1>2 DEF Follow, Hop
  <2>2. "authorization" \in headers /\ "authorization" \notin Sensitive(url, to)
    BY <2>1 DEF HeadersFor
  <2>3. ~ShouldStripSensitiveHeaders(url, to)
    BY <2>2 DEF Sensitive, SensitiveRedirectHeaders
  <2>4. /\ SameHost(first.url, url) \/ IsSubdomain(url, first.url)
        /\ first.url.scheme = "https" => url.scheme = "https"
    BY <2>1, <2>2 DEF CredentialsStayHome, Untouched
  <2>5. /\ SameHost(url, to) \/ IsSubdomain(to, url)
        /\ url.scheme = "https" => to.scheme = "https"
    BY <2>3 DEF ShouldStripSensitiveHeaders
  <2>6. first.url \in Urls /\ url \in Urls
    BY FirstType DEF TypeOK, StartType
  <2>7. SameHost(first.url, to) \/ IsSubdomain(to, first.url)
    BY <2>4, <2>5, <2>6, HomeTransitive
  <2>8. QED
    BY <2>1, <2>4, <2>5, <2>7 DEF SameHost, IsSubdomain
<1>3. ASSUME NEW status \in Statuses, FollowRewritten(status)
      PROVE  FALSE
  BY <1>3 DEF FollowRewritten, Hop, Untouched
<1>4. QED
  BY <1>1, <1>2, <1>3, StepCases

\* A header that sensitiveHeaders names is still at its origin after a hop.
LEMMA NamedHeadersKept ==
  NamedHeadersStayAtOrigin /\ [Next]_vars => NamedHeadersStayAtOrigin'
<1> SUFFICES ASSUME NamedHeadersStayAtOrigin, [Next]_vars, Untouched',
                    NEW h \in first.named', h \in headers'
             PROVE  IsSameOrigin(first.url, url)'
  BY DEF NamedHeadersStayAtOrigin
<1>1. CASE UNCHANGED <<first, url, method, headers, body, wire, later>>
  BY <1>1 DEF NamedHeadersStayAtOrigin, Untouched, IsSameOrigin, SameHost
<1>2. ASSUME NEW status \in Statuses, NEW to \in Urls, Follow(status, to)
      PROVE  IsSameOrigin(first.url, url)'
  <2>1. first' = first /\ url' = to /\ headers' = HeadersFor(to, DropBody(status, method))
    BY <1>2 DEF Follow, Hop
  <2>2. h \in headers /\ h \in first.named /\ h \notin Sensitive(url, to)
    BY <2>1 DEF HeadersFor
  <2>3. IsSameOrigin(first.url, url)
    BY <2>1, <2>2 DEF NamedHeadersStayAtOrigin, Untouched
  <2>4. IsSameOrigin(url, to)
    BY <2>2 DEF Sensitive
  <2>5. QED
    BY <2>1, <2>3, <2>4 DEF IsSameOrigin, SameHost
<1>3. ASSUME NEW status \in Statuses, FollowRewritten(status)
      PROVE  FALSE
  BY <1>3 DEF FollowRewritten, Hop, Untouched
<1>4. QED
  BY <1>1, <1>2, <1>3, StepCases

\* Method, body and Content-* headers still agree after a hop.
LEMMA BodyAndMethodKept == BodyAndMethodAgree /\ [Next]_vars => BodyAndMethodAgree'
<1> SUFFICES ASSUME BodyAndMethodAgree, [Next]_vars, Untouched'
             PROVE  /\ (body # Prepared(first.body))' =>
                         body' = "none" /\ method' = "GET" /\ "content" \notin headers'
                    /\ body' # "none" => method' = first.method'
  BY DEF BodyAndMethodAgree
<1>1. CASE UNCHANGED <<first, url, method, headers, body, wire, later>>
  BY <1>1 DEF BodyAndMethodAgree, Untouched, Prepared
<1>2. ASSUME NEW status \in Statuses, NEW to \in Urls, Follow(status, to)
      PROVE  /\ (body # Prepared(first.body))' =>
                  body' = "none" /\ method' = "GET" /\ "content" \notin headers'
             /\ body' # "none" => method' = first.method'
  <2>1. /\ first' = first
        /\ headers' = HeadersFor(to, DropBody(status, method))
        /\ method' = IF DropBody(status, method) THEN "GET" ELSE method
        /\ body' = IF DropBody(status, method) THEN "none" ELSE body
    BY <1>2 DEF Follow, Hop
  <2>2. Untouched
    BY <2>1 DEF Untouched
  <2>3. CASE DropBody(status, method)
    BY <2>1, <2>3 DEF HeadersFor
  <2>4. CASE ~DropBody(status, method)
    BY <2>1, <2>2, <2>4 DEF HeadersFor, BodyAndMethodAgree, Prepared
  <2>5. QED
    BY <2>3, <2>4
<1>3. ASSUME NEW status \in Statuses, FollowRewritten(status)
      PROVE  FALSE
  BY <1>3 DEF FollowRewritten, Hop, Untouched
<1>4. QED
  BY <1>1, <1>2, <1>3, StepCases

\* The body a hop has is the chain's or none, whatever the hook did.
LEMMA BodyStepKept == BodyKeptOrDropped /\ [Next]_vars => BodyKeptOrDropped'
<1> SUFFICES ASSUME BodyKeptOrDropped, [Next]_vars PROVE BodyKeptOrDropped'
  OBVIOUS
<1>1. first' = first /\ body' \in {body, "none"}
  BY StepCases DEF Follow, FollowRewritten, Hop
<1>2. QED
  BY <1>1 DEF BodyKeptOrDropped, Prepared

\* A stream is not sent twice, and a string is not refused.
LEMMA FreshKept ==
  TypeOK /\ BodyKeptOrDropped /\ ResentBodyIsFresh /\ [Next]_vars => ResentBodyIsFresh'
<1> SUFFICES ASSUME TypeOK, BodyKeptOrDropped, ResentBodyIsFresh, [Next]_vars
             PROVE  ResentBodyIsFresh'
  OBVIOUS
<1>1. ASSUME NEW status \in Statuses, NEW to, NEW m, NEW hs, NEW b,
             Hop(to, m, hs, b), b # "stream", state = "flying"
      PROVE  ResentBodyIsFresh'
  BY <1>1 DEF Hop, ResentBodyIsFresh, DispatchBody
<1>2. CASE Respond \/ UNCHANGED vars
  BY <1>2 DEF Respond, GiveUp, vars, ResentBodyIsFresh
<1>3. ASSUME NEW status \in Statuses, NEW to \in Urls, state = "flying", Follow(status, to)
      PROVE  ResentBodyIsFresh'
  BY <1>1, <1>3 DEF Follow, CannotResend
<1>4. ASSUME NEW status \in Statuses, state = "flying", FollowRewritten(status)
      PROVE  ResentBodyIsFresh'
  <2>1. PICK result \in HookResults :
          Hop(result.url, result.method, result.headers,
              IF DropBody(status, method) THEN "none" ELSE body)
    BY <1>4 DEF FollowRewritten
  <2>2. QED
    BY <1>1, <1>4, <2>1 DEF FollowRewritten, CannotResend
<1>5. ASSUME NEW status \in Statuses, Fails(status)
      PROVE  ResentBodyIsFresh'
  <2>1. CASE GiveUp("location") \/ GiveUp("hook")
    BY <2>1 DEF GiveUp, ResentBodyIsFresh
  <2>2. CASE CannotResend(status) /\ GiveUp("streamed")
    <3>1. first.body \notin {"none", "text"}
      BY <2>2 DEF CannotResend, BodyKeptOrDropped, Prepared
    <3>2. QED
      BY <2>2, <3>1 DEF GiveUp, ResentBodyIsFresh
  <2>3. QED
    BY <1>5, <2>1, <2>2 DEF Fails
<1>6. QED
  BY <1>2, <1>3, <1>4, <1>5 DEF Next, Redirect

-----------------------------------------------------------------------------
(***************************************************************************)
(* The theorems.                                                           *)
(***************************************************************************)

\* The chain's invariant holds from the first request on.
LEMMA ChainInvInit == Init => ChainInv
<1> SUFFICES ASSUME Init PROVE ChainInv
  OBVIOUS
<1>1. first \in StartType
  BY StartAssumption DEF Init
<1>2. TypeOK
  BY <1>1 DEF Init, TypeOK, StartType, GivenBodies, Bodies, Prepared, DispatchBody
<1>3. CredentialsStayHome /\ NamedHeadersStayAtOrigin
  BY DEF Init, CredentialsStayHome, NamedHeadersStayAtOrigin, SameHost, IsSameOrigin
<1>4. BodyAndMethodAgree /\ BodyKeptOrDropped
  BY DEF Init, BodyAndMethodAgree, BodyKeptOrDropped
<1>5. ResentBodyIsFresh
  BY DEF Init, ResentBodyIsFresh, DispatchBody
<1>6. QED
  BY <1>2, <1>3, <1>4, <1>5 DEF ChainInv

\* Every chain keeps the invariant: what each of its parts says holds over any
\* number of hops, for every server.
THEOREM ChainInvariant == Spec => []ChainInv
<1>1. ChainInv /\ [Next]_vars => ChainInv'
  BY TypeKept, CredentialsKept, NamedHeadersKept, BodyAndMethodKept, BodyStepKept, FreshKept
     DEF ChainInv
<1>2. QED
  BY ChainInvInit, <1>1, PTL DEF Spec

\* Every variable keeps its type.
THEOREM ChainTypeCorrect == Spec => []TypeOK
<1>1. ChainInv => TypeOK
  BY DEF ChainInv
<1>2. QED
  BY ChainInvariant, <1>1, PTL

\* Without a hook, Authorization only reaches the host it was meant for and
\* those below it, and never in the clear if it began encrypted; a header of
\* sensitiveHeaders never leaves its origin.
THEOREM SecretsHome == Spec => []SecretsStayHome
<1>1. ChainInv => SecretsStayHome
  BY DEF ChainInv, SecretsStayHome
<1>2. QED
  BY ChainInvariant, <1>1, PTL

\* Without a hook, method, body and Content-* headers of a hop agree.
THEOREM BodyAgrees == Spec => []BodyAndMethodAgree
<1>1. ChainInv => BodyAndMethodAgree
  BY DEF ChainInv
<1>2. QED
  BY ChainInvariant, <1>1, PTL

\* A stream is sent once, a string never stops a redirect, a meter sees each hop.
THEOREM ResentFresh == Spec => []ResentBodyIsFresh
<1>1. ChainInv => ResentBodyIsFresh
  BY DEF ChainInv
<1>2. QED
  BY ChainInvariant, <1>1, PTL
=============================================================================
