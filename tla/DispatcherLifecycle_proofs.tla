----------------------- MODULE DispatcherLifecycle_proofs -----------------------
(***************************************************************************)
(* Proofs about DispatcherLifecycle: types, the four safety invariants and *)
(* the action property, for any requests, module configurations, socket    *)
(* paths, application dispatchers and size of the cache.                   *)
(***************************************************************************)
EXTENDS DispatcherLifecycle, SequenceTheorems, TLAPS

(***************************************************************************)
(* The inductive invariant.                                                *)
(***************************************************************************)

\* The dispatcher in effect is the application's, the built one, or the default
\* Agent; the built one is in effect as long as it is customDispatcher.
OwnShape ==
  /\ instance \in Given \cup {Built, None}
  /\ custom # None => instance = custom
  /\ closed \cap Given = {}

\* Entries of the cache.
Entry == [path: Paths, agent: Agents]

\* A cache whose Agents are distinct and numbered up to n.
Numbered(c, n) ==
  /\ \A i \in 1 .. Len(c) : c[i].agent <= n
  /\ \A i, j \in 1 .. Len(c) : i # j => c[i].agent # c[j].agent

\* Agents are numbered as they are built, cached once, and closed when they
\* leave the cache.
CacheShape ==
  /\ Len(cache) <= MaxPaths
  /\ Numbered(cache, agents)
  /\ \A a \in Agents : a \in closed => a <= agents
  /\ \A a \in 1 .. agents : a \in closed \/ \E i \in DOMAIN cache : cache[i].agent = a

\* A grace period starts with close(); once close() has resolved, nothing gets
\* onto that dispatcher any more.
GraceShape ==
  \A d \in Dispatchers :
    /\ grace[d] # "none" => d \in closed
    /\ grace[d] = "finished" => Idle(d)

\* A stream handed out in time is in the set its dispatcher was closed with, and
\* aborted when that grace period has elapsed.
StreamShape ==
  \A r \in Requests :
    /\ req[r] = "cold" => r \notin aborted
    /\ r \in aborted => via[r] \notin Given
    /\ req[r] \in {"flying", "hopping", "stream", "loose"} => via[r] \in Dispatchers
    /\ req[r] = "stream" => via[r] \in tables
    /\ req[r] = "stream" /\ r \notin late =>
         /\ grace[via[r]] # "none" => via[r] \in sees
         /\ grace[via[r]] = "elapsed" => r \in aborted

\* Before shutdown nothing that a request can be given has been closed.
OpenShape ==
  service = "up" =>
    /\ instance # None => instance \notin closed
    /\ instance = None => Default \notin closed
    /\ \A i \in DOMAIN cache : cache[i].agent \notin closed
    /\ \A r \in Requests : req[r] # "refused"

\* What shutdown waited for has settled.
DownShape ==
  /\ service # "up" => Default \in closed
  /\ service = "down" => \A d \in awaited : grace[d] \in {"finished", "elapsed"}

IInv == OwnShape /\ CacheShape /\ GraceShape /\ StreamShape /\ OpenShape /\ DownShape

(***************************************************************************)
(* What several steps need.                                                *)
(***************************************************************************)

\* The dispatchers of the service are not the application's, and Agents are
\* neither.
LEMMA Distinct ==
  /\ None \notin Dispatchers
  /\ Default \in Dispatchers /\ Built \in Dispatchers /\ Given \subseteq Dispatchers
  /\ Agents \subseteq Dispatchers
  /\ Default \notin Given /\ Built \notin Given /\ Default # Built
  /\ \A a \in Agents : a \notin Given /\ a # Default /\ a # Built
BY DistinctAssumption, CapsAssumption DEF Dispatchers, Agents

\* A new entry: Agents stay distinct.
LEMMA Grown ==
  ASSUME NEW c \in Seq(Entry), NEW n \in Nat, Numbered(c, n), NEW e \in Entry, e.agent = n + 1
  PROVE  /\ Append(c, e) \in Seq(Entry) /\ Len(Append(c, e)) = Len(c) + 1
         /\ Numbered(Append(c, e), n + 1)
         /\ \A i \in 1 .. Len(c) : Append(c, e)[i] = c[i]
         /\ Append(c, e)[Len(c) + 1] = e
<1> DEFINE new == Append(c, e)
<1>1. /\ new \in Seq(Entry) /\ Len(new) = Len(c) + 1 /\ Len(c) \in Nat
      /\ \A i \in 1 .. Len(c) : new[i] = c[i]
      /\ new[Len(c) + 1] = e
  BY AppendProperties, LenProperties
<1>2. \A i \in 1 .. Len(c) : c[i] \in Entry /\ c[i].agent \in Nat /\ c[i].agent <= n
  <2> SUFFICES ASSUME NEW i \in 1 .. Len(c) PROVE c[i] \in Entry /\ c[i].agent \in Nat /\ c[i].agent <= n
    OBVIOUS
  <2>1. c[i] \in Entry
    BY ElementOfSeq
  <2> QED BY <2>1, CapsAssumption DEF Entry, Agents, Numbered
<1> HIDE DEF new
<1>3. ASSUME NEW i \in 1 .. Len(new) PROVE new[i].agent <= n + 1
  <2>1. CASE i = Len(c) + 1
    BY <1>1, <2>1
  <2>2. CASE i \in 1 .. Len(c)
    BY <1>1, <1>2, <2>2
  <2> QED BY <1>1, <2>1, <2>2
<1>4. ASSUME NEW i \in 1 .. Len(new), NEW j \in 1 .. Len(new), i < j PROVE new[i].agent # new[j].agent
  <2>1. i \in 1 .. Len(c) /\ new[i] = c[i]
    BY <1>1, <1>4
  <2>2. CASE j = Len(c) + 1
    BY <1>1, <1>2, <2>1, <2>2
  <2>3. CASE j \in 1 .. Len(c)
    BY <1>1, <1>4, <2>1, <2>3 DEF Numbered
  <2> QED BY <1>1, <2>2, <2>3
<1>5. \A i, j \in 1 .. Len(new) : i # j => new[i].agent # new[j].agent
  <2> SUFFICES ASSUME NEW i \in 1 .. Len(new), NEW j \in 1 .. Len(new), i # j
               PROVE  new[i].agent # new[j].agent
    OBVIOUS
  <2>1. i < j \/ j < i
    BY <1>1
  <2> QED BY <1>4, <2>1
<1>6. Numbered(new, n + 1)
  BY <1>3, <1>5 DEF Numbered
<1> QED BY <1>1, <1>6 DEF new

\* The oldest entry goes: its Agent is the only one that is left out.
LEMMA Shrunk ==
  ASSUME NEW c \in Seq(Entry), NEW n \in Nat, Numbered(c, n), Len(c) >= 1
  PROVE  /\ Tail(c) \in Seq(Entry) /\ Len(Tail(c)) = Len(c) - 1
         /\ Numbered(Tail(c), n)
         /\ \A i \in 1 .. Len(Tail(c)) : /\ i + 1 \in 1 .. Len(c) /\ Tail(c)[i] = c[i + 1]
                                         /\ Tail(c)[i].agent # Head(c).agent
         /\ \A i \in 1 .. Len(c) : c[i].agent # Head(c).agent =>
              i - 1 \in 1 .. Len(Tail(c)) /\ Tail(c)[i - 1] = c[i]
         /\ Head(c) \in Entry /\ Head(c).agent <= n
<1> DEFINE t == Tail(c)
<1>1. Len(c) \in Nat /\ c # <<>> /\ Head(c) = c[1]
  BY LenProperties
<1>2. /\ Head(c) \in Entry /\ t \in Seq(Entry) /\ Len(t) = Len(c) - 1
      /\ \A i \in 1 .. Len(t) : t[i] = c[i + 1]
  BY <1>1, HeadTailProperties
<1> HIDE DEF t
<1>3. \A i \in 1 .. Len(t) : i + 1 \in 1 .. Len(c) /\ t[i] = c[i + 1] /\ i + 1 # 1
  BY <1>1, <1>2
<1>4. Numbered(t, n)
  <2>1. \A i \in 1 .. Len(t) : t[i].agent <= n
    BY <1>3 DEF Numbered
  <2>2. ASSUME NEW i \in 1 .. Len(t), NEW j \in 1 .. Len(t), i # j PROVE t[i].agent # t[j].agent
    <3>1. i + 1 # j + 1
      BY <1>1, <1>2, <2>2
    <3> QED BY <1>3, <3>1 DEF Numbered
  <2> QED BY <2>1, <2>2 DEF Numbered
<1>5. 1 \in 1 .. Len(c)
  BY <1>1
<1>6. \A i \in 1 .. Len(t) : t[i].agent # c[1].agent
  BY <1>3, <1>5 DEF Numbered
<1>7. \A i \in 1 .. Len(c) : i # 1 => i - 1 \in 1 .. Len(t) /\ (i - 1) + 1 = i
  BY <1>1, <1>2
<1>8. \A i \in 1 .. Len(c) : c[i].agent # c[1].agent => i - 1 \in 1 .. Len(t) /\ t[i - 1] = c[i]
  BY <1>3, <1>7
<1>9. c[1].agent <= n
  BY <1>5 DEF Numbered
<1> QED BY <1>1, <1>2, <1>3, <1>4, <1>6, <1>8, <1>9 DEF t

\* What building a socketPath Agent does to the cache: nothing in it is closed,
\* and the Agent it lost is.
LEMMA MissCache ==
  ASSUME TypeOK, CacheShape, NEW r \in Requests, BeginPathMiss(r)
  PROVE  /\ agents' = agents + 1 /\ agents' \in Agents
         /\ cache' \in Seq(Entry) /\ Len(cache') <= MaxPaths /\ Numbered(cache', agents')
         /\ closed \subseteq closed'
         /\ \A d \in closed' : d \notin closed =>
              /\ d \in Agents /\ d <= agents
              /\ \A i \in 1 .. Len(cache') : cache'[i].agent # d
         /\ \A i \in 1 .. Len(cache') :
              \/ cache'[i].agent = agents'
              \/ \E j \in 1 .. Len(cache) : cache'[i] = cache[j]
         /\ \A a \in 1 .. agents' : \/ a \in closed'
                                    \/ \E i \in 1 .. Len(cache') : cache'[i].agent = a
         /\ Begin(r, agents')
<1>1. /\ agents \in Nat /\ AgentCap \in Nat /\ MaxPaths \in Nat \ {0} /\ agents' = agents + 1
      /\ agents' \in Agents /\ Begin(r, agents')
      /\ cache \in Seq(Entry) /\ Len(cache) \in Nat /\ DOMAIN cache = 1 .. Len(cache)
      /\ Len(cache) <= MaxPaths /\ Numbered(cache, agents)
      /\ \A a \in 1 .. agents : a \in closed \/ \E i \in 1 .. Len(cache) : cache[i].agent = a
  <2>1. agents \in Nat /\ AgentCap \in Nat /\ MaxPaths \in Nat \ {0}
    BY CapsAssumption DEF TypeOK
  <2>2. agents < AgentCap /\ agents' = agents + 1 /\ Begin(r, agents')
    BY DEF BeginPathMiss
  <2>3. cache \in Seq(Entry)
    BY DEF TypeOK, Entry
  <2>4. Len(cache) \in Nat /\ DOMAIN cache = 1 .. Len(cache)
    BY <2>3
  <2> QED BY <2>1, <2>2, <2>3, <2>4 DEF CacheShape, Agents
<1>2. PICK p \in Paths :
        \/ /\ Len(cache) >= MaxPaths
           /\ cache' = Append(Tail(cache), [path |-> p, agent |-> agents'])
           /\ closed' = closed \cup {Head(cache).agent}
        \/ /\ Len(cache) < MaxPaths
           /\ cache' = Append(cache, [path |-> p, agent |-> agents'])
           /\ closed' = closed
  BY <1>1 DEF BeginPathMiss
<1> DEFINE e == [path |-> p, agent |-> agents']
<1>3. e \in Entry /\ e.agent = agents + 1
  BY <1>1 DEF Entry
<1> HIDE DEF e
<1>4. CASE /\ Len(cache) >= MaxPaths
           /\ cache' = Append(Tail(cache), e) /\ closed' = closed \cup {Head(cache).agent}
  <2> DEFINE t == Tail(cache)
  <2>1. Len(cache) >= 1
    BY <1>1, <1>4
  <2>2. /\ t \in Seq(Entry) /\ Len(t) = Len(cache) - 1 /\ Numbered(t, agents)
        /\ \A i \in 1 .. Len(t) : /\ i + 1 \in 1 .. Len(cache) /\ t[i] = cache[i + 1]
                                  /\ t[i].agent # Head(cache).agent
        /\ \A i \in 1 .. Len(cache) : cache[i].agent # Head(cache).agent =>
             i - 1 \in 1 .. Len(t) /\ t[i - 1] = cache[i]
        /\ Head(cache).agent \in Agents /\ Head(cache).agent <= agents
    <3>1. Head(cache) \in Entry => Head(cache).agent \in Agents
      BY DEF Entry
    <3> QED BY <1>1, <2>1, <3>1, Shrunk
  <2> HIDE DEF t
  <2>3. /\ cache' \in Seq(Entry) /\ Len(cache') = Len(t) + 1 /\ Numbered(cache', agents + 1)
        /\ \A i \in 1 .. Len(t) : cache'[i] = t[i]
        /\ cache'[Len(t) + 1] = e
    <3>1. cache' = Append(t, e)
      BY <1>4 DEF t
    <3>2. agents \in Nat /\ t \in Seq(Entry) /\ Numbered(t, agents) /\ e \in Entry /\ e.agent = agents + 1
      BY <1>1, <1>3, <2>2
    <3>3. /\ Append(t, e) \in Seq(Entry) /\ Len(Append(t, e)) = Len(t) + 1
          /\ Numbered(Append(t, e), agents + 1)
          /\ \A i \in 1 .. Len(t) : Append(t, e)[i] = t[i]
          /\ Append(t, e)[Len(t) + 1] = e
      BY <3>2, Grown
    <3> QED BY <3>1, <3>3
  <2>4. \A i \in 1 .. Len(cache') : i \in 1 .. Len(t) \/ cache'[i] = e
    BY <1>1, <2>2, <2>3
  <2>5. \A i \in 1 .. Len(t) : i \in 1 .. Len(cache')
    BY <1>1, <2>2, <2>3
  <2>6. Len(cache') \in 1 .. Len(cache') /\ cache'[Len(cache')] = e
    BY <1>1, <2>2, <2>3
  <2>7. Head(cache).agent # agents + 1
    BY <1>1, <2>2 DEF Agents
  <2>8. ASSUME NEW a \in 1 .. agents', a \notin closed'
        PROVE  \E i \in 1 .. Len(cache') : cache'[i].agent = a
    <3>1. CASE a = agents + 1
      BY <1>3, <2>6, <3>1
    <3>2. CASE a # agents + 1
      <4>1. PICK i \in 1 .. Len(cache) : cache[i].agent = a
        BY <1>1, <1>4, <2>8, <3>2
      <4>2. i - 1 \in 1 .. Len(t) /\ t[i - 1] = cache[i]
        BY <1>4, <2>2, <2>8, <4>1
      <4> QED BY <2>3, <2>5, <4>1, <4>2
    <3> QED BY <3>1, <3>2
  <2>9. ASSUME NEW i \in 1 .. Len(cache')
        PROVE  /\ cache'[i].agent # Head(cache).agent
               /\ cache'[i].agent = agents' \/ \E j \in 1 .. Len(cache) : cache'[i] = cache[j]
    <3>1. CASE cache'[i] = e
      BY <1>1, <1>3, <2>7, <3>1
    <3>2. CASE i \in 1 .. Len(t)
      <4>1. cache'[i] = t[i] /\ t[i].agent # Head(cache).agent
        BY <2>2, <2>3, <3>2
      <4>2. i + 1 \in 1 .. Len(cache) /\ t[i] = cache[i + 1]
        BY <2>2, <3>2
      <4> QED BY <4>1, <4>2
    <3> QED BY <2>4, <3>1, <3>2
  <2>10. Len(cache') <= MaxPaths
    BY <1>1, <2>2, <2>3
  <2> QED BY ZenonT(60), <1>1, <1>4, <2>2, <2>3, <2>8, <2>9, <2>10
<1>5. CASE Len(cache) < MaxPaths /\ cache' = Append(cache, e) /\ closed' = closed
  <2>3. /\ cache' \in Seq(Entry) /\ Len(cache') = Len(cache) + 1 /\ Numbered(cache', agents + 1)
        /\ \A i \in 1 .. Len(cache) : cache'[i] = cache[i]
        /\ cache'[Len(cache) + 1] = e
    BY <1>1, <1>3, <1>5, Grown
  <2>4. \A i \in 1 .. Len(cache') : i \in 1 .. Len(cache) \/ cache'[i] = e
    BY <1>1, <2>3
  <2>5. \A i \in 1 .. Len(cache) : i \in 1 .. Len(cache')
    BY <1>1, <2>3
  <2>6. Len(cache') \in 1 .. Len(cache') /\ cache'[Len(cache')] = e
    BY <1>1, <2>3
  <2>8. ASSUME NEW a \in 1 .. agents', a \notin closed'
        PROVE  \E i \in 1 .. Len(cache') : cache'[i].agent = a
    <3>1. CASE a = agents + 1
      BY <1>3, <2>6, <3>1
    <3>2. CASE a # agents + 1
      <4>1. PICK i \in 1 .. Len(cache) : cache[i].agent = a
        BY <1>1, <1>5, <2>8, <3>2
      <4> QED BY <2>3, <2>5, <4>1
    <3> QED BY <3>1, <3>2
  <2>9. \A i \in 1 .. Len(cache') :
          cache'[i].agent = agents' \/ \E j \in 1 .. Len(cache) : cache'[i] = cache[j]
    BY <1>1, <1>3, <2>3, <2>4
  <2>10. Len(cache') <= MaxPaths
    BY <1>1, <1>5, <2>3
  <2> QED BY <1>1, <1>5, <2>3, <2>8, <2>9, <2>10
<1> QED BY <1>2, <1>4, <1>5 DEF e

\* What is cached are Agents.
LEMMA CachedAgents ==
  ASSUME TypeOK PROVE \A i \in DOMAIN cache : cache[i].agent \in Agents
<1>1. cache \in Seq(Entry) /\ DOMAIN cache = 1 .. Len(cache)
  BY DEF TypeOK, Entry
<1>2. \A i \in 1 .. Len(cache) : cache[i] \in Entry
  BY <1>1, ElementOfSeq
<1> QED BY <1>1, <1>2 DEF Entry

\* The service only ever closes what it made.
LEMMA OwnedShape ==
  ASSUME TypeOK, OwnShape
  PROVE  /\ OwnedActive \subseteq {Default, Built}
         /\ Owned \subseteq {Default, Built} \cup Agents
         /\ Default \in Owned
         /\ \A i \in DOMAIN cache : cache[i].agent \in Owned
<1>1. \A i \in DOMAIN cache : cache[i].agent \in Agents
  BY CachedAgents
<1>2. custom \in {Built, None}
  BY DEF TypeOK
<1> QED BY <1>1, <1>2 DEF OwnedActive, Owned, OwnShape

\* The four ways in which a request begins.
Start(r) == BeginGiven(r) \/ BeginPlain(r) \/ BeginPathHit(r) \/ BeginPathMiss(r)

\* However it begins, it captures one dispatcher, which is open before shutdown,
\* and at most evicts an Agent.
LEMMA Started ==
  ASSUME TypeOK, OwnShape, CacheShape, NEW r \in Requests, Start(r)
  PROVE  \E d \in Dispatchers :
           /\ Begin(r, d)
           /\ closed \subseteq closed' /\ \A c \in closed' : c \in closed \/ c \in Agents
           /\ OpenShape /\ service = "up" => d \notin closed
<1> USE Distinct
<1>1. CASE BeginGiven(r)
  BY <1>1 DEF BeginGiven, OwnShape
<1>2. CASE BeginPlain(r)
  <2>1. Serving \in Dispatchers /\ (OpenShape /\ service = "up" => Serving \notin closed)
    BY DEF Serving, TypeOK, OwnShape, OpenShape
  <2> QED BY <1>2, <2>1 DEF BeginPlain
<1>3. CASE BeginPathHit(r)
  <2>1. PICK d : Begin(r, d) /\ ((d = custom /\ custom # None) \/ \E i \in DOMAIN cache : d = cache[i].agent)
    BY <1>3 DEF BeginPathHit, Cached
  <2>2. d \in Dispatchers
    BY <2>1, CachedAgents DEF TypeOK
  <2>3. OpenShape /\ service = "up" => d \notin closed
    BY <2>1 DEF OpenShape, OwnShape
  <2> QED BY <1>3, <2>1, <2>2, <2>3 DEF BeginPathHit
<1>4. CASE BeginPathMiss(r)
  <2>1. /\ agents' = agents + 1 /\ agents' \in Agents /\ Begin(r, agents') /\ closed \subseteq closed'
        /\ \A d \in closed' : d \in closed \/ d \in Agents
    BY <1>4, MissCache
  <2>2. agents' \notin closed
    BY <2>1 DEF CacheShape, TypeOK
  <2> QED BY <2>1, <2>2
<1> QED BY <1>1, <1>2, <1>3, <1>4 DEF Start

(***************************************************************************)
(* Types.                                                                  *)
(***************************************************************************)

LEMMA TypeInit == Init => TypeOK
<1> SUFFICES ASSUME Init PROVE TypeOK
  OBVIOUS
<1>1. instance \in Dispatchers \cup {None} /\ custom \in {Built, None} /\ setup \in Setups
  BY Distinct, SetupAssumption DEF Init, SetupType
<1>2. cache \in Seq([path: Paths, agent: Agents]) /\ agents \in 0 .. AgentCap
  BY CapsAssumption, EmptySeq DEF Init
<1> QED BY <1>1, <1>2 DEF Init, TypeOK, Places

LEMMA TypeBegin ==
  ASSUME TypeOK, NEW r \in Requests, NEW d \in Dispatchers, Begin(r, d),
         cache' \in Seq([path: Paths, agent: Agents]), agents' \in 0 .. AgentCap,
         closed' \subseteq Dispatchers
  PROVE  TypeOK'
BY DEF TypeOK, Begin, Places

LEMMA TypeStep == TypeOK /\ IInv /\ [Next]_vars => TypeOK'
<1> SUFFICES ASSUME TypeOK, OwnShape, CacheShape, StreamShape, [Next]_vars PROVE TypeOK'
  BY DEF IInv
<1> USE Distinct
<1>1. ASSUME NEW r \in Requests, BeginGiven(r) PROVE TypeOK'
  <2>1. PICK d \in Given : Begin(r, d)
    BY <1>1 DEF BeginGiven
  <2> QED BY <1>1, <2>1, TypeBegin DEF BeginGiven, TypeOK
<1>2. ASSUME NEW r \in Requests, BeginPlain(r) PROVE TypeOK'
  <2>1. Serving \in Dispatchers
    BY DEF Serving, TypeOK
  <2> QED BY <1>2, <2>1, TypeBegin DEF BeginPlain, TypeOK
<1>3. ASSUME NEW r \in Requests, BeginPathHit(r) PROVE TypeOK'
  <2>1. \A i \in DOMAIN cache : cache[i].agent \in Agents
    BY CachedAgents
  <2>2. PICK d \in Dispatchers : Begin(r, d)
    BY <1>3, <2>1 DEF BeginPathHit, Cached, TypeOK
  <2> QED BY <1>3, <2>2, TypeBegin DEF BeginPathHit, TypeOK
<1>4. ASSUME NEW r \in Requests, BeginPathMiss(r) PROVE TypeOK'
  <2>1. /\ agents' \in Agents /\ cache' \in Seq(Entry) /\ Begin(r, agents')
        /\ \A d \in closed' : d \in closed \/ d \in Agents
    BY <1>4, MissCache
  <2>2. agents' \in 0 .. AgentCap /\ closed' \subseteq Dispatchers
    BY <2>1, CapsAssumption DEF Agents, TypeOK
  <2> QED BY <2>1, <2>2, TypeBegin DEF Entry
<1>5. ASSUME NEW r \in Requests,
             Redirected(r) \/ NextHop(r) \/ Finished(r) \/ StreamHanded(r) \/ StreamFailed(r)
             \/ StreamReceived(r) \/ StreamCloses(r) \/ StreamAborted(r)
      PROVE  TypeOK'
  <2>1. CASE Redirected(r) \/ StreamFailed(r)
    BY <2>1 DEF Redirected, StreamFailed, Move, TypeOK, Places
  <2>2. CASE NextHop(r)
    BY <2>2 DEF NextHop, Move, End, TypeOK, Places
  <2>4. CASE StreamHanded(r)
    BY <2>4 DEF StreamHanded, StreamShape, Move, TypeOK, Places
  <2>3. CASE Finished(r) \/ StreamReceived(r) \/ StreamCloses(r) \/ StreamAborted(r)
    BY <2>3 DEF Finished, StreamReceived, StreamCloses, StreamAborted, End, TypeOK, Places
  <2> QED BY <1>5, <2>1, <2>2, <2>3, <2>4
<1>6. ASSUME NEW d \in Given \cup {instance}, SetDispatcher(d) PROVE TypeOK'
  BY <1>6, OwnedShape DEF SetDispatcher, CloseGracefully, TypeOK
<1>7. ASSUME OnModuleDestroy PROVE TypeOK'
  BY <1>7, OwnedShape, EmptySeq DEF OnModuleDestroy, CloseGracefully, TypeOK
<1>8. ASSUME NEW d \in Dispatchers, CloseResolves(d) \/ GraceElapses(d) PROVE TypeOK'
  BY <1>8 DEF CloseResolves, GraceElapses, TypeOK
<1>9. ASSUME Destroyed PROVE TypeOK'
  BY <1>9 DEF Destroyed, TypeOK
<1>10. ASSUME UNCHANGED vars PROVE TypeOK'
  BY <1>10 DEF vars, TypeOK
<1> QED BY <1>1, <1>2, <1>3, <1>4, <1>5, <1>6, <1>7, <1>8, <1>9, <1>10 DEF Next

(***************************************************************************)
(* The invariant, part by part.                                            *)
(***************************************************************************)

\* What happens on a dispatcher that was captured.
Course(r) ==
  \/ Redirected(r) \/ NextHop(r) \/ Finished(r) \/ StreamHanded(r) \/ StreamFailed(r)
  \/ StreamReceived(r) \/ StreamCloses(r) \/ StreamAborted(r)

\* The steps there are.
LEMMA Steps ==
  ASSUME [Next]_vars
  PROVE  \/ \E r \in Requests : Start(r) \/ Course(r)
         \/ \E d \in Given \cup {instance} : SetDispatcher(d)
         \/ OnModuleDestroy
         \/ \E d \in Dispatchers : CloseResolves(d) \/ GraceElapses(d)
         \/ Destroyed
         \/ UNCHANGED vars
BY DEF Next, Start, Course

\* The course of a request leaves the service as it is.
LEMMA CourseFrame ==
  ASSUME NEW r \in Requests, Course(r)
  PROVE  UNCHANGED <<setup, instance, custom, cache, agents, closed, grace, sees, service, awaited>>
BY DEF Course, Redirected, NextHop, Finished, StreamHanded, StreamFailed, StreamReceived, StreamCloses,
       StreamAborted, Move, End

LEMMA IInvInit == Init => IInv
<1> SUFFICES ASSUME Init PROVE IInv
  OBVIOUS
<1> USE Distinct DEF Init
<1>1. OwnShape
  BY SetupAssumption DEF OwnShape, SetupType
<1>2. CacheShape
  BY CapsAssumption DEF CacheShape, Numbered
<1>3. GraceShape /\ StreamShape
  BY DEF GraceShape, StreamShape
<1>4. OpenShape /\ DownShape
  BY DEF OpenShape, DownShape
<1> QED BY <1>1, <1>2, <1>3, <1>4 DEF IInv

LEMMA OwnStep == ASSUME TypeOK, OwnShape, CacheShape, [Next]_vars PROVE OwnShape'
<1> USE Distinct
<1>1. ASSUME NEW r \in Requests, Start(r) PROVE OwnShape'
  <2>1. \A c \in closed' : c \in closed \/ c \in Agents
    BY <1>1, Started
  <2>2. UNCHANGED <<instance, custom>>
    BY <1>1 DEF Start, BeginGiven, BeginPlain, BeginPathHit, BeginPathMiss, Begin
  <2> QED BY <2>1, <2>2 DEF OwnShape
<1>2. ASSUME NEW r \in Requests, Course(r) PROVE OwnShape'
  BY <1>2, CourseFrame DEF OwnShape
<1>3. ASSUME NEW d \in Given \cup {instance}, SetDispatcher(d) PROVE OwnShape'
  BY <1>3, OwnedShape DEF SetDispatcher, CloseGracefully, OwnShape
<1>4. ASSUME OnModuleDestroy PROVE OwnShape'
  BY <1>4, OwnedShape DEF OnModuleDestroy, CloseGracefully, OwnShape
<1>5. ASSUME NEW d \in Dispatchers, CloseResolves(d) \/ GraceElapses(d) PROVE OwnShape'
  BY <1>5 DEF CloseResolves, GraceElapses, OwnShape
<1>6. ASSUME Destroyed \/ UNCHANGED vars PROVE OwnShape'
  BY <1>6 DEF Destroyed, vars, OwnShape
<1> QED BY <1>1, <1>2, <1>3, <1>4, <1>5, <1>6, Steps

LEMMA CacheStep == ASSUME TypeOK, OwnShape, CacheShape, [Next]_vars PROVE CacheShape'
<1> USE Distinct
<1>1. /\ agents \in Nat /\ AgentCap \in Nat /\ \A a \in 1 .. agents : a \in Agents
      /\ cache \in Seq(Entry) /\ DOMAIN cache = 1 .. Len(cache) /\ MaxPaths \in Nat
  BY CapsAssumption DEF TypeOK, Agents, Entry
<1>2. ASSUME NEW r \in Requests, BeginPathMiss(r) PROVE CacheShape'
  <2>1. /\ agents' = agents + 1
        /\ cache' \in Seq(Entry) /\ Len(cache') <= MaxPaths /\ Numbered(cache', agents')
        /\ \A d \in closed' : d \in closed \/ d <= agents
        /\ \A a \in 1 .. agents' : \/ a \in closed'
                                   \/ \E i \in 1 .. Len(cache') : cache'[i].agent = a
    BY <1>2, MissCache
  <2>2. DOMAIN cache' = 1 .. Len(cache')
    BY <2>1
  <2>3. \A a \in Agents : a \in closed' => a <= agents'
    BY <1>1, <2>1 DEF CacheShape, Agents
  <2> QED BY <2>1, <2>2, <2>3 DEF CacheShape, Numbered
<1>3. ASSUME NEW r \in Requests, BeginGiven(r) \/ BeginPlain(r) \/ BeginPathHit(r) PROVE CacheShape'
  BY <1>3 DEF BeginGiven, BeginPlain, BeginPathHit, CacheShape, Numbered
<1>4. ASSUME NEW r \in Requests, Course(r) PROVE CacheShape'
  BY <1>4, CourseFrame DEF CacheShape, Numbered
<1>5. ASSUME NEW d \in Given \cup {instance}, SetDispatcher(d) PROVE CacheShape'
  <2>1. UNCHANGED <<cache, agents>> /\ closed \subseteq closed'
        /\ \A a \in Agents : a \in closed' => a \in closed
    BY <1>5, OwnedShape DEF SetDispatcher, CloseGracefully
  <2> QED BY <1>1, <2>1 DEF CacheShape, Numbered
<1>6. ASSUME OnModuleDestroy PROVE CacheShape'
  <2>1. cache' = <<>> /\ UNCHANGED agents /\ closed' = closed \cup Owned
    BY <1>6 DEF OnModuleDestroy, CloseGracefully
  <2>2. \A a \in 1 .. agents : a \in closed'
    BY <2>1, OwnedShape DEF CacheShape
  <2>3. \A a \in Agents : a \in closed' => a <= agents
    <3> SUFFICES ASSUME NEW a \in Agents, a \in Owned PROVE a <= agents
      BY <2>1 DEF CacheShape
    <3>1. PICK i \in DOMAIN cache : a = cache[i].agent
      BY DEF Owned, TypeOK
    <3> QED BY <1>1, <3>1 DEF CacheShape, Numbered
  <2>4. Len(cache') = 0 /\ Numbered(cache', agents')
    BY <2>1 DEF Numbered
  <2> QED BY <1>1, <2>1, <2>2, <2>3, <2>4 DEF CacheShape, Numbered
<1>7. ASSUME NEW d \in Dispatchers, CloseResolves(d) \/ GraceElapses(d) PROVE CacheShape'
  BY <1>7 DEF CloseResolves, GraceElapses, CacheShape, Numbered
<1>8. ASSUME Destroyed \/ UNCHANGED vars PROVE CacheShape'
  BY <1>8 DEF Destroyed, vars, CacheShape, Numbered
<1> QED BY <1>2, <1>3, <1>4, <1>5, <1>6, <1>7, <1>8, Steps DEF Start

LEMMA GraceStep == ASSUME TypeOK, OwnShape, CacheShape, GraceShape, [Next]_vars PROVE GraceShape'
<1> USE Distinct
<1>1. ASSUME NEW r \in Requests, Start(r) PROVE GraceShape'
  <2>1. PICK e \in Dispatchers : Begin(r, e) /\ closed \subseteq closed'
    BY <1>1, Started
  <2> QED BY <2>1 DEF Begin, GraceShape, Idle, TypeOK
<1>2. ASSUME NEW r \in Requests, Course(r) PROVE GraceShape'
  <2>1. CASE Redirected(r) \/ StreamHanded(r) \/ StreamFailed(r)
    BY <2>1 DEF Redirected, StreamHanded, StreamFailed, Move, GraceShape, Idle, TypeOK
  <2>2. CASE NextHop(r)
    BY <2>2 DEF NextHop, Move, End, GraceShape, Idle, TypeOK
  <2>3. CASE Finished(r) \/ StreamReceived(r) \/ StreamCloses(r) \/ StreamAborted(r)
    BY <2>3 DEF Finished, StreamReceived, StreamCloses, StreamAborted, End, GraceShape, Idle, TypeOK
  <2> QED BY <1>2, <2>1, <2>2, <2>3 DEF Course
<1>3. ASSUME NEW d \in Given \cup {instance}, SetDispatcher(d) PROVE GraceShape'
  BY <1>3 DEF SetDispatcher, CloseGracefully, GraceShape, Idle
<1>4. ASSUME OnModuleDestroy PROVE GraceShape'
  BY <1>4 DEF OnModuleDestroy, CloseGracefully, GraceShape, Idle
<1>5. ASSUME NEW d \in Dispatchers, CloseResolves(d) \/ GraceElapses(d) PROVE GraceShape'
  BY <1>5 DEF CloseResolves, GraceElapses, GraceShape, Idle, TypeOK
<1>6. ASSUME Destroyed \/ UNCHANGED vars PROVE GraceShape'
  BY <1>6 DEF Destroyed, vars, GraceShape, Idle
<1> QED BY <1>1, <1>2, <1>3, <1>4, <1>5, <1>6, Steps

LEMMA StreamStep ==
  ASSUME TypeOK, OwnShape, CacheShape, GraceShape, StreamShape, [Next]_vars PROVE StreamShape'
<1> USE Distinct
<1>1. ASSUME NEW r \in Requests, Start(r) PROVE StreamShape'
  <2>1. PICK e \in Dispatchers : Begin(r, e)
    BY <1>1, Started
  <2> QED BY <2>1 DEF Begin, StreamShape, TypeOK
<1>2. ASSUME NEW r \in Requests, Course(r) PROVE StreamShape'
  <2>1. CASE Redirected(r) \/ StreamFailed(r)
    BY <2>1 DEF Redirected, StreamFailed, Move, StreamShape, TypeOK
  <2>2. CASE StreamHanded(r)
    <3>1. /\ req[r] = "flying" /\ req' = [req EXCEPT ![r] = "stream"]
          /\ UNCHANGED <<via, grace, sees, aborted>> /\ tables' = tables \cup {via[r]}
          /\ \A q \in late' : q = r \/ q \in late
          /\ late \subseteq late' /\ (via[r] \in closed => r \in late')
      BY <2>2 DEF StreamHanded, Move
    <3>2. via[r] \in Dispatchers /\ (grace[via[r]] # "none" => r \in late')
      BY <3>1 DEF StreamShape, GraceShape
    <3> QED BY <3>1, <3>2 DEF StreamShape, TypeOK
  <2>3. CASE NextHop(r)
    BY <2>3 DEF NextHop, Move, End, StreamShape, TypeOK
  <2>4. CASE Finished(r) \/ StreamReceived(r) \/ StreamCloses(r) \/ StreamAborted(r)
    BY <2>4 DEF Finished, StreamReceived, StreamCloses, StreamAborted, End, StreamShape, TypeOK
  <2> QED BY <1>2, <2>1, <2>2, <2>3, <2>4 DEF Course
<1>3. ASSUME NEW ds, CloseGracefully(ds), UNCHANGED <<tables, via, req, aborted, late>>
      PROVE  StreamShape'
  BY <1>3 DEF CloseGracefully, StreamShape, TypeOK
<1>4. ASSUME NEW d \in Given \cup {instance}, SetDispatcher(d) PROVE StreamShape'
  BY <1>3, <1>4 DEF SetDispatcher
<1>5. ASSUME OnModuleDestroy PROVE StreamShape'
  BY <1>3, <1>5 DEF OnModuleDestroy
<1>6. ASSUME NEW d \in Dispatchers, CloseResolves(d) PROVE StreamShape'
  BY <1>6 DEF CloseResolves, StreamShape, TypeOK
<1>7. ASSUME NEW d \in Dispatchers, GraceElapses(d) PROVE StreamShape'
  <2>1. d \notin Given
    BY <1>7 DEF GraceElapses, GraceShape, OwnShape
  <2> QED BY <1>7, <2>1 DEF GraceElapses, StreamShape, TypeOK
<1>8. ASSUME Destroyed \/ UNCHANGED vars PROVE StreamShape'
  BY <1>8 DEF Destroyed, vars, StreamShape
<1> QED BY <1>1, <1>2, <1>4, <1>5, <1>6, <1>7, <1>8, Steps

\* Before shutdown no request is refused.
LEMMA NoneRefused ==
  ASSUME TypeOK, OwnShape, CacheShape, OpenShape, service = "up", [Next]_vars
  PROVE  \A r \in Requests : req'[r] # "refused"
<1>1. ASSUME NEW r \in Requests, Start(r) PROVE \A q \in Requests : req'[q] # "refused"
  <2>1. PICK e \in Dispatchers : Begin(r, e) /\ e \notin closed
    BY <1>1, Started
  <2> QED BY <2>1 DEF Begin, OpenShape, TypeOK
<1>2. ASSUME NEW r \in Requests, Course(r) PROVE \A q \in Requests : req'[q] # "refused"
  BY <1>2 DEF Course, Redirected, NextHop, Finished, StreamHanded, StreamFailed, StreamReceived, StreamCloses,
              StreamAborted, Move, End, OpenShape, TypeOK
<1>3. UNCHANGED req => \A q \in Requests : req'[q] # "refused"
  BY DEF OpenShape
<1> QED BY <1>1, <1>2, <1>3, Steps DEF SetDispatcher, OnModuleDestroy, CloseResolves, GraceElapses,
                                       Destroyed, vars

LEMMA OpenStep == ASSUME TypeOK, OwnShape, CacheShape, OpenShape, [Next]_vars PROVE OpenShape'
<1> USE Distinct
<1>1. service' = "up" => service = "up" /\ \A r \in Requests : req'[r] # "refused"
  <2>1. service' = "up" => service = "up"
    <3>1. ASSUME NEW r \in Requests, Start(r) PROVE UNCHANGED service
      BY <3>1 DEF Start, BeginGiven, BeginPlain, BeginPathHit, BeginPathMiss, Begin
    <3>2. ASSUME NEW r \in Requests, Course(r) PROVE UNCHANGED service
      BY <3>2, CourseFrame
    <3> QED BY <3>1, <3>2, Steps DEF SetDispatcher, OnModuleDestroy, CloseResolves, GraceElapses,
                                     Destroyed, vars
  <2> QED BY <2>1, NoneRefused
<1> SUFFICES ASSUME service = "up", service' = "up"
             PROVE  /\ instance' # None => instance' \notin closed'
                    /\ instance' = None => Default \notin closed'
                    /\ \A i \in DOMAIN cache' : cache'[i].agent \notin closed'
  BY <1>1 DEF OpenShape
<1>2. /\ instance # None => instance \notin closed
      /\ instance = None => Default \notin closed
      /\ \A i \in DOMAIN cache : cache[i].agent \notin closed
  BY DEF OpenShape
<1> DEFINE Goal == /\ instance' # None => instance' \notin closed'
                   /\ instance' = None => Default \notin closed'
                   /\ \A i \in DOMAIN cache' : cache'[i].agent \notin closed'
<1>3. ASSUME NEW r \in Requests, BeginPathMiss(r) PROVE Goal
  <2>1. /\ agents' = agents + 1 /\ agents' \in Agents /\ cache' \in Seq(Entry)
        /\ \A d \in closed' : d \notin closed =>
             /\ d \in Agents /\ d <= agents
             /\ \A i \in 1 .. Len(cache') : cache'[i].agent # d
        /\ \A i \in 1 .. Len(cache') :
             \/ cache'[i].agent = agents'
             \/ \E j \in 1 .. Len(cache) : cache'[i] = cache[j]
    BY <1>3, MissCache
  <2>2. agents' \notin closed
    BY <2>1 DEF CacheShape, TypeOK
  <2>3. DOMAIN cache' = 1 .. Len(cache') /\ DOMAIN cache = 1 .. Len(cache)
    BY <2>1 DEF TypeOK
  <2>4. \A i \in DOMAIN cache' : cache'[i].agent \notin closed'
    BY <1>2, <2>1, <2>2, <2>3
  <2>5. UNCHANGED instance
    BY <1>3 DEF BeginPathMiss, Begin
  <2> QED BY <1>2, <2>1, <2>4, <2>5 DEF OwnShape
<1>4. ASSUME NEW r \in Requests, BeginGiven(r) \/ BeginPlain(r) \/ BeginPathHit(r) PROVE Goal
  BY <1>2, <1>4 DEF BeginGiven, BeginPlain, BeginPathHit, Begin
<1>5. ASSUME NEW r \in Requests, Course(r) PROVE Goal
  BY <1>2, <1>5, CourseFrame
<1>6. ASSUME NEW d \in Given \cup {instance}, SetDispatcher(d) PROVE Goal
  <2>1. /\ d # None /\ instance' = d /\ UNCHANGED cache
        /\ closed' = closed \cup (OwnedActive \ {d})
    BY <1>6 DEF SetDispatcher, CloseGracefully
  <2>2. d \notin closed'
    BY <1>2, <2>1 DEF OwnShape
  <2> QED BY <1>2, <2>1, <2>2, OwnedShape, CachedAgents
<1>7. ASSUME NEW d \in Dispatchers, CloseResolves(d) \/ GraceElapses(d) PROVE Goal
  BY <1>2, <1>7 DEF CloseResolves, GraceElapses
<1>8. ASSUME OnModuleDestroy \/ Destroyed \/ UNCHANGED vars PROVE Goal
  BY <1>2, <1>8 DEF OnModuleDestroy, Destroyed, vars
<1> QED BY <1>3, <1>4, <1>5, <1>6, <1>7, <1>8, Steps DEF Start

LEMMA DownStep ==
  ASSUME TypeOK, OwnShape, CacheShape, GraceShape, DownShape, [Next]_vars PROVE DownShape'
<1> USE Distinct
<1>1. ASSUME NEW r \in Requests, Start(r) PROVE DownShape'
  <2>1. closed \subseteq closed'
    BY <1>1, Started
  <2>2. UNCHANGED <<service, awaited, grace>>
    BY <1>1 DEF Start, BeginGiven, BeginPlain, BeginPathHit, BeginPathMiss, Begin
  <2> QED BY <2>1, <2>2 DEF DownShape
<1>2. ASSUME NEW r \in Requests, Course(r) PROVE DownShape'
  BY <1>2, CourseFrame DEF DownShape
<1>3. ASSUME NEW d \in Given \cup {instance}, SetDispatcher(d) PROVE DownShape'
  BY <1>3 DEF SetDispatcher, CloseGracefully, GraceShape, DownShape, TypeOK
<1>4. ASSUME OnModuleDestroy PROVE DownShape'
  BY <1>4, OwnedShape DEF OnModuleDestroy, CloseGracefully, DownShape
<1>5. ASSUME NEW d \in Dispatchers, CloseResolves(d) \/ GraceElapses(d) PROVE DownShape'
  BY <1>5 DEF CloseResolves, GraceElapses, DownShape, TypeOK
<1>6. ASSUME Destroyed PROVE DownShape'
  BY <1>6 DEF Destroyed, DownShape
<1>7. ASSUME UNCHANGED vars PROVE DownShape'
  BY <1>7 DEF vars, DownShape
<1> QED BY <1>1, <1>2, <1>3, <1>4, <1>5, <1>6, <1>7, Steps

(***************************************************************************)
(* The theorems.                                                           *)
(***************************************************************************)

\* Types, and the invariant above: dispatchers, the cache, grace periods and
\* streams stay in the shape in which each close() is safe.
THEOREM AlwaysShaped == Spec => [](TypeOK /\ IInv)
<1>1. Init => TypeOK /\ IInv
  BY TypeInit, IInvInit
<1>2. TypeOK /\ IInv /\ [Next]_vars => (TypeOK /\ IInv)'
  <2> SUFFICES ASSUME TypeOK, IInv, [Next]_vars PROVE (TypeOK /\ IInv)'
    OBVIOUS
  <2>1. OwnShape /\ CacheShape /\ GraceShape /\ StreamShape /\ OpenShape /\ DownShape
    BY DEF IInv
  <2> QED BY <2>1, TypeStep, OwnStep, CacheStep, GraceStep, StreamStep, OpenStep, DownStep DEF IInv
<1> QED BY <1>1, <1>2, PTL DEF Spec

\* Every variable of the service and its requests keeps its type.
THEOREM TypesKept == Spec => []TypeOK
BY AlwaysShaped, PTL

\* No dispatcher of the application is closed by the service, and no stream on
\* one is aborted by its shutdown.
THEOREM CallersUntouched == Spec => []CallersDispatcherUntouched
<1>1. TypeOK /\ IInv => CallersDispatcherUntouched
  BY DEF IInv, TypeOK, OwnShape, StreamShape, CallersDispatcherUntouched
<1> QED BY <1>1, AlwaysShaped, PTL

\* Every socketPath Agent is closed or within shutdown's reach, whatever was
\* evicted, and the cache keeps its bound.
THEOREM AgentsRemembered == Spec => []NoAgentForgotten
<1>1. TypeOK /\ IInv => NoAgentForgotten
  BY DEF IInv, CacheShape, DownShape, NoAgentForgotten
<1> QED BY <1>1, AlwaysShaped, PTL

\* After shutdown no stream it waited for is open that it has not aborted.
THEOREM DownIsQuiet == Spec => []DownLeavesNoStream
<1>1. TypeOK /\ IInv => DownLeavesNoStream
  <2> SUFFICES ASSUME TypeOK, IInv, service = "down", NEW r \in Requests,
                      req[r] = "stream", via[r] \in awaited, r \notin late
               PROVE  r \in aborted
    BY DEF DownLeavesNoStream
  <2>1. via[r] \in Dispatchers /\ grace[via[r]] \in {"finished", "elapsed"}
    BY DEF IInv, DownShape, TypeOK
  <2>2. grace[via[r]] # "finished"
    BY <2>1 DEF IInv, GraceShape, Idle
  <2> QED BY <2>1, <2>2 DEF IInv, StreamShape
<1> QED BY <1>1, AlwaysShaped, PTL

\* Until shutdown no request is given a dispatcher that has been closed.
THEOREM AlwaysServed == Spec => ServedByOpenDispatcher
<1>1. TypeOK /\ IInv /\ [Next]_vars =>
        [\A r \in Requests : service = "up" => req'[r] # "refused"]_vars
  BY NoneRefused DEF IInv
<1> QED BY <1>1, AlwaysShaped, PTL DEF Spec, ServedByOpenDispatcher
=============================================================================
