-------------------------- MODULE DispatcherLifecycle --------------------------
(***************************************************************************)
(* The undici dispatchers of one HttpService: the per-service default      *)
(* Agent, the one setupDispatcher builds, those the application supplies,  *)
(* and the cache of per-path socketPath Agents. Which one a request is     *)
(* dispatched through, and when the service closes one: setDispatcher,     *)
(* eviction from the cache, and onModuleDestroy with its grace period.     *)
(*                                                                         *)
(* A request captures its dispatcher when it is subscribed and keeps it    *)
(* for every redirect hop and for the stream it may hand back. undici      *)
(* refuses to dispatch on a dispatcher that has been closed, lets what is  *)
(* in flight finish, and resolves close() once nothing is left on it.      *)
(***************************************************************************)
EXTENDS Naturals, Sequences, FiniteSets

CONSTANTS
  Requests,      \* the requests
  Paths,         \* the socketPath values requests use
  NoPath,        \* no module-level socketPath
  Given,         \* the dispatchers the application supplies
  Default,       \* the per-service default Agent
  Built,         \* the one setupDispatcher builds from the module options
  None,          \* no dispatcher
  Setups,        \* the module configurations the environment picks from
  MaxPaths,      \* MAX_SOCKET_PATH_DISPATCHERS
  AgentCap       \* bound on how many socketPath Agents are ever built

\* dispatcher: an explicit module `dispatcher`, Built, or none of either; a
\* module-level socketPath without an explicit dispatcher is always Built.
SetupType == [dispatcher: Given \cup {Built, None}, path: Paths \cup {NoPath}]

ASSUME SetupAssumption ==
  /\ Setups \subseteq SetupType
  /\ \A m \in Setups : m.path # NoPath => m.dispatcher # None
ASSUME PathAssumption == NoPath \notin Paths
ASSUME CapsAssumption == MaxPaths \in Nat \ {0} /\ AgentCap \in Nat

Agents == 1..AgentCap     \* the socketPath Agents, in the order they are built
Dispatchers == Given \cup {Default, Built} \cup Agents

ASSUME DistinctAssumption ==
  /\ Default # Built /\ None \notin Dispatchers
  /\ ({Default, Built} \cap Given) = {}
  /\ (({Default, Built} \cup Given) \cap Nat) = {}

VARIABLES
  setup,        \* the module options (fixed)
  instance,     \* instanceOptions.dispatcher
  custom,       \* customDispatcher
  cache,        \* socketPathDispatchers, a Map: oldest entry first
  agents,       \* how many socketPath Agents have been built
  closed,       \* the dispatchers close() has been called on
  tables,       \* keys of openStreamAbortsByDispatcher; they are never removed
  grace,        \* closeDispatcherWithGrace of a dispatcher: "none", "armed", or
                \* who won the race: "finished" (close()) or "elapsed"
  sees,         \* the dispatchers whose closing was handed a set of streams
  via,          \* the dispatcher a request captured
  req,          \* where a request is
  aborted,      \* the requests whose signal the grace period aborted
  late,         \* history: streams handed out on an already closed dispatcher
  service,      \* "up", "closing" (in onModuleDestroy) or "down"
  awaited       \* the dispatchers onModuleDestroy waits for

vars == <<setup, instance, custom, cache, agents, closed, tables, grace, sees,
          via, req, aborted, late, service, awaited>>

\* "refused" and "cut": undici would not dispatch the first hop, a later hop.
\* "stream": handed back while undici is still receiving it. "loose": the same for
\* a status error, which trackOpenStream never sees. "unread": undici has received
\* it whole and is done with it, its reader is not.
Places == {"cold", "flying", "hopping", "stream", "loose", "unread", "over",
           "refused", "cut"}

Init ==
  /\ setup \in Setups
  /\ instance = setup.dispatcher
  /\ custom = IF setup.dispatcher = Built THEN Built ELSE None
  /\ cache = <<>>
  /\ agents = 0
  /\ closed = {}
  /\ tables = {}
  /\ grace = [d \in Dispatchers |-> "none"]
  /\ sees = {}
  /\ via = [r \in Requests |-> None]
  /\ req = [r \in Requests |-> "cold"]
  /\ aborted = {}
  /\ late = {}
  /\ service = "up"
  /\ awaited = {}

-----------------------------------------------------------------------------
(***************************************************************************)
(* Resolving a request's dispatcher.                                       *)
(***************************************************************************)

\* The module's own: module-built, then explicit or set, then the default.
Serving ==
  IF custom # None THEN custom
  ELSE IF instance # None THEN instance
  ELSE Default

Cached(p) == {i \in DOMAIN cache : cache[i].path = p}

\* The captured dispatcher gets the first hop, unless it has been closed.
Begin(r, d) ==
  /\ req[r] = "cold"
  /\ IF d \in closed
       THEN /\ req' = [req EXCEPT ![r] = "refused"]
            /\ UNCHANGED via
       ELSE /\ req' = [req EXCEPT ![r] = "flying"]
            /\ via' = [via EXCEPT ![r] = d]
  /\ UNCHANGED <<setup, instance, custom, tables, grace, sees, aborted, late,
                 service, awaited>>

\* A request-level `dispatcher` wins over everything.
BeginGiven(r) ==
  /\ \E d \in Given : Begin(r, d)
  /\ UNCHANGED <<cache, agents, closed>>

\* Neither a request nor a module socketPath.
BeginPlain(r) ==
  /\ setup.path = NoPath
  /\ Begin(r, Serving)
  /\ UNCHANGED <<cache, agents, closed>>

\* getSocketPathDispatcher, when an Agent for that path exists. The socketPath
\* that executeRequest reads is the request's own or the module's, which is still
\* among the merged options: any path may be asked for.
BeginPathHit(r) ==
  /\ \E p \in Paths :
       \/ p = setup.path /\ custom # None /\ Begin(r, custom)
       \/ /\ p # setup.path \/ custom = None
          /\ \E i \in Cached(p) : Begin(r, cache[i].agent)
  /\ UNCHANGED <<cache, agents, closed>>

\* ... and when it has to be built, in the place of the oldest if need be. The
\* oldest is closed with a bare close().
BeginPathMiss(r) ==
  /\ agents < AgentCap
  /\ agents' = agents + 1
  /\ \E p \in Paths :
       /\ p # setup.path \/ custom = None
       /\ Cached(p) = {}
       /\ IF Len(cache) >= MaxPaths
            THEN /\ cache' = Append(Tail(cache), [path |-> p, agent |-> agents'])
                 /\ closed' = closed \cup {Head(cache).agent}
            ELSE /\ cache' = Append(cache, [path |-> p, agent |-> agents'])
                 /\ UNCHANGED closed
       /\ Begin(r, agents')

-----------------------------------------------------------------------------
(***************************************************************************)
(* A request on its dispatcher.                                            *)
(***************************************************************************)

Move(r, from, to) ==
  /\ req[r] = from
  /\ req' = [req EXCEPT ![r] = to]
  /\ UNCHANGED <<setup, instance, custom, cache, agents, closed, grace, sees,
                 via, aborted, service, awaited>>

\* undici is done with the request: what captured the dispatcher is garbage, or
\* has no use left for it.
End(r, from, how) ==
  /\ req[r] = from
  /\ req' = [req EXCEPT ![r] = how]
  /\ via' = [via EXCEPT ![r] = None]
  /\ aborted' = aborted \ {r}
  /\ late' = late \ {r}
  /\ UNCHANGED <<setup, instance, custom, cache, agents, closed, tables, grace,
                 sees, service, awaited>>

\* A redirect: the response is dumped, and for a moment nothing is in flight.
Redirected(r) == Move(r, "flying", "hopping") /\ UNCHANGED <<tables, late>>

\* The next hop goes to the dispatcher captured for the first.
NextHop(r) ==
  \/ via[r] \notin closed /\ Move(r, "hopping", "flying") /\ UNCHANGED <<tables, late>>
  \/ via[r] \in closed /\ End(r, "hopping", "cut")

\* A response read in full, or a failure.
Finished(r) == End(r, "flying", "over")

\* trackOpenStream: a stream is handed back as the response.
StreamHanded(r) ==
  /\ Move(r, "flying", "stream")
  /\ tables' = tables \cup {via[r]}
  /\ late' = IF via[r] \in closed THEN late \cup {r} ELSE late

\* A stream is handed back on an error, for its status.
StreamFailed(r) == Move(r, "flying", "loose") /\ UNCHANGED <<tables, late>>

\* The last byte of it is in the buffer the caller reads from. From here on
\* neither close(), destroy() nor the request's signal has anything to wait for
\* or to end: only the reader closes the stream.
StreamReceived(r) ==
  \/ r \notin aborted /\ End(r, "stream", "unread")
  \/ End(r, "loose", "unread")

\* The stream closes: consumed or destroyed by the caller, or broken.
StreamCloses(r) ==
  \/ End(r, "stream", "over")
  \/ End(r, "loose", "over")
  \/ End(r, "unread", "over")

\* ... or, while it is being received, because its request's signal was aborted.
StreamAborted(r) == r \in aborted /\ End(r, "stream", "over")

-----------------------------------------------------------------------------
(***************************************************************************)
(* Closing dispatchers.                                                    *)
(***************************************************************************)

\* Mutant of CloseGracefully: the set of streams is not passed on.
CloseGracefullyBlind(ds) ==
  /\ closed' = closed \cup ds
  /\ grace' = [d \in Dispatchers |-> IF d \in ds \ closed THEN "armed" ELSE grace[d]]
  /\ UNCHANGED sees

\* closeDispatcher on each of ds that it has not closed yet: close(), the grace
\* timer, and - looked up now, once - the set of streams to abort.
CloseGracefully(ds) ==
  LET new == ds \ closed IN
  /\ closed' = closed \cup ds
  /\ grace' = [d \in Dispatchers |-> IF d \in new THEN "armed" ELSE grace[d]]
  /\ sees' = sees \cup (new \cap tables)

\* Mutant of OwnedActive: whatever is in effect is taken to be the service's own.
OwnedActiveAny == IF instance = None THEN {Default} ELSE {instance}

\* ownedActiveDispatcher, as a set of at most one.
OwnedActive ==
  IF instance = None THEN {Default}
  ELSE IF instance = custom THEN {custom}
  ELSE {}

\* Mutant of SetDispatcher: the module-built dispatcher stays customDispatcher.
SetDispatcherKept(d) ==
  /\ d \in Given \cup {instance}
  /\ d # None
  /\ instance' = d
  /\ CloseGracefully(OwnedActive \ {d})
  /\ UNCHANGED <<setup, custom, cache, agents, tables, via, req, aborted,
                 late, service, awaited>>

\* The application sets a dispatcher of its own, or the one in effect (it can
\* read it from undiciRef).
SetDispatcher(d) ==
  /\ d \in Given \cup {instance}
  /\ d # None
  /\ custom' = None
  /\ instance' = d
  /\ CloseGracefully(OwnedActive \ {d})
  /\ UNCHANGED <<setup, cache, agents, tables, via, req, aborted, late,
                 service, awaited>>

\* Mutants of Owned: the socketPath Agents, or the test for a module-built
\* dispatcher, are forgotten.
OwnedNoPaths == {Default} \cup ({custom} \ {None})
OwnedUntested == {Default, custom} \cup {cache[i].agent : i \in DOMAIN cache}

\* What onModuleDestroy closes.
Owned ==
  {Default} \cup ({custom} \ {None}) \cup {cache[i].agent : i \in DOMAIN cache}

OnModuleDestroy ==
  /\ service = "up"
  /\ service' = "closing"
  /\ CloseGracefully(Owned)
  /\ awaited' = Owned \ closed
  /\ cache' = <<>>
  /\ UNCHANGED <<setup, instance, custom, agents, tables, via, req,
                 aborted, late>>

\* undici: close() resolves once nothing is in flight or open on it.
Idle(d) == \A r \in Requests : via[r] = d => req[r] \notin {"flying", "stream", "loose"}

CloseResolves(d) ==
  /\ grace[d] = "armed"
  /\ Idle(d)
  /\ grace' = [grace EXCEPT ![d] = "finished"]
  /\ UNCHANGED <<setup, instance, custom, cache, agents, closed, tables, sees,
                 via, req, aborted, late, service, awaited>>

\* Mutant of GraceElapses: destroy() alone.
GraceElapsesUnheard(d) ==
  /\ grace[d] = "armed"
  /\ grace' = [grace EXCEPT ![d] = "elapsed"]
  /\ UNCHANGED <<setup, instance, custom, cache, agents, closed, tables, sees,
                 via, req, aborted, late, service, awaited>>

\* The grace timer fires first: the streams in the set it was given are
\* aborted, which those received whole do not notice; destroy() after close()
\* reaches nothing.
GraceElapses(d) ==
  /\ grace[d] = "armed"
  /\ grace' = [grace EXCEPT ![d] = "elapsed"]
  /\ aborted' = aborted \cup
       (IF d \in sees THEN {r \in Requests : via[r] = d /\ req[r] = "stream"} ELSE {})
  /\ UNCHANGED <<setup, instance, custom, cache, agents, closed, tables, sees,
                 via, req, late, service, awaited>>

\* Promise.all resolves.
Destroyed ==
  /\ service = "closing"
  /\ \A d \in awaited : grace[d] \in {"finished", "elapsed"}
  /\ service' = "down"
  /\ UNCHANGED <<setup, instance, custom, cache, agents, closed, tables, grace,
                 sees, via, req, aborted, late, awaited>>

-----------------------------------------------------------------------------
Next ==
  \/ \E r \in Requests :
       \/ BeginGiven(r)
       \/ BeginPlain(r)
       \/ BeginPathHit(r)
       \/ BeginPathMiss(r)
       \/ Redirected(r)
       \/ NextHop(r)
       \/ Finished(r)
       \/ StreamHanded(r)
       \/ StreamFailed(r)
       \/ StreamReceived(r)
       \/ StreamCloses(r)
       \/ StreamAborted(r)
  \/ \E d \in Given \cup {instance} : SetDispatcher(d)
  \/ OnModuleDestroy
  \/ \E d \in Dispatchers : CloseResolves(d) \/ GraceElapses(d)
  \/ Destroyed

Spec == Init /\ [][Next]_vars

\* Timers fire, undici ends the stream it is receiving when its signal is aborted,
\* and promises settle. Servers and the readers of a stream owe nothing.
Fairness ==
  /\ \A d \in Dispatchers : WF_vars(GraceElapses(d))
  /\ \A r \in Requests : WF_vars(StreamAborted(r))
  /\ WF_vars(Destroyed)

FairSpec == Spec /\ Fairness

-----------------------------------------------------------------------------
(***************************************************************************)
(* Properties.                                                             *)
(***************************************************************************)

\* Types; a request has a dispatcher once it has begun, Map keys are distinct.
TypeOK ==
  /\ setup \in Setups
  /\ instance \in Dispatchers \cup {None}
  /\ custom \in {Built, None}
  /\ cache \in Seq([path: Paths, agent: Agents])
  /\ agents \in 0..AgentCap
  /\ closed \subseteq Dispatchers
  /\ tables \subseteq Dispatchers
  /\ grace \in [Dispatchers -> {"none", "armed", "finished", "elapsed"}]
  /\ sees \subseteq Dispatchers
  /\ via \in [Requests -> Dispatchers \cup {None}]
  /\ req \in [Requests -> Places]
  /\ aborted \subseteq Requests
  /\ late \subseteq Requests
  /\ service \in {"up", "closing", "down"}
  /\ awaited \subseteq Dispatchers

\* A dispatcher the application supplied is never closed by the service, and
\* no stream on it is ever aborted by the service's shutdown.
CallersDispatcherUntouched ==
  /\ closed \cap Given = {}
  /\ \A r \in aborted : via[r] \notin Given

\* Until shutdown, a request is never handed a dispatcher that has been closed,
\* whatever was set, evicted or cached before.
ServedByOpenDispatcher ==
  [][\A r \in Requests :
       service = "up" => req'[r] # "refused"]_vars

\* Every socketPath Agent ever built is closed or still within the cache's -
\* hence shutdown's - reach, though the cache holds no more than its bound; so is
\* the default Agent once shutdown has begun.
NoAgentForgotten ==
  /\ \A a \in 1..agents : a \in closed \/ \E i \in DOMAIN cache : cache[i].agent = a
  /\ Len(cache) <= MaxPaths
  /\ service # "up" => Default \in closed

\* When onModuleDestroy has returned, no stream that had been handed back before
\* is still being received on a dispatcher it closed, except one it has aborted.
DownLeavesNoStream ==
  service = "down" =>
    \A r \in Requests :
      req[r] = "stream" /\ via[r] \in awaited => r \in aborted \cup late

\* onModuleDestroy returns, also with streams nobody will ever read; and a
\* stream that was handed back before its dispatcher was closed gracefully is not
\* received for ever: it comes to its end, or its reader or the service gives it
\* up, even if the reader has abandoned it and the server never stops.
AbandonedStreamsHoldNothingUp ==
  /\ service = "closing" ~> service = "down"
  /\ \A r \in Requests :
       req[r] = "stream" /\ r \notin late /\ grace[via[r]] # "none" ~> req[r] # "stream"

-----------------------------------------------------------------------------
\* What close() is said to do: requests under way finish. A redirect chain that
\* is between two hops when its dispatcher is closed does not.
ClosingCutsNothing == \A r \in Requests : req[r] # "cut"
=============================================================================
