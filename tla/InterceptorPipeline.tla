-------------------------- MODULE InterceptorPipeline --------------------------
(***************************************************************************)
(* The two kinds of interceptors of an HttpService. The axiosRef           *)
(* interceptors of an instance are links of a chain built for each         *)
(* subscription: request interceptors, the dispatch, response interceptors,*)
(* each link a .then(fulfilled, rejected). The native ones, shared by all   *)
(* instances, are wrapped around the dispatch by a handler that is cached  *)
(* under a version number. Interceptors come and go while requests run:    *)
(* handlers are any code of the application, so between two steps of a     *)
(* request any other step may come.                                        *)
(***************************************************************************)
EXTENDS Integers, SequencesExt

CONSTANTS
  Instances,   \* axiosRef and the instances axiosRef.create() made
  Calls,       \* subscriptions
  Handlers,    \* what an interceptor can be registered with
  MaxUses,     \* bound: axiosRef interceptors registered over time
  MaxNatives   \* bound: native interceptors

\* Which of fulfilled, rejected and runWhen use() was given.
ASSUME HandlersAssumption ==
  Handlers \subseteq [fulfilled: BOOLEAN, rejected: BOOLEAN, runWhen: BOOLEAN]
ASSUME BoundsAssumption == MaxUses \in Nat /\ MaxNatives \in Nat

Sides == {"request", "response"}

\* A registration: its serial number, and the id its use() returned, which is
\* its place in the store (counted from 1 here).
Entries == [nr: 1..MaxUses, id: 1..MaxUses, side: Sides, on: Handlers]
Ejected == [nr |-> 0]

VARIABLES
  entries,       \* the store of each instance and side
  uses,          \* how often use() was called
  interceptors,  \* how many native interceptors there are; none ever goes
  version,       \* interceptorsVersion
  cached,        \* the cached handler: the natives in it, and its version
  call           \* the state of each subscription

vars == <<entries, uses, interceptors, version, cached, call>>

\* links: what is left of the chain before or after the dispatch; later: the
\* response links; value: what the last link settled with; pending: a promise
\* of a handler is awaited; sync: subscribe() has not returned yet; left: the
\* subscriber left before it had; closed: the subscriber has been told, or has
\* left and the chain is torn down; natives: the native interceptors around its
\* dispatch. For the properties, due: the interceptors in force when it began;
\* ran: those that did run.
CallType ==
  [phase: {"cold", "request", "flying", "adapting", "response", "lost"},
   links: Seq(Entries), later: Seq(Entries), value: {"ok", "error"},
   pending: BOOLEAN, sync: BOOLEAN, left: BOOLEAN, closed: BOOLEAN,
   told: {"none", "ok", "error"},
   natives: 0..MaxNatives, due: SUBSET Entries, ran: Seq(Entries)]

Cold ==
  [phase |-> "cold", links |-> <<>>, later |-> <<>>, value |-> "ok", pending |-> FALSE,
   sync |-> FALSE, left |-> FALSE, closed |-> FALSE, told |-> "none",
   natives |-> 0, due |-> {}, ran |-> <<>>]

Init ==
  /\ entries = [i \in Instances |-> [side \in Sides |-> <<>>]]
  /\ uses = 0
  /\ interceptors \in 0..MaxNatives
  /\ version = 0
  /\ cached = [natives |-> 0, version |-> -1]
  /\ call = [c \in Calls |-> Cold]

-----------------------------------------------------------------------------
(***************************************************************************)
(* Registration.                                                           *)
(***************************************************************************)

\* Mutant of Use: the id is one off.
UseOneOff(i, side, on) ==
  /\ uses < MaxUses
  /\ uses' = uses + 1
  /\ entries' = [entries EXCEPT ![i][side] =
       Append(@, [nr |-> uses + 1, id |-> Len(@), side |-> side, on |-> on])]
  /\ UNCHANGED <<interceptors, version, cached, call>>

Use(i, side, on) ==
  /\ uses < MaxUses
  /\ uses' = uses + 1
  /\ entries' = [entries EXCEPT ![i][side] =
       Append(@, [nr |-> uses + 1, id |-> Len(@) + 1, side |-> side, on |-> on])]
  /\ UNCHANGED <<interceptors, version, cached, call>>

\* Mutant of Eject: the slot is removed, not emptied.
EjectSplices(i, side, id) ==
  /\ id \in DOMAIN entries[i][side]
  /\ entries' = [entries EXCEPT ![i][side] = RemoveAt(@, id)]
  /\ UNCHANGED <<uses, interceptors, version, cached, call>>

Eject(i, side, id) ==
  /\ id \in DOMAIN entries[i][side]
  /\ entries' = [entries EXCEPT ![i][side][id] = Ejected]
  /\ UNCHANGED <<uses, interceptors, version, cached, call>>

Clear(i, side) ==
  /\ entries' = [entries EXCEPT ![i][side] = <<>>]
  /\ UNCHANGED <<uses, interceptors, version, cached, call>>

\* Mutant of AddInterceptor: the version is not bumped.
AddInterceptorSilently ==
  /\ interceptors < MaxNatives
  /\ interceptors' = interceptors + 1
  /\ UNCHANGED <<entries, uses, version, cached, call>>

AddInterceptor ==
  /\ interceptors < MaxNatives
  /\ interceptors' = interceptors + 1
  /\ version' = version + 1
  /\ UNCHANGED <<entries, uses, cached, call>>

-----------------------------------------------------------------------------
(***************************************************************************)
(* Subscribing, and the dispatch.                                          *)
(***************************************************************************)

\* What is left of a store, in its order.
Without(store, gone) ==
  LET kept[k \in 0 .. Len(store)] ==
        IF k = 0 THEN <<>>
        ELSE IF store[k] \in gone THEN kept[k - 1] ELSE Append(kept[k - 1], store[k])
  IN  kept[Len(store)]
Live(store) == Without(store, {Ejected})

\* Mutant of HasAxiosPipeline: response interceptors alone do not count.
HasAxiosPipelineForRequests(i, shaped) ==
  shaped \/ Live(entries[i]["request"]) # <<>>

\* shaped: a transform or a function adapter is in play.
HasAxiosPipeline(i, shaped) ==
  shaped \/ \E side \in Sides : Live(entries[i][side]) # <<>>

\* Request interceptors run last in first out, and only they have a runWhen.
ActiveAxiosInterceptors(i, side, skipped) ==
  IF side = "request"
    THEN Reverse(Without(Live(entries[i][side]), skipped))
    ELSE Live(entries[i][side])

\* The entries whose runWhen may refuse the config.
Conditional(i) == {e \in ToSet(Live(entries[i]["request"])) : e.on.runWhen}

\* executeInterceptorChain: the handler is built anew when it is out of date.
CurrentHandler ==
  IF cached.version # version
    THEN [natives |-> interceptors, version |-> version]
    ELSE cached

DispatchUndici(c, started) ==
  /\ cached' = CurrentHandler
  /\ call' = [call EXCEPT ![c] =
       [started EXCEPT !.phase = "flying", !.natives = CurrentHandler.natives]]
  /\ UNCHANGED <<entries, uses, interceptors, version>>

\* Steps that only change the subscription c.
Becomes(c, next) ==
  /\ call' = [call EXCEPT ![c] = next]
  /\ UNCHANGED <<entries, uses, interceptors, version, cached>>

\* Not subscribed to yet, or to be subscribed to again (defer, retry()).
Idle(c) == call[c].phase = "cold" \/ (call[c].closed /\ ~call[c].pending)

\* The chain is fixed when a subscription begins, each with its own. Without an
\* interceptor, transform or adapter the request is dispatched there and then;
\* otherwise the chain runs inside subscribe() until something is awaited.
Subscribe(c, i, shaped, skipped) ==
  LET started == [Cold EXCEPT !.due =
        (UNION {ToSet(Live(entries[i][side])) : side \in Sides}) \ skipped]
  IN
  /\ Idle(c)
  /\ IF HasAxiosPipeline(i, shaped)
       THEN Becomes(c, [started EXCEPT
              !.phase = "request",
              !.sync = TRUE,
              !.links = ActiveAxiosInterceptors(i, "request", skipped),
              !.later = ActiveAxiosInterceptors(i, "response", skipped)])
       ELSE DispatchUndici(c, started)

\* Building the config throws, or a runWhen does.
SubscribeFails(c) ==
  /\ Idle(c)
  /\ Becomes(c, [Cold EXCEPT !.phase = "response", !.told = "error", !.closed = TRUE])

Ready(c, phase) == call[c].phase = phase /\ ~call[c].closed /\ ~call[c].pending

\* The response links follow, on what the dispatch settled with.
Respond(c, value) ==
  Becomes(c, [call[c] EXCEPT !.phase = "response", !.links = call[c].later, !.value = value])

\* A response link that is a chainStep, one without handlers being none: its
\* fresh observer stands between the subscriber and the dispatch.
Stepped(c) ==
  \E link \in ToSet(call[c].later) : link.on.fulfilled \/ link.on.rejected

\* The request links are done: serializeAxiosConfig may throw, a function
\* adapter takes over, or undici. An error skips them. A subscriber who left
\* during this run is noticed only if it is mergeMap's own, without a chainStep
\* in between; otherwise the dispatch is made for nobody.
Dispatch(c) ==
  /\ Ready(c, "request")
  /\ call[c].links = <<>>
  /\ ~call[c].left \/ Stepped(c)
  /\ \/ Respond(c, "error")
     \/ /\ call[c].value = "ok"
        /\ \/ Becomes(c, [call[c] EXCEPT !.phase = "adapting"])
           \/ DispatchUndici(c, call[c])

DispatchNothing(c) ==
  /\ Ready(c, "request")
  /\ call[c].links = <<>>
  /\ call[c].left /\ ~Stepped(c)
  /\ Becomes(c, [call[c] EXCEPT !.sync = FALSE, !.closed = TRUE])

\* Mutant of Returned: the teardown of a subscriber who has left does not run.
ReturnedLinked(c) ==
  /\ Ready(c, "flying") \/ Ready(c, "adapting")
  /\ call[c].sync
  /\ Becomes(c, [call[c] EXCEPT !.sync = FALSE])

\* The dispatch has nothing to say yet, and subscribe() returns through the
\* links. Each hands its teardown to its subscriber; one that has left runs it.
Returned(c) ==
  /\ Ready(c, "flying") \/ Ready(c, "adapting")
  /\ call[c].sync
  /\ Becomes(c, [call[c] EXCEPT !.sync = FALSE, !.closed = call[c].left])

\* The native interceptors and undici come to an answer, which may be within
\* subscribe() (a native interceptor's own), or the adapter, which may not.
Answer(c) ==
  /\ Ready(c, "flying") \/ (Ready(c, "adapting") /\ ~call[c].sync)
  /\ \E value \in {"ok", "error"} : Respond(c, value)

\* What the adapter resolved with is transformed and its status validated in a
\* .then(ok, fail), whose fail does not see what ok throws: nobody hears of it.
AnswerLost(c) ==
  /\ Ready(c, "adapting")
  /\ ~call[c].sync
  /\ Becomes(c, [call[c] EXCEPT !.phase = "lost"])

-----------------------------------------------------------------------------
(***************************************************************************)
(* chainStep.                                                              *)
(***************************************************************************)

InChain(c) == (Ready(c, "request") \/ Ready(c, "response")) /\ call[c].links # <<>>

Handles(link, value) == IF value = "ok" THEN link.on.fulfilled ELSE link.on.rejected

\* A link that does not handle what comes in passes it on.
PassOn(c) ==
  /\ InChain(c)
  /\ ~Handles(Head(call[c].links), call[c].value)
  /\ Becomes(c, [call[c] EXCEPT !.links = Tail(@)])

\* Mutant of Throws: a link's own rejected handler sees what fulfilled throws.
ThrowsToItself(link, now) ==
  [now EXCEPT !.value = "error",
              !.links = IF link.on.rejected THEN <<link>> \o @ ELSE @]

\* What a handler throws goes to the next link.
Throws(link, now) == [now EXCEPT !.value = "error"]

\* Mutant of Awaits: the source completes, and so does the link.
AwaitsNothing(now) == [now EXCEPT !.closed = TRUE]

\* The source has completed, but the link has not: it awaits the promise. A run
\* within subscribe() ends here, and with it the chain of one who has left.
Awaits(now) ==
  [now EXCEPT !.pending = TRUE, !.sync = FALSE, !.closed = now.left]

\* A link's handler returns, throws, or returns a promise.
RunLink(c) ==
  LET link == Head(call[c].links)
      now  == [call[c] EXCEPT !.links = Tail(@), !.ran = Append(@, link)]
  IN
  /\ InChain(c)
  /\ Handles(link, call[c].value)
  /\ \/ Becomes(c, [now EXCEPT !.value = "ok"])
     \/ Becomes(c, Throws(link, now))
     \/ Becomes(c, Awaits(now))

\* The promise settles; a closed subscriber takes nothing.
Settle(c) ==
  /\ call[c].pending
  /\ \E value \in {"ok", "error"} :
       Becomes(c, [call[c] EXCEPT !.pending = FALSE,
                                  !.value = IF call[c].closed THEN @ ELSE value])

\* The last link has settled: the subscriber is told, if it is there.
Tell(c) ==
  /\ Ready(c, "response")
  /\ call[c].links = <<>>
  /\ Becomes(c, [call[c] EXCEPT !.told = IF call[c].left THEN "none" ELSE call[c].value,
                                !.sync = FALSE, !.closed = TRUE])

\* The subscriber leaves; each chainStep unsubscribes from its source - if it
\* has been given the subscription: within subscribe() (from a handler, by way
\* of takeUntil and the like) only the outermost link learns of it.
Unsubscribe(c) ==
  /\ call[c].phase # "cold" /\ ~call[c].closed /\ ~call[c].left
  /\ Becomes(c, [call[c] EXCEPT !.left = call[c].sync, !.closed = ~call[c].sync])

Step(c) ==
  \/ Dispatch(c) \/ DispatchNothing(c) \/ Returned(c) \/ Answer(c) \/ AnswerLost(c)
  \/ PassOn(c) \/ RunLink(c) \/ Settle(c) \/ Tell(c)

Next ==
  \/ \E i \in Instances, side \in Sides :
       \/ \E on \in Handlers : Use(i, side, on)
       \/ \E id \in 1..MaxUses : Eject(i, side, id)
       \/ Clear(i, side)
  \/ AddInterceptor
  \/ \E c \in Calls :
       \/ \E i \in Instances, shaped \in BOOLEAN :
            \E skipped \in SUBSET Conditional(i) : Subscribe(c, i, shaped, skipped)
       \/ SubscribeFails(c)
       \/ Step(c)
       \/ Unsubscribe(c)

Spec == Init /\ [][Next]_vars

\* Handlers return, their promises settle, and dispatches are answered, which
\* is RequestLifecycle's matter.
FairSpec == Spec /\ \A c \in Calls : WF_vars(Step(c))

-----------------------------------------------------------------------------
(***************************************************************************)
(* Properties.                                                             *)
(***************************************************************************)

\* Types.
TypeOK ==
  /\ entries \in [Instances -> [Sides -> Seq(Entries \cup {Ejected})]]
  /\ uses \in 0..MaxUses
  /\ interceptors \in 0..MaxNatives
  /\ version \in 0..MaxNatives
  /\ cached \in [natives: 0..MaxNatives, version: -1..MaxNatives]
  /\ call \in [Calls -> CallType]

\* Between two clear()s the id that use() returned ejects that interceptor and
\* no other, whatever else was ejected meanwhile.
IdsStayStable ==
  \A i \in Instances, side \in Sides : \A id \in DOMAIN entries[i][side] :
    entries[i][side][id] # Ejected => entries[i][side][id].id = id

\* Request interceptors run last in first out, before the response interceptors,
\* which run first in first out; and no interceptor runs twice, so none is given
\* the error that it threw itself.
RunsInAxiosOrder ==
  \A c \in Calls : LET ran == call[c].ran IN
    \A j, k \in DOMAIN ran : j < k =>
      CASE ran[j].side = "request" /\ ran[k].side = "request" -> ran[j].nr > ran[k].nr
        [] ran[j].side = "response" /\ ran[k].side = "response" -> ran[j].nr < ran[k].nr
        [] OTHER -> ran[j].side = "request"

\* A request that ran to its end ran, of its instance's interceptors at the time
\* it was subscribed to, each that handles both outcomes - and no other one,
\* whatever was registered or ejected meanwhile.
RunsWhatWasInForce ==
  \A c \in Calls :
    /\ ToSet(call[c].ran) \subseteq call[c].due
    /\ call[c].told # "none" =>
         {e \in call[c].due : e.on.fulfilled /\ e.on.rejected} \subseteq ToSet(call[c].ran)

\* A dispatch runs through the native interceptors there are at that moment.
DispatchedThroughCurrent ==
  [][\A c \in Calls :
       call[c].phase # "flying" /\ call'[c].phase = "flying"
         => call'[c].natives = interceptors]_vars

\* Once the subscriber has left no interceptor runs and nothing is dispatched,
\* unless it subscribes again. Leaving from within the run that subscribe() makes
\* stops that run only where it ends: no later link waits for anything on behalf
\* of the leaver, nothing is told, and nothing dispatched unless there is a
\* response interceptor.
NothingRunsAfterLeaving ==
  /\ [](\A c \in Calls : call[c].left => call[c].closed \/ (call[c].sync /\ ~call[c].pending))
  /\ [][\A c \in Calls :
          /\ call[c].closed =>
               \/ /\ call'[c].closed /\ call'[c].ran = call[c].ran
                  /\ call'[c].phase = call[c].phase
               \/ Idle(c) /\ call'[c].ran = <<>>
          /\ call[c].left /\ ~call[c].closed =>
               /\ call'[c].left /\ call'[c].told = "none"
               /\ call[c].phase = "request" /\ ~Stepped(c) => call'[c].phase = "request"]_vars

\* A subscriber is told a value or an error, or has left: no chain stays open
\* for ever, and none just completes - but for the answer of a function adapter
\* that is lost when a transformResponse or validateStatus throws on it.
EveryoneIsTold ==
  /\ \A c \in Calls : call[c].phase # "cold" ~> call[c].closed \/ call[c].phase = "lost"
  /\ [][\A c \in Calls :
          ~call[c].closed /\ call'[c].closed =>
            call'[c].told # "none" \/ call[c].left \/ Unsubscribe(c)]_vars
=============================================================================
