--------------------------- MODULE RequestLifecycle ---------------------------
(***************************************************************************)
(* One subscription of HttpService#executeRequest, from the subscriber     *)
(* function to the end of its promise chain, and the two things that       *)
(* outlive it: the caller's AbortSignal and a `responseType: 'stream'`     *)
(* body handed back to the caller.                                         *)
(*                                                                         *)
(* A request walks through stages, one per promise it waits on:            *)
(*    sent    undici's request() for the current hop                       *)
(*    dump    dumpRedirectBody() of a 3xx response                         *)
(*    read    toAxiosLikeResponse() of the last response                   *)
(*    local   resolveDataUrlRequest() of a `data:` URL                     *)
(* A promise settles in one step (an event of the network, of the body or  *)
(* of undici's abort path) and its handler runs in another (the microtask),*)
(* so that application code - an abort, an unsubscribe - may run between   *)
(* the two. Timers cannot: the event loop drains microtasks first (see     *)
(* MicrotaskDue, a conjunct of Deadline).                                  *)
(***************************************************************************)
EXTENDS Naturals

CONSTANTS
  Requests,       \* the subscriptions
  Signals,        \* the AbortSignals callers share between requests
  NoSignal,       \* "no config.signal"
  Configs,        \* the request configurations the environment picks from
  MaxRedirectCap  \* bound on maxRedirects (the code's default is 21)

\* What executeRequest and resolveSignal tell apart in a request's options.
\*   entry  how the subscriber function ends: "dispatch" reaches request();
\*          "refused" is an unparsable timeout or sensitiveHeaders, "local" a
\*          data: URL, "rejected" a body over maxBodyLength, a bad protocol or
\*          a malformed URL, "throws" a request() that throws synchronously
\*   token  a legacy cancelToken: absent, live, or cancelled beforehand
ConfigType ==
  [entry: {"dispatch", "refused", "local", "rejected", "throws"},
   signal: Signals \cup {NoSignal}, token: {"none", "live", "cancelled"},
   timeout: BOOLEAN, maxRedirects: 0..MaxRedirectCap, stream: BOOLEAN]

ASSUME CapAssumption == MaxRedirectCap \in Nat
ASSUME SignalAssumption == NoSignal \notin Signals
ASSUME ConfigAssumption == Configs \subseteq ConfigType

VARIABLES
  conf,         \* the options of each request (fixed)
  stage,        \* which promise the request waits on
  promise,      \* "pending", or how that promise settled (handler not run yet)
  onDumped,     \* what follows the dump: "hop", "tooMany" or "badHop"
  redirects,    \* redirectCount
  wire,         \* how many hops undici accepted for dispatch
  settled,      \* the `settled` flag of the closure
  abort,        \* RequestAbortSignal: "none" or its first abort reason
  timer,        \* deadlineTimer is armed
  listener,     \* onUserAbort: "none", "on", or "fired" (once: true)
  bridge,       \* resolveSignal's own listener sits on the caller's signal
  aborted,      \* the callers' signals that have fired
  sub,          \* the subscription: "cold", "open", "told" or "left"
  outcome,      \* what the subscriber was told
  body,         \* the stream body handed out: "none", "open", "closed"
  openStream,   \* the closure's openStream is set
  tracked,      \* the abort signal is in openStreamAbortsByDispatcher
  received      \* the stream body has come in whole: nothing but its reader
                \* ends it any more

vars == <<conf, stage, promise, onDumped, redirects, wire, settled, abort,
          timer, listener, bridge, aborted, sub, outcome, body, openStream,
          tracked, received>>

Stages == {"idle", "sent", "dump", "read", "local", "over"}
Settlements == {"pending", "redirect", "final", "failed", "timedOut", "aborted",
                "dumped", "ok", "rejected"}
Reasons == {"none", "user", "deadline", "unsubscribe", "shutdown"}
Outcomes == {"none", "response", "canceled", "timeout", "error"}

\* config.signal combined with config.cancelToken: what executeRequest calls
\* userSignal, and whether it had already fired when the request started.
HasUserSignal(c) == c.signal # NoSignal \/ c.token # "none"
PreAborted(c) == c.token = "cancelled" \/ c.signal \in aborted

Init ==
  /\ conf \in [Requests -> Configs]
  /\ stage = [r \in Requests |-> "idle"]
  /\ promise = [r \in Requests |-> "pending"]
  /\ onDumped = [r \in Requests |-> "hop"]
  /\ redirects = [r \in Requests |-> 0]
  /\ wire = [r \in Requests |-> 0]
  /\ settled = [r \in Requests |-> FALSE]
  /\ abort = [r \in Requests |-> "none"]
  /\ timer = [r \in Requests |-> FALSE]
  /\ listener = [r \in Requests |-> "none"]
  /\ bridge = [r \in Requests |-> FALSE]
  /\ aborted = {}
  /\ sub = [r \in Requests |-> "cold"]
  /\ outcome = [r \in Requests |-> "none"]
  /\ body = [r \in Requests |-> "none"]
  /\ openStream = [r \in Requests |-> FALSE]
  /\ tracked = [r \in Requests |-> FALSE]
  /\ received = [r \in Requests |-> FALSE]

-----------------------------------------------------------------------------
(***************************************************************************)
(* The closures of executeRequest.                                         *)
(***************************************************************************)

\* RequestAbortSignal#abort: only the first call counts.
AbortedWith(r, reason) == IF abort[r] = "none" THEN reason ELSE abort[r]

\* Mutant of Tell: an answer that reaches a subscriber who has left.
TellLeavers(r, what) ==
  /\ sub' = [sub EXCEPT ![r] = "told"]
  /\ outcome' = [outcome EXCEPT ![r] = what]

\* subscriber.next + complete, or subscriber.error: RxJS delivers nothing to a
\* subscriber that has already left.
Tell(r, what) ==
  IF sub[r] = "open"
    THEN /\ sub' = [sub EXCEPT ![r] = "told"]
         /\ outcome' = [outcome EXCEPT ![r] = what]
    ELSE UNCHANGED <<sub, outcome>>

\* The half of the teardown that leaves the caller's signal alone from now on.
Detach(r) ==
  /\ listener' = [listener EXCEPT ![r] = "none"]
  /\ bridge' = [bridge EXCEPT ![r] = FALSE]

\* Mutant of Send: the hop is dispatched without the request's abort signal.
SendUnsignalled(r) ==
  /\ stage' = [stage EXCEPT ![r] = "sent"]
  /\ promise' = [promise EXCEPT ![r] = "pending"]
  /\ wire' = [wire EXCEPT ![r] = @ + 1]

\* request(): undici takes the hop unless its signal has already fired, in
\* which case the promise will reject with the abort reason.
Send(r) ==
  /\ stage' = [stage EXCEPT ![r] = "sent"]
  /\ promise' = [promise EXCEPT ![r] = "pending"]
  /\ wire' = [wire EXCEPT ![r] = IF abort[r] = "none" THEN @ + 1 ELSE @]

Over(r) ==
  /\ stage' = [stage EXCEPT ![r] = "over"]
  /\ promise' = [promise EXCEPT ![r] = "pending"]

\* The handler of r's promise is the next microtask - or, for a stream, the
\* few microtasks of a toAxiosLikeResponse that never awaits the body.
MicrotaskDue(r) == promise[r] # "pending" \/ (stage[r] = "read" /\ conf[r].stream)

\* toAxiosError: an AbortError is a cancellation, undici's idle timers are
\* timeouts, and any other rejection keeps being an error.
ErrorKind(how) ==
  CASE how = "aborted" -> "canceled"
    [] how = "timedOut" -> "timeout"
    [] OTHER -> "error"

\* Mutant of FailKind: the error as it came, whatever aborted the request.
FailKindBlind(r, kind) == kind

\* What fail() reports: the deadline's reason outranks the error it was given.
FailKind(r, kind) == IF abort[r] = "deadline" THEN "timeout" ELSE kind

\* fail(): settles, stops the deadline, reports, and - error() ends the
\* subscription - runs the teardown, unless unsubscribing already did.
Fail(r, kind) ==
  /\ Over(r)
  /\ settled' = [settled EXCEPT ![r] = TRUE]
  /\ timer' = [timer EXCEPT ![r] = FALSE]
  /\ Tell(r, FailKind(r, kind))
  /\ Detach(r)

-----------------------------------------------------------------------------
(***************************************************************************)
(* The subscriber function. resolveSignal runs before it, while the request*)
(* is normalised, so its listener on the caller's signal is there on every *)
(* path, the early ones included.                                          *)
(***************************************************************************)

Begin(r, entry) ==
  /\ stage[r] = "idle"
  /\ conf[r].entry = entry
  /\ bridge' = [bridge EXCEPT ![r] =
                  conf[r].token # "none" /\ conf[r].signal # NoSignal
                  /\ conf[r].signal \notin aborted]
  /\ UNCHANGED <<conf, onDumped, redirects, aborted, body, openStream, tracked, received>>

\* An unparsable timeout or invalid sensitiveHeaders: error and return, before
\* any listener of executeRequest's own, and without a teardown.
SubscribeRefused(r) ==
  /\ Begin(r, "refused")
  /\ Over(r)
  /\ sub' = [sub EXCEPT ![r] = "told"]
  /\ outcome' = [outcome EXCEPT ![r] = "error"]
  /\ UNCHANGED <<wire, settled, abort, timer, listener>>

\* A data: URL is decoded locally; nothing of the rest is set up.
SubscribeLocal(r) ==
  /\ Begin(r, "local")
  /\ stage' = [stage EXCEPT ![r] = "local"]
  /\ sub' = [sub EXCEPT ![r] = "open"]
  /\ UNCHANGED <<promise, wire, settled, abort, timer, listener, outcome>>

\* The caller's signal is hooked, or found to have fired already.
Hook(r) ==
  /\ listener' = [listener EXCEPT ![r] =
                    IF HasUserSignal(conf[r]) /\ ~PreAborted(conf[r])
                      THEN "on" ELSE "none"]
  /\ abort' = [abort EXCEPT ![r] = IF PreAborted(conf[r]) THEN "user" ELSE @]

\* maxBodyLength, an unsupported protocol, a malformed URL: the signal has been
\* hooked, the deadline is cleared, and the function returns no teardown.
SubscribeRejected(r) ==
  /\ Begin(r, "rejected")
  /\ Hook(r)
  /\ Over(r)
  /\ settled' = [settled EXCEPT ![r] = TRUE]
  /\ sub' = [sub EXCEPT ![r] = "told"]
  /\ outcome' = [outcome EXCEPT ![r] = "error"]
  /\ UNCHANGED <<wire, timer>>

\* request() throws synchronously: RxJS reports it, `settled` stays false, the
\* deadline stays armed, and again there is no teardown.
SubscribeThrows(r) ==
  /\ Begin(r, "throws")
  /\ Hook(r)
  /\ Over(r)
  /\ timer' = [timer EXCEPT ![r] = conf[r].timeout]
  /\ sub' = [sub EXCEPT ![r] = "told"]
  /\ outcome' = [outcome EXCEPT ![r] = "error"]
  /\ UNCHANGED <<wire, settled>>

SubscribeDispatch(r) ==
  /\ Begin(r, "dispatch")
  /\ Hook(r)
  /\ stage' = [stage EXCEPT ![r] = "sent"]
  /\ wire' = [wire EXCEPT ![r] = IF PreAborted(conf[r]) THEN 0 ELSE 1]
  /\ timer' = [timer EXCEPT ![r] = conf[r].timeout]
  /\ sub' = [sub EXCEPT ![r] = "open"]
  /\ UNCHANGED <<promise, settled, outcome>>

-----------------------------------------------------------------------------
(***************************************************************************)
(* Promises settle: the network, the bodies, and undici's abort path.      *)
(***************************************************************************)

Settle(r, from, how) ==
  /\ stage[r] = from
  /\ promise[r] = "pending"
  /\ promise' = [promise EXCEPT ![r] = how]
  /\ UNCHANGED <<conf, stage, onDumped, redirects, wire, settled, abort, timer,
                 listener, bridge, aborted, sub, outcome, body, openStream,
                 tracked, received>>

\* Headers arrive: a redirect to follow or look at, or anything else.
HeadersArrive(r) ==
  /\ abort[r] = "none"
  /\ \/ Settle(r, "sent", "redirect")
     \/ Settle(r, "sent", "final")

\* The connection fails, or one of undici's connect or idle timers fires. An
\* aborted hop can still fail this way: undici looks at the signal of a queued
\* hop only once it has a connection for it.
NetworkFails(r) ==
  \/ Settle(r, "sent", "failed")
  \/ Settle(r, "sent", "timedOut")

\* The 3xx body is drained or destroyed.
DumpEnds(r) == Settle(r, "dump", "dumped")

\* toAxiosLikeResponse resolves, or rejects (status, limit, decode, socket,
\* idle timer). It may still resolve after an abort: a decoder can be at work
\* on a body undici has already received in full.
BodyEnds(r) ==
  \/ Settle(r, "read", "ok")
  \/ Settle(r, "read", "rejected")
  \/ ~conf[r].stream /\ Settle(r, "read", "timedOut")

DataUrlEnds(r) ==
  \/ Settle(r, "local", "ok")
  \/ Settle(r, "local", "rejected")

\* Mutant of AbortSettles: a redirect body is dumped to its end, abort or not.
AbortSettlesNoDump(r) ==
  /\ abort[r] # "none"
  /\ \/ Settle(r, "sent", "aborted")
     \/ ~conf[r].stream /\ Settle(r, "read", "aborted")

\* undici's own listener on the RequestAbortSignal: the hop in flight, the body
\* being dumped or the body being read ends.
AbortSettles(r) ==
  /\ abort[r] # "none"
  /\ \/ Settle(r, "sent", "aborted")
     \/ Settle(r, "dump", "dumped")
     \/ ~conf[r].stream /\ Settle(r, "read", "aborted")

-----------------------------------------------------------------------------
(***************************************************************************)
(* Handlers.                                                               *)
(***************************************************************************)

\* onResponse, the branch that follows a redirect: the body is dumped first,
\* and what comes after it depends on the count and on buildRedirectHop.
OnRedirect(r) ==
  /\ stage[r] = "sent"
  /\ promise[r] = "redirect"
  /\ conf[r].maxRedirects # 0
  /\ redirects' = [redirects EXCEPT ![r] = @ + 1]
  /\ IF redirects[r] + 1 > conf[r].maxRedirects
       THEN onDumped' = [onDumped EXCEPT ![r] = "tooMany"]
       ELSE \E next \in {"hop", "badHop"} :
              onDumped' = [onDumped EXCEPT ![r] = next]
  /\ stage' = [stage EXCEPT ![r] = "dump"]
  /\ promise' = [promise EXCEPT ![r] = "pending"]
  /\ UNCHANGED <<conf, wire, settled, abort, timer, listener, bridge, aborted,
                 sub, outcome, body, openStream, tracked, received>>

\* onResponse, every other response - a 3xx with maxRedirects 0 included.
OnFinalResponse(r) ==
  /\ stage[r] = "sent"
  /\ \/ promise[r] = "final"
     \/ promise[r] = "redirect" /\ conf[r].maxRedirects = 0
  /\ stage' = [stage EXCEPT ![r] = "read"]
  /\ promise' = [promise EXCEPT ![r] = "pending"]
  /\ UNCHANGED <<conf, onDumped, redirects, wire, settled, abort, timer,
                 listener, bridge, aborted, sub, outcome, body, openStream,
                 tracked, received>>

\* request() rejects.
OnRequestRejected(r) ==
  /\ stage[r] = "sent"
  /\ promise[r] \in {"failed", "timedOut", "aborted"}
  /\ Fail(r, ErrorKind(promise[r]))
  /\ UNCHANGED <<conf, onDumped, redirects, wire, abort, aborted, body,
                 openStream, tracked, received>>

\* The redirect body is gone: give up (too many redirects, buildRedirectHop
\* threw, the idle-timer budget of the chain is used up, or request() throws)
\* or dispatch the next hop with the same abort signal.
AfterDumpFails(r) ==
  /\ stage[r] = "dump"
  /\ promise[r] = "dumped"
  /\ \/ Fail(r, "error")
     \/ onDumped[r] = "hop" /\ Fail(r, "timeout")
  /\ UNCHANGED <<conf, onDumped, redirects, wire, abort, aborted, body,
                 openStream, tracked, received>>

AfterDumpHops(r) ==
  /\ stage[r] = "dump"
  /\ promise[r] = "dumped"
  /\ onDumped[r] = "hop"
  /\ Send(r)
  /\ UNCHANGED <<conf, onDumped, redirects, settled, abort, timer, listener,
                 bridge, aborted, sub, outcome, body, openStream, tracked, received>>

\* toAxiosLikeResponse rejected. A status error of a stream request carries the
\* open body on error.response.data.
OnReadRejected(r) ==
  /\ stage[r] = "read"
  /\ promise[r] \in {"rejected", "timedOut", "aborted"}
  /\ Fail(r, ErrorKind(promise[r]))
  /\ body' = [body EXCEPT ![r] =
                IF conf[r].stream THEN "open" ELSE @]
  /\ UNCHANGED <<conf, onDumped, redirects, wire, abort, aborted, openStream,
                 tracked, received>>

\* Mutants of OnReadResolved: completing detaches the caller's signal from a
\* stream too; `settled` is only set after complete() has run the teardown.
OnReadResolvedDetached(r) ==
  /\ stage[r] = "read"
  /\ promise[r] = "ok"
  /\ Over(r)
  /\ settled' = [settled EXCEPT ![r] = TRUE]
  /\ timer' = [timer EXCEPT ![r] = FALSE]
  /\ Tell(r, "response")
  /\ body' = [body EXCEPT ![r] = IF conf[r].stream THEN "open" ELSE @]
  /\ tracked' = [tracked EXCEPT ![r] = conf[r].stream]
  /\ Detach(r)
  /\ UNCHANGED <<conf, onDumped, redirects, wire, abort, aborted, openStream,
                 received>>
OnReadResolvedLate(r) ==
  /\ stage[r] = "read"
  /\ promise[r] = "ok"
  /\ Over(r)
  /\ settled' = [settled EXCEPT ![r] = TRUE]
  /\ timer' = [timer EXCEPT ![r] = FALSE]
  /\ abort' = [abort EXCEPT ![r] = AbortedWith(r, "unsubscribe")]
  /\ Tell(r, "response")
  /\ body' = [body EXCEPT ![r] = IF conf[r].stream THEN "open" ELSE @]
  /\ tracked' = [tracked EXCEPT ![r] = conf[r].stream]
  /\ UNCHANGED <<conf, onDumped, redirects, wire, listener, bridge, aborted,
                 openStream, received>>

\* The response is handed back. A stream is tracked for shutdown, and keeps
\* onUserAbort (and the bridge) until it closes; otherwise both go now, the
\* second through the teardown that complete() triggers.
OnReadResolved(r) ==
  LET keeps == conf[r].stream /\ listener[r] # "none" IN
  /\ stage[r] = "read"
  /\ promise[r] = "ok"
  /\ Over(r)
  /\ settled' = [settled EXCEPT ![r] = TRUE]
  /\ timer' = [timer EXCEPT ![r] = FALSE]
  /\ Tell(r, "response")
  /\ body' = [body EXCEPT ![r] = IF conf[r].stream THEN "open" ELSE @]
  /\ tracked' = [tracked EXCEPT ![r] = conf[r].stream]
  /\ openStream' = [openStream EXCEPT ![r] = keeps]
  /\ IF keeps THEN UNCHANGED <<listener, bridge>> ELSE Detach(r)
  /\ UNCHANGED <<conf, onDumped, redirects, wire, abort, aborted, received>>

\* The data: URL's promise: no teardown exists on this path.
OnDataUrl(r) ==
  /\ stage[r] = "local"
  /\ promise[r] # "pending"
  /\ Over(r)
  /\ Tell(r, IF promise[r] = "ok" THEN "response" ELSE "error")
  /\ UNCHANGED <<conf, onDumped, redirects, wire, settled, abort, timer,
                 listener, bridge, aborted, body, openStream, tracked, received>>

-----------------------------------------------------------------------------
(***************************************************************************)
(* The application, the clock, and shutdown.                               *)
(***************************************************************************)

\* The deadline timer fires.
Deadline(r) ==
  /\ timer[r]
  /\ ~MicrotaskDue(r)
  /\ timer' = [timer EXCEPT ![r] = FALSE]
  /\ abort' = [abort EXCEPT ![r] =
                 IF settled[r] THEN @ ELSE AbortedWith(r, "deadline")]
  /\ UNCHANGED <<conf, stage, promise, onDumped, redirects, wire, settled,
                 listener, bridge, aborted, sub, outcome, body, openStream,
                 tracked, received>>

\* A caller's signal fires. It reaches onUserAbort directly, or through the
\* bridge when a cancelToken was combined with it; both listeners are `once`.
UserAbort(s) ==
  LET reaches(r) == /\ conf[r].signal = s
                    /\ conf[r].token = "none" \/ bridge[r]
                    /\ listener[r] = "on"
  IN
  /\ s \notin aborted
  /\ aborted' = aborted \cup {s}
  /\ abort' = [r \in Requests |->
                 IF reaches(r) THEN AbortedWith(r, "user") ELSE abort[r]]
  /\ listener' = [r \in Requests |->
                    IF reaches(r) THEN "fired" ELSE listener[r]]
  /\ bridge' = [r \in Requests |-> bridge[r] /\ conf[r].signal # s]
  /\ UNCHANGED <<conf, stage, promise, onDumped, redirects, wire, settled, timer,
                 sub, outcome, body, openStream, tracked, received>>

\* The caller cancels its cancelToken.
TokenCancel(r) ==
  /\ conf[r].token = "live"
  /\ listener[r] = "on"
  /\ listener' = [listener EXCEPT ![r] = "fired"]
  /\ abort' = [abort EXCEPT ![r] = AbortedWith(r, "user")]
  /\ UNCHANGED <<conf, stage, promise, onDumped, redirects, wire, settled, timer,
                 bridge, aborted, sub, outcome, body, openStream, tracked, received>>

\* The subscriber leaves (timeout(), switchMap, takeUntil, race, ...). Only
\* the path that reached request() returned a teardown.
Unsubscribe(r) ==
  /\ sub[r] = "open"
  /\ sub' = [sub EXCEPT ![r] = "left"]
  /\ IF stage[r] = "local"
       THEN UNCHANGED <<timer, abort, listener, bridge>>
       ELSE /\ timer' = [timer EXCEPT ![r] = FALSE]
            /\ abort' = [abort EXCEPT ![r] =
                           IF settled[r] THEN @ ELSE AbortedWith(r, "unsubscribe")]
            /\ Detach(r)
  /\ UNCHANGED <<conf, stage, promise, onDumped, redirects, wire, settled,
                 aborted, outcome, body, openStream, tracked, received>>

\* Mutant of CloseBody: the stream's close listener keeps the caller's signal.
CloseBodyAttached(r) ==
  /\ body[r] = "open"
  /\ body' = [body EXCEPT ![r] = "closed"]
  /\ tracked' = [tracked EXCEPT ![r] = FALSE]
  /\ openStream' = [openStream EXCEPT ![r] = FALSE]
  /\ UNCHANGED <<conf, stage, promise, onDumped, redirects, wire, settled, abort,
                 timer, listener, bridge, aborted, sub, outcome, received>>

\* 'close' of the stream body: trackOpenStream's listener, and the one that
\* releases the caller's signal.
CloseBody(r) ==
  /\ body[r] = "open"
  /\ body' = [body EXCEPT ![r] = "closed"]
  /\ tracked' = [tracked EXCEPT ![r] = FALSE]
  /\ openStream' = [openStream EXCEPT ![r] = FALSE]
  /\ IF openStream[r] THEN Detach(r) ELSE UNCHANGED <<listener, bridge>>
  /\ UNCHANGED <<conf, stage, promise, onDumped, redirects, wire, settled, abort,
                 timer, aborted, sub, outcome, received>>

\* Read to the end, destroyed by the consumer, or broken by the peer.
BodyConsumed(r) == CloseBody(r)

\* The last byte is in the PassThrough the caller was given: undici's own body
\* has ended, and the listener it kept on the abort signal went with it.
BodyReceived(r) ==
  /\ body[r] = "open"
  /\ ~received[r]
  /\ abort[r] = "none"
  /\ received' = [received EXCEPT ![r] = TRUE]
  /\ UNCHANGED <<conf, stage, promise, onDumped, redirects, wire, settled, abort,
                 timer, listener, bridge, aborted, sub, outcome, body,
                 openStream, tracked>>

\* undici destroys the body it is still receiving when the request's abort
\* signal fires, and the stream handed out hears of it as the source's 'error'.
\* It does not hear the signal itself: a stream already received stays open.
BodyAborted(r) ==
  /\ abort[r] # "none"
  /\ ~received[r]
  /\ CloseBody(r)

\* closeDispatcherWithGrace gives up on the streams its dispatcher still has.
GraceElapses ==
  /\ \E r \in Requests : tracked[r] /\ abort[r] = "none"
  /\ abort' = [r \in Requests |->
                 IF tracked[r] THEN AbortedWith(r, "shutdown") ELSE abort[r]]
  /\ UNCHANGED <<conf, stage, promise, onDumped, redirects, wire, settled, timer,
                 listener, bridge, aborted, sub, outcome, body, openStream,
                 tracked, received>>

-----------------------------------------------------------------------------
Handlers(r) ==
  \/ OnRedirect(r)
  \/ OnFinalResponse(r)
  \/ OnRequestRejected(r)
  \/ AfterDumpFails(r)
  \/ AfterDumpHops(r)
  \/ OnReadRejected(r)
  \/ OnReadResolved(r)
  \/ OnDataUrl(r)

Next ==
  \/ \E r \in Requests :
       \/ SubscribeRefused(r)
       \/ SubscribeLocal(r)
       \/ SubscribeRejected(r)
       \/ SubscribeThrows(r)
       \/ SubscribeDispatch(r)
       \/ HeadersArrive(r)
       \/ NetworkFails(r)
       \/ DumpEnds(r)
       \/ BodyEnds(r)
       \/ DataUrlEnds(r)
       \/ AbortSettles(r)
       \/ Handlers(r)
       \/ Deadline(r)
       \/ TokenCancel(r)
       \/ Unsubscribe(r)
       \/ BodyConsumed(r)
       \/ BodyReceived(r)
       \/ BodyAborted(r)
  \/ \E s \in Signals : UserAbort(s)
  \/ GraceElapses

Spec == Init /\ [][Next]_vars

\* The event loop runs every microtask and every due timer, and undici ends
\* what its signal aborted: the hop, the dump, the body it is still receiving.
\* Nothing is assumed of servers, consumers or callers.
Fairness ==
  \A r \in Requests :
    /\ WF_vars(Handlers(r))
    /\ WF_vars(conf[r].stream /\ BodyEnds(r))
    /\ WF_vars(DataUrlEnds(r))
    /\ WF_vars(Deadline(r))
    /\ WF_vars(AbortSettles(r))
    /\ WF_vars(BodyAborted(r))

FairSpec == Spec /\ Fairness

-----------------------------------------------------------------------------
(***************************************************************************)
(* Properties.                                                             *)
(***************************************************************************)

\* Types, and the shape of a closure's local state.
TypeOK ==
  /\ conf \in [Requests -> Configs]
  /\ stage \in [Requests -> Stages]
  /\ promise \in [Requests -> Settlements]
  /\ onDumped \in [Requests -> {"hop", "tooMany", "badHop"}]
  /\ redirects \in [Requests -> Nat]
  /\ wire \in [Requests -> Nat]
  /\ settled \in [Requests -> BOOLEAN]
  /\ abort \in [Requests -> Reasons]
  /\ timer \in [Requests -> BOOLEAN]
  /\ listener \in [Requests -> {"none", "on", "fired"}]
  /\ bridge \in [Requests -> BOOLEAN]
  /\ aborted \in SUBSET Signals
  /\ sub \in [Requests -> {"cold", "open", "told", "left"}]
  /\ outcome \in [Requests -> Outcomes]
  /\ body \in [Requests -> {"none", "open", "closed"}]
  /\ openStream \in [Requests -> BOOLEAN]
  /\ tracked \in [Requests -> BOOLEAN]
  /\ received \in [Requests -> BOOLEAN]

Dispatched(r) == conf[r].entry = "dispatch" /\ stage[r] # "idle"

\* Once a dispatched request is over and no stream of it is open, nothing of it
\* is left behind: no listener on the caller's signal, no deadline timer, no
\* entry in the shutdown table - however abort, deadline, unsubscribe, response
\* and stream close interleaved.
NothingOutlivesRequest ==
  \A r \in Requests :
    Dispatched(r) /\ stage[r] = "over" /\ body[r] # "open" =>
      /\ listener[r] = "none" /\ ~bridge[r]
      /\ ~timer[r] /\ ~tracked[r] /\ ~openStream[r]

\* Unsubscribing releases the caller's signal and the timer at once, while
\* undici is still unwinding the hop.
LeaversLetGo ==
  \A r \in Requests :
    Dispatched(r) /\ sub[r] = "left" =>
      listener[r] = "none" /\ ~bridge[r] /\ ~timer[r] /\ abort[r] # "none"

\* While a stream delivered as the response is open, the caller's signal still
\* reaches the request: it has a path to this request's abort signal (through
\* the bridge when a cancelToken was combined with it), or has been used already.
DeliveredStreamCancellable ==
  \A r \in Requests :
    outcome[r] = "response" /\ body[r] = "open"
    /\ conf[r].signal # NoSignal /\ abort[r] = "none" =>
      /\ conf[r].signal \notin aborted
      /\ listener[r] = "on"
      /\ conf[r].token = "none" \/ bridge[r]

\* Nothing of the request's own - its deadline, the teardown that completing
\* triggers - ever aborts a stream the caller has been given.
DeliveredStreamUndisturbed ==
  \A r \in Requests :
    outcome[r] = "response" /\ body[r] = "open" =>
      abort[r] \notin {"deadline", "unsubscribe"}

\* The caller is told why the request ended: a cancellation is reported only
\* if the caller cancelled, and a deadline that fired first is reported as the
\* timeout, whatever failed afterwards (redirect errors included).
CauseIsTold ==
  \A r \in Requests :
    /\ outcome[r] = "canceled" => abort[r] = "user"
    /\ Dispatched(r) /\ abort[r] = "deadline" =>
         outcome[r] \in {"none", "timeout", "response"}

\* At most maxRedirects hops follow the first one.
HopBound ==
  \A r \in Requests : wire[r] <= conf[r].maxRedirects + 1

\* A request its subscriber has abandoned, or that has been aborted, sends
\* nothing more - in the middle of a redirect chain included.
NothingSentAfterAbort ==
  [][\A r \in Requests :
       sub[r] = "left" \/ abort[r] # "none" => wire'[r] = wire[r]]_vars

-----------------------------------------------------------------------------
(***************************************************************************)
(* The inductive invariant: one conjunct per idea, for one request.        *)
(***************************************************************************)

Active(r) == stage[r] \in {"sent", "dump", "read"}

\* Which promise may settle how in each stage, and which entries get there.
StageShape(r) ==
  /\ Active(r) => conf[r].entry = "dispatch"
  /\ stage[r] = "local" => conf[r].entry = "local"
  /\ stage[r] = "sent" => promise[r] \notin {"dumped", "ok", "rejected"}
  /\ stage[r] = "dump" => promise[r] \in {"pending", "dumped"}
  /\ stage[r] = "read" =>
       promise[r] \in {"pending", "ok", "rejected", "timedOut", "aborted"}
  /\ stage[r] = "read" /\ conf[r].stream => promise[r] \notin {"timedOut", "aborted"}
  /\ stage[r] \in {"idle", "over"} => promise[r] = "pending"

\* Before the subscription there is nothing; the subscription ends with the
\* promise chain or before it; the subscriber is told something exactly then.
SubShape(r) ==
  /\ stage[r] = "idle" <=> sub[r] = "cold"
  /\ stage[r] = "idle" => /\ abort[r] = "none" /\ listener[r] = "none"
                           /\ ~bridge[r] /\ ~timer[r] /\ ~settled[r]
                           /\ wire[r] = 0 /\ redirects[r] = 0
  /\ Active(r) \/ stage[r] = "local" => sub[r] \in {"open", "left"}
  /\ stage[r] = "over" => sub[r] \in {"told", "left"}
  /\ outcome[r] # "none" <=> sub[r] = "told"

\* A body exists only once the chain is over, and only of a stream request;
\* shutdown and the stream's own close listener know it only while it is open.
BodyShape(r) ==
  /\ stage[r] # "over" => body[r] = "none"
  /\ body[r] # "none" => conf[r].stream /\ conf[r].entry = "dispatch"
  /\ tracked[r] \/ openStream[r] => body[r] = "open"

\* What a request holds on to: it settles when it is over, and then keeps the
\* caller's signal only for an open stream; an abandoned one keeps nothing.
HoldShape(r) ==
  /\ Active(r) => ~settled[r]
  /\ conf[r].entry = "dispatch" /\ stage[r] = "over" =>
       /\ settled[r] /\ ~timer[r]
       /\ openStream[r] \/ (listener[r] = "none" /\ ~bridge[r])
  /\ conf[r].entry = "dispatch" /\ sub[r] = "left" =>
       listener[r] = "none" /\ ~bridge[r] /\ ~timer[r] /\ abort[r] # "none"

\* Where each abort reason can come from, and what may still follow it.
AbortShape(r) ==
  /\ promise[r] = "aborted" => abort[r] # "none"
  /\ abort[r] = "unsubscribe" => sub[r] = "left"
  /\ abort[r] = "shutdown" => stage[r] = "over"
  /\ stage[r] = "sent" /\ promise[r] \in {"redirect", "final"} => abort[r] # "deadline"
  /\ stage[r] = "read" /\ conf[r].stream => abort[r] # "deadline"
  /\ body[r] # "none" => abort[r] # "deadline"

\* The hops sent never outrun the redirects counted, nor those the maximum.
HopShape(r) ==
  /\ stage[r] # "dump" => wire[r] <= redirects[r] + 1
  /\ stage[r] = "dump" => wire[r] <= redirects[r]
  /\ redirects[r] <= conf[r].maxRedirects + 1
  /\ stage[r] = "dump" /\ onDumped[r] = "hop" => redirects[r] <= conf[r].maxRedirects
  /\ stage[r] \in {"sent", "read"} => redirects[r] <= conf[r].maxRedirects
  /\ wire[r] <= conf[r].maxRedirects + 1

\* The reason reported is the reason for the abort.
CauseShape(r) ==
  /\ outcome[r] = "canceled" => abort[r] = "user"
  /\ conf[r].entry = "dispatch" /\ abort[r] = "deadline" =>
       outcome[r] \in {"none", "timeout", "response"}

\* While it matters and has not been used, the caller's signal reaches the
\* request: directly, or through the bridge.
ReachShape(r) ==
  conf[r].signal # NoSignal /\ abort[r] = "none" =>
    /\ (Active(r) /\ sub[r] = "open") \/ openStream[r] =>
         /\ conf[r].signal \notin aborted
         /\ listener[r] = "on"
         /\ conf[r].token = "none" \/ bridge[r]
    /\ outcome[r] = "response" /\ body[r] = "open" => openStream[r]

ReqInv(r) ==
  /\ StageShape(r) /\ SubShape(r) /\ BodyShape(r) /\ HoldShape(r)
  /\ AbortShape(r) /\ HopShape(r) /\ CauseShape(r)
  /\ ReachShape(r)

\* The facts about one request that every step of the system preserves; the
\* safety properties above follow from them.
IInv == \A r \in Requests : ReqInv(r)

-----------------------------------------------------------------------------
\* A request ends, whatever the server does, when it has a timeout, when its
\* subscriber leaves, and when the caller's signal is used; the signal also
\* closes the stream that a request has become, as long as the server is still
\* sending it (what has been received whole waits for its reader alone).
RequestEnds ==
  \A r \in Requests :
    /\ Dispatched(r) /\ conf[r].timeout ~> stage[r] = "over"
    /\ sub[r] = "left" ~> stage[r] = "over"
    /\ Dispatched(r) /\ conf[r].signal \in aborted ~> stage[r] = "over"
    /\ outcome[r] = "response" /\ body[r] = "open" /\ ~received[r]
       /\ conf[r].signal \in aborted ~> body[r] = "closed"

\* The subscriber's view of a request, as a CancellableCall. An abandoned data:
\* URL has no abort signal of its own; its subscriber left all the same.
Call == INSTANCE CancellableCall WITH
  Calls  <- Requests,
  limit  <- [r \in Requests |-> conf[r].maxRedirects + 1],
  timed  <- {r \in Requests : conf[r].entry = "dispatch" /\ conf[r].timeout},
  state  <- [r \in Requests |-> IF sub[r] = "open" THEN "live" ELSE sub[r]],
  why    <- [r \in Requests |-> IF sub[r] = "left" /\ abort[r] = "none"
                                  THEN "unsubscribe" ELSE abort[r]],
  sent   <- wire,
  answer <- outcome,
  handed <- [r \in Requests |-> IF outcome[r] = "none" THEN "none" ELSE body[r]]

\* executeRequest implements the call a subscriber is promised: at most one
\* answer, an honest one, nothing sent once stopped, and - with the fairness of
\* the event loop - an answer for every call that has a deadline or was stopped.
ImplementsCall == Call!FairSpec
=============================================================================
