# A TLA+ model of nestjs-axios-undici

`nestjs-axios-undici` gives NestJS applications the API of `@nestjs/axios`
over undici instead of axios. What is hard about it is not the mapping of
options but what happens over time: an Observable that can be left at any
moment, promises and timers that race for the same request, streams that
outlive the request that produced them, dispatchers that are closed while
requests hold on to them, interceptors and default objects that are changed
while requests use them, and configs that come back to be sent again. This
directory models those parts in TLA+, checks them with TLC and proves that the
safety properties and both refinements hold for every size of the system.

Paths below are relative to the repository; `http/` stands for
`src/modules/http/`.

## 1. The system

### Components

| component | code | state it keeps | operations |
| --- | --- | --- | --- |
| Request lifecycle | `http/services/http.service.ts` `executeRequest`, `RequestAbortSignal`; `http/errors/axios-error.ts` | per subscription: hop in flight, redirect count, `settled`, the abort signal, the deadline timer, `onUserAbort` and `SIGNAL_CLEANUP` on the caller's signal, the open stream | subscribe (with its early returns), response, redirect, failure, deadline, caller's signal, cancelToken, unsubscribe, stream close |
| Dispatcher lifecycle | `http.service.ts` `setupDispatcher`, `getSocketPathDispatcher`, `setDispatcher`, `closeDispatcher`, `onModuleDestroy` | `customDispatcher`, `instanceOptions.dispatcher`, the default Agent, `socketPathDispatchers`, `openStreamAbortsByDispatcher` | resolve a dispatcher, evict, replace, shut down with a grace period |
| Response adapter | `http/adapters/axios-response.adapter.ts` | the chain of streams behind one response | wrap, guard, read, translate errors |
| Progress and rate | `http/adapters/axios-progress.adapter.ts` | byte meter, throttled reporter, window of `maxRate` | count, pace, report, flush, eager drain |
| Response types | `http/adapters/axios-response-type.adapter.ts` | none of its own; `bodyErroredFirst` in `decompressStream` | decompress, read with a limit, parse |
| Redirect hops | `http/adapters/redirect.adapter.ts` | `currentUrl`, `currentOptions` of the chain (in `executeRequest`) | `buildRedirectHop`, `dumpRedirectBody` |
| Interceptors | `http.service.ts` `chainStep`, `runAxiosPipeline`, `executeInterceptorChain`; `http/adapters/axios-interceptor.adapter.ts` | the stores of every instance, the native list with its version, the cached handler | `use`, `eject`, `clear`, `addInterceptor`, run a chain |
| Request adapter | `http/adapters/axios-request.adapter.ts` | the header-base caches; the config of an attempt, its headers and options; a listener that combines signal and cancelToken | `getHeaderBase`, `normalizeAxiosRequest`, `buildAxiosConfig`, `serializeAxiosConfig`, `serializeRequestData`, `captureLazyConfigSeed`, `resolveSignal` |
| axiosRef | `http/adapters/axios-ref.factory.ts` | `defaults` of every instance, and the objects they refer to | `create`, assignments to defaults |
| AxiosHeaders | `http/interfaces/axios-headers.ts` | a case-insensitive map whose values may be lists | set, get, delete, normalize, concat, toJSON, brackets |
| `data:` URLs | `http/adapters/axios-data-url.adapter.ts` | none | decode |
| Module configuration | `http/http.module.ts`, `http/adapters/axios-config.adapter.ts` | none | map options once |

### How they interact

A call takes the defaults of its axiosRef instance, which are objects the
application holds and changes in place. If interceptors, transforms or an
adapter are in play, `buildAxiosConfig` makes a config of it, the request
interceptors work on that, and `serializeAxiosConfig` turns it into options;
else `normalizeAxiosRequest` makes the options directly. Both start from the
cached header base and must agree. The options reach `executeRequest` through
the cached native handler. That captures a dispatcher, hooks the caller's
signal, arms the deadline and sends a hop. A 3xx is dumped and followed with
what `buildRedirectHop` made of the hop before; the last response goes to
`toAxiosLikeResponse`, which reads the body or hands out a stream; the response
interceptors follow. The request's `RequestAbortSignal` ties it all together:
undici, the byte meter, the deadline, the teardown, the caller's signal and the
shutdown's grace period meet in it. What comes out, a response or an error,
shows a config that the application may send again.

### What is hard, and what makes each part correct

* **Orders nobody wrote a test for.** Abort, deadline, response and unsubscribe
  in any order must release the same timer and listeners, tell the real cause,
  and end the request (`NothingOutlivesRequest`, `CauseIsTold`,
  `NothingSentAfterAbort`, `RequestEnds`).
* **Things that outlive the request.** A stream handed back stays cancellable
  by its caller and by nothing else (`DeliveredStreamCancellable`,
  `DeliveredStreamUndisturbed`).
* **Resources shared by requests.** The service closes its own dispatchers and
  only those, never serves from a closed one, and shuts down although somebody
  forgot a stream (`CallersDispatcherUntouched`, `NoAgentForgotten`,
  `ServedByOpenDispatcher`, `DownLeavesNoStream`,
  `AbandonedStreamsHoldNothingUp`).
* **Chains of hops.** What a redirect hop carries depends on every hop before
  it, though each is computed from the last one only (`SecretsStayHome`,
  `BodyAndMethodAgree`, `ResentBodyIsFresh`, `FormsAreSentAgain`).
* **Changing while in use.** Interceptors registered and ejected while a chain
  awaits a promise (`RunsWhatWasInForce`, `RunsInAxiosOrder`,
  `DispatchedThroughCurrent`, `NothingRunsAfterLeaving`, `EveryoneIsTold`);
  default objects edited behind a cache that must not show
  (`CacheIsTransparent`, `InstancesAreApart`); lists shared between headers
  (`ListsStayApart`).
* **Two routes, one result.** The fast path and the pipeline resolve options on
  their own (`RoutesAgree`), headers come from six sources in several casings
  (`HeadersFollowPrecedence`), and `AxiosHeaders` stands in for axios' own,
  call for call (`ImplementsAxios`).
* **Going round again.** A config that was normalised, serialised and labelled
  once is replayed by a retry interceptor, or the Observable is subscribed to
  again (`ConfigShowsWhatWasSent`, `ReplayRepeatsTheRequest`,
  `ResubscriptionStartsFresh`, `BodyKeepsItsLabel`).
* **Streams behind streams.** Node's `pipe()` forwards neither errors nor
  destruction; the code does it by hand, in both directions (`AnswerIsWhole`,
  `WithinLimit`, `CauseIsNamed`, `LastProgressTold`, `ReadEnds`).

`PROJECT.json` lists the hazards one by one, each at its line and with the
properties that watch over it.

## 2. The modules

| module | models | checked by | proved in |
| --- | --- | --- | --- |
| `CancellableCall` | abstract: what a subscriber may rely on | as `ImplementsCall` | `RequestLifecycle_proofs`, but for its fairness |
| `RequestLifecycle` | one `executeRequest` subscription | `MCRequestLifecycle` | `RequestLifecycle_proofs` |
| `DispatcherLifecycle` | which dispatcher serves, and when it is closed | `MCDispatcherLifecycle` | `DispatcherLifecycle_proofs` |
| `RedirectChain` | what a hop carries | `MCRedirectChain` | `RedirectChain_proofs` |
| `InterceptorPipeline` | both kinds of interceptors, one chain per subscription | `MCInterceptorPipeline` | `InterceptorPipeline_proofs` |
| `ResponseBody` | the streams behind a response | `MCResponseBody` | `ResponseBody_proofs` |
| `RequestDefaults` | defaults, instances, the header base and its cache, options by either route | `MCRequestDefaults` | `RequestDefaults_proofs` |
| `AxiosConfig` | from a config to what is sent, back to a config, and round again | `MCAxiosConfig` | `AxiosConfig_proofs` |
| `HeaderProperties` | abstract: the calls of axios' own `AxiosHeaders`, whose headers are ordinary properties | as `ImplementsAxios` | `AxiosHeaders_proofs` |
| `AxiosHeaders` | the Map and the proxy that stand in for them | `MCAxiosHeaders` | `AxiosHeaders_proofs` |

The modules share no variables. Where one needs another, it takes the other's
outcome as a nondeterministic event, and the other module says which outcomes
there are:

* `RequestLifecycle` lets `toAxiosLikeResponse` settle in any way a body allows
  (`BodyEnds`, `AbortSettles`); `ResponseBody` opens that box.
* `RequestLifecycle` counts hops and aborts between them; `RedirectChain` says
  what each hop carries, and which chains are given up.
* `InterceptorPipeline` lets a dispatch be answered at any time; when one by
  undici must be is what `RequestLifecycle` says.
* `DispatcherLifecycle` reduces a request to the dispatcher it captured and
  whether it is in flight, between two hops, or a stream, and which part of a
  stream has been received.
* `AxiosConfig` takes the header base of its instance as given, `defaults`;
  `RequestDefaults` says where that comes from. Interceptors are changes to the
  config at any moment; in which order they come is `InterceptorPipeline`'s
  matter. Header values are atoms in it, and `AxiosHeaders` looks into them.

In all of them an action is what runs without giving way to anything else: a
handler of an event with every call it makes. Promise settlement and promise
handler are two actions, since application code may run in between; a timer
cannot fire in between, as the event loop drains microtasks first, and
`MicrotaskDue` in the guard of `Deadline` says so.

### RequestLifecycle

One subscription goes through the stages `sent` (a hop is in flight), `dump` (a
redirect body is being discarded), `read` (`toAxiosLikeResponse`), or `local`
(a `data:` URL) to `over`. The variables are those of the closure of
`executeRequest` (`settled`, `timer`, `openStream`, `redirects`), the two
listeners it may leave on the caller's signal (`listener` is `onUserAbort`,
`bridge` the one `resolveSignal` adds when there is a cancelToken as well), the
abort signal's first reason, what the subscriber knows (`sub`, `outcome`) and
the stream handed out (`body`, `received`, `tracked`). `BodyReceived` is the
moment from which undici no longer has that stream: `wrapStreamCancellation`
hears of an abort through undici's body only, so a small body that was received
and not read stays open through an abort, and only its reader ends it.
`Subscribe*` are the ways through the
subscriber function, the early returns included; `On*` and `AfterDump*` are the
handlers of the promise chain; `Deadline`, `UserAbort`, `TokenCancel`,
`Unsubscribe`, `CloseBody` and `GraceElapses` are the rest of the code's
callbacks. `Fail`, `Tell` and `Detach` are the closures they share.

`CancellableCall` is the promise to the subscriber, without any of this
machinery: at most one answer, an honest cause, nothing sent after a stop, and
an answer certain for calls that were stopped or have a deadline.
`RequestLifecycle` implements it under a refinement mapping given at `Call`.

### DispatcherLifecycle

`setup` is one of the module configurations; `instance` and `custom` are
`instanceOptions.dispatcher` and `customDispatcher`; `cache` is the Map of
socketPath Agents in its order. `closed` are the dispatchers `close()` was called
on, `grace` who won each race between `close()` and the grace timer, and `sees`
whether the set of open streams existed when closing started: `closeDispatcher`
looks it up then, and that moment matters. A stream that was received whole and
not read (`StreamReceived`) has left undici: `close()` does not wait for it, and
neither `destroy()` nor the grace period's abort ends it. How
`setupDispatcher` combines pool
options, proxies and cookies is one value, `Built`.

### RedirectChain

The server answers each hop with any status and location. `Follow` is
`buildRedirectHop` (method and body rules, Content-* and Host, credentials by
host, `sensitiveHeaders` by origin), `FollowRewritten` the same with a
`beforeRedirect` that changed the result, and `Hop` the code in `executeRequest`
that puts a meter around the body. Names of hosts are values with a subdomain
relation, which is all that `isSubdomain` tells of them.

### InterceptorPipeline

`entries` are the stores with their holes, `call` the chain of each
subscription. `RunLink`, `Settle`, `PassOn` and `Tell` are the ways through
`chainStep`: a handler that returns or throws, one that returns a promise which
settles later, none at all, and the end. `sync` says that this still happens
inside `subscribe()`: a link hands its teardown to its subscriber only after
`source.subscribe()` has returned, so a subscriber who leaves from inside a
handler (`left`) stops nothing before it has - neither the next handler nor, if
there is a response interceptor, the dispatch. `Returned` is where the teardowns
run. `mergeMap` is the exception that `Stepped` makes: without a `chainStep`
around it, it sees at once that its subscriber has left (`DispatchNothing`).
`AnswerLost` is an adapter's answer on which a `transformResponse` or
`validateStatus` throws. `Use`, `Eject`, `Clear` and `AddInterceptor`
may come between any two of them. `cached` is the handler `executeInterceptorChain`
caches with its version. The history variables `due` and `ran` are there for the
properties only. Ids count from 1 here, from 0 in the code.

### ResponseBody

The streams `body` (undici's), `meter`, `inflate`, `guard` and `wrapper` are
used or not as the options say, in that order. Each has what was written to it
(`queue`), what it has for its reader (`ready`), whether its input has ended, and
how it went. `destroy()` marks a stream at once and its listeners run later
(`due`, `Notify`), which is when the code can get orders wrong. `ToSink` and
`ToSource` are the hand-written forwarding of errors and destruction; `FalseAlarm`
is the recovery from undici's closed-socket report, `TaggedBy` the
`DECODE_ERROR` tag, `Caught` the catch block of `toAxiosLikeResponse`. The guard
is an async generator that `Readable.from` turns into a stream: `gen` is where the
generator stands, because `destroy()` reaches its source only from there.
The unit is a chunk, and a compressed chunk comes to `Inflation` of them.

### RequestDefaults

Everything is about references. `heap` holds the entries of each object in
insertion order, the module's, each instance's own, and the caller's; `at` says
which object a bucket of an instance's defaults refers to, `PutObject` changes
that, `SetEntry` and `DeleteEntry` change an object under whoever refers to it,
and `ChangeObject` the value `String()` makes of an object in a header. `cache`
is `headerBaseCaches`: a base with the references and the entries it was made
of (`Remembered`), compared again by `SnapshotMatches`. `MergeHeaders` is
`mergeHeaders` with its rules for casing, place and nullish values, and `Kept`
the filter in it that drops what is said anew.
`PipelineOption`, `FastOption` and `NeedsWork` say what an option comes to by
`buildAxiosConfig` and `serializeAxiosConfig`, by `normalizeAxiosRequest`, and
when the latter skips it all. Five options stand for the kinds of resolution
there are; the comment at `Options` lists which options go with which.

### AxiosConfig

One call, made up to `MaxAttempts` times: each attempt subscribes anew or
replays a config it was shown. `BuildAxiosConfig` and `SerializeAxiosConfig` are
the pipeline, `NormalizeAxiosRequest` the fast path, `Settle` the config a
response or an error gets, which on the fast path is made from
`captureLazyConfigSeed`. Headers are objects on `heap` that configs refer to, so
that a config reused by mistake would be seen changing. Data says what kind of
object it is, what its text encodes, with which boundary, and which stream it is
read from; streams can be read once (`spent`). `EditHeader`, `EditData` and
`EditOptions` are interceptors of both kinds, and whoever kept a config. The
call's data and `params` are not copied into a config: `holds` says which configs
have them, `ChangeInPlace` changes them under all of those, and `contents`,
`since` and `told` which state of them there is, a subscription began with, and
was sent. What a body is encoded into is no longer the call's object.

### AxiosHeaders

`store` has a record of name and value under each lower-cased key, `plain` an
object literal of the application. A value may be a list, told apart by who
made it; `Normalized` copies lists that go in, `ToJSON` gives out those that are
there. `HeaderProperties` says what the calls of axios do: a set of properties,
each under the name it was first set with, which `set()` leaves alone when it is
`false` and nothing else is asked for, and which brackets find under that very
name only. `LikeAxios` says of every call that it does that and answers as much,
or departs from it in one of the ways it names, which section 4 lists; the places
in a literal are folded one by one there and looked up at once here.

## 3. What is checked

Constants and bounds of each run are in its `.cfg`; sets of configurations
are in the `MC*` modules.

| run | instance | shows |
| --- | --- | --- |
| `request_one` | 1 request, every configuration and way through the subscriber function, up to 2 redirects (17,498 states) | nothing leaks; streams stay cancellable and undisturbed; causes are told; nothing is sent after an abort; it ends when it must (`RequestEnds`: by its deadline, when left, when its signal fires; a stream by its signal while it is being received); it implements `CancellableCall` |
| `dispatcher` | 2 requests, 5 module configurations, 2 application dispatchers, 2 socket paths, a cache of 1 (951,832 states) | types; whose dispatchers are closed, and when; that shutdown returns, and an aborted stream is no longer being received (`AbandonedStreamsHoldNothingUp`) |
| `redirect_chain` | 5 hosts in a tree, 2 ports, 2 schemes, 6 statuses, chains of any length | credentials and named headers stay home (`SecretsStayHome`); method and body agree; a body sent again is whole, and a string always can be |
| `interceptors` | 2 instances, 1 request subscribed again and again, 2 registrations, 1 native interceptor (489,042 states) | types; order, completeness and ids of interceptors; the current native handler; nothing after leaving, once `subscribe()` has returned; everyone is told whose answer is not lost |
| `response_body` | bodies of 2 chunks, streams that hold 1, every stack of streams, chunks that inflate to 2 | types; whole answers, limits, names of errors, the last progress event; a read ends and lets the socket go (`ReadEnds`) |
| `request_defaults` | 2 instances, 1 method, a header in two casings and one more, 2 module configurations, 2 changes, to the header in one casing (113,457 states) | types; the cache does not show; precedence; instances apart but for nested values; routes agree |
| `axios_config` | every kind of data and Content-Type, 3 attempts, 1 change at any moment (157,446 states) | configs show what was sent; replays repeat; resubscriptions start afresh, with the contents the call's objects have; labels fit bodies |
| `axios_headers` | 2 objects, one name in 2 casings that is also a member's, 2 lists per maker (2,322 states up to the interchange of casings and objects) | lists stay apart; each call is axios' or a named departure (`HeaderProperties`) |

Why the bounds are enough: the properties of a request concern one request and
whatever it shares a signal with; that a second request on the same signal
disturbs nothing is what the theorems say for any number. A limit of two
redirects has a first, a middle and a refused hop. A cache of one Agent evicts at
every second path, and two application dispatchers let one replace another.
`RedirectChain` is not bounded in length: hops forget their history, so the
state space is finite. Two registrations can be in either order, on either side,
and one can be ejected under the other. With room for one chunk a body of two
makes every stream full once and empty once, inflates beyond a limit that the
compressed body keeps, and can break before, in the middle of and after its
data; bodies of one and of three chunks were checked too. Two changes to
defaults are one before and one after a base was cached, or one in the object
and one in the reference; one in two casings is the smallest case in which
casing matters. Three attempts are a call, its replay and the replay's replay, or
a resubscription in between. `MaxRedirectCap`, `AgentCap`, `MaxUses`, `MaxNatives`,
`MaxEdits`, `MaxAttempts` and `MaxLists` bound counters in guards, and
`EditedNames`, `EditedValues`, `Overrides`, `NewValues` and `NewData` what is
written; nothing else is capped. The theorems hold for any value of them.

`CHECK_DEADLOCK FALSE` is stated everywhere: requests end, and then nothing is
left to do.

Fairness is what the event loop and timers give, and nothing else. In
`RequestLifecycle`: promise handlers run, the deadline timer fires, undici
ends what its signal aborted and it still has (a body that was received it has
no longer), a stream is handed back, a `data:` URL
is decoded. In `DispatcherLifecycle`: the grace timer fires, a stream that is
aborted while it is being received closes, `onModuleDestroy`'s await returns. In
`InterceptorPipeline`: handlers return, their promises settle, and dispatches are
answered or their answer is lost (the last is an assumption about applications and
servers; it is there only for `EveryoneIsTold`). In `ResponseBody`: data that has
arrived moves on, listeners
run, the throttle's timer fires, and the library's own read loop reads. No
server has to answer and no caller has to read a stream. The other modules
promise nothing about progress and have no fairness.

Every property has a mutant of the code, listed in `PROJECT.json`, that violates
it: a forgotten reset, a check in the wrong order, a listener not added.

## 4. Where code and documentation part

Each of these is a run that ends in a counterexample.

* `dispatcher_hop_cut`. `close()` "lets in-flight requests finish", but a
  redirect chain between two hops has nothing in flight, and its next hop is
  refused by the dispatcher it captured.
* `redirect_form`. A FormData becomes a `Readable` before it is sent
  (`axios-request.adapter.ts:732`), so a redirect that keeps the body is given up
  as it is for a stream, although `docs/axios-supported-options.md:63` and the
  comment at `redirect.adapter.ts:166` except FormData by name.
* `response_left`. A caller that destroys a stream with a `maxContentLength`
  while the guard's generator awaits a chunk that does not come does not release
  the socket: `return()` queues behind the pending `next()`. If the generator was
  never started, as nobody read, `return()` ends it without entering its body,
  and the socket is not released either; the property leaves that case out.
* `defaults_source`. Headers given to `register()` go on being a source of every
  request's headers, below `axiosRef.defaults`, read from the application's
  own object, although `defaults` is documented as the single source of truth.

Observed while modelling, without a run of their own. About requests and
dispatchers:

* The early returns of the subscriber function leave a listener on the caller's
  signal, as they return no teardown: those before the signal is hooked (an
  unparsable timeout, bad `sensitiveHeaders`: `SubscribeRefused`) the one that
  `resolveSignal` added for a cancelToken, those after it (a body over
  `maxBodyLength`, a bad URL: `SubscribeRejected`) `onUserAbort`
  (`http.service.ts:1524` and `1816`, against the comment on `SIGNAL_CLEANUP`,
  `axios-request.adapter.ts:859`).
* A streamed body that has been received whole is beyond the signal: neither the
  caller's abort nor a shutdown's grace period ends it while nobody reads it, so
  its listener on the signal stays too (`axios-response.adapter.ts:408`).
* A subscriber who leaves from inside a synchronous handler, by way of `takeUntil`
  and the like, does not stop the handlers after it, and with a response
  interceptor the request is still dispatched and then aborted; an adapter is
  called in the microtask after, for nobody (`http.service.ts:197` and `1246`).
* `executeAdapter`'s `.then(ok, fail)` does not catch what `ok` throws: when a
  `transformResponse` or `validateStatus` throws on an adapter's answer, nobody is
  told and the rejection is unhandled (`http.service.ts:1305` and `1321`).
* The open stream of a response that `validateStatus` refuses is handed back on
  the error and is never tracked for shutdown (`http.service.ts:1781`, against
  the comment at 655).
* A dispatcher closed before its first stream was handed back has no set of
  streams for the grace period to abort (`http.service.ts:1027`, against
  `docs/axios-supported-options.md:224`). `DownLeavesNoStream` is about those
  handed out in time.
* A module-level `socketPath` stays among the merged options, so
  `getSocketPathDispatcher` ranks above an explicit module dispatcher
  (`http.service.ts:1588`, against `docs/axios-supported-options.md:218`).
* A request with a `socketPath` after `onModuleDestroy` builds an Agent that
  nothing closes (`http.service.ts:959`).
* A caller's abort with a reason of its own reaches a delivered stream as that
  reason; `wrapStreamCancellation` recognises `AbortError`s only
  (`axios-response.adapter.ts:415`). `CauseIsNamed` admits it.
* The false-alarm test counts transformed bytes. With the eager drain, bytes
  written to a paced meter but still queued do not count yet, so the alarm
  fails a read whose bytes have all arrived (`axios-progress.adapter.ts:477`).
  `AnswerIsWhole` is about the other direction and holds.
* `clear()` restarts the ids, so an id kept from before it may eject a later
  interceptor, as in axios (`axios-interceptor.adapter.ts:64`).

About defaults, configs and headers:

* The two routes differ over `null`, an explicit `undefined`, and a callback
  default that was withdrawn; `RoutesAgree` states exactly that. Where
  `docs/axios-supported-options.md:61` says an explicit `validateStatus` of
  `undefined` resolves every status, the pipeline falls back to 2xx. The
  pipeline also drops undici's own options (`headersTimeout`, `body`).
* Headers given flat to `register()` or `create()` are seeded into `common`,
  where a method's bucket beats them; `create()` drops the parent's own keys
  (`docs/http/http.service.md:79`).
* `create()` copies one level: an object that is a value in `params` or under a
  header is shared with the parent, and a change inside it reaches both
  (`axios-ref.factory.ts:156`), although `docs/http/http.service.md:79` says
  "Mutating one never affects the other" and the comment at
  `axios-ref.factory.ts:173` that no in-place change leaks.
  `InstancesAreApart` admits exactly that.
* A config has the caller's own `data`, and its own `params` unless there are
  some to merge them with (`axios-request.adapter.ts:1763` and `1803`): what an
  interceptor changes in them in place is in the caller's object and in the next
  subscription, where axios clones plain objects and the comment on `dispatch()`
  (`http.service.ts:1118`) wants each attempt to build its own config. The FormData of
  `postForm` is made by the call (`http.service.ts:2332`) and shared likewise.
* A FormData body shown in a config is the stream that was read, so a replay
  cannot send it again, and a `transformRequest` runs a second time on its own
  result (`axios-request.adapter.ts:1956`; `docs/guides/interceptors.md:33` and
  `tests/compat/differential/retry-once.diff.spec.ts:72` say a replay sends the
  original body). `ReplayRepeatsTheRequest` leaves these two out.
* A header withheld with `null` or `false` is absent from the config shown, so a
  replay has the default again. On the fast path the config shown lacks the
  signal, the limits, `auth` and custom fields.
* A Content-Type that names a boundary is kept while a FormData is encoded with
  another one (`axios-request.adapter.ts:726`); `BodyKeepsItsLabel` is about
  labels nobody chose. A Content-Type withheld by the request comes back as the
  default label.
* `postForm` with a Content-Type of `application/json` sends JSON, although
  `docs/http/http.service.md:39` says an explicit Content-Type does not change
  that it is multipart.
* A `post` whose defaults were all deleted skips normalisation and gets no
  default Content-Type.
* `getUri` takes `config.params ?? defaults.params` instead of merging them, and
  ignores `allowAbsoluteUrls` (`axios-ref.factory.ts:253`).
* `AxiosHeaders` departs from axios', which its comments say it is exactly like,
  in the ways `LikeAxios` names. `set()` with no `rewrite` replaces a header that
  is `false`, which axios keeps as withheld; `set(name, undefined)` sets nothing,
  where axios stores it; a matcher given as `rewrite` is not tried
  (`axios-headers.ts:318`). Brackets find a header in any casing and skip
  `undefined`, where axios makes another property, and refuse the names of members
  (436). `delete headers[name]` finds any casing too, and throws in strict mode for
  a header that is absent (465).
* Its `clear(matcher)` tries the matcher on values, axios' on names; its chained
  methods return the object behind the proxy. `toJSON()` gives out the lists
  themselves, which is why `ListsStayApart` excepts them; so does `get()`, which
  is not modelled.

## 5. What is proved

All theorems are proved by TLAPS down to the last leaf, for every value of the
constants that satisfies the named assumptions. Almost none of the properties is
inductive; each module's proofs state the invariant that is, in named parts, and
TLC has confirmed those on the instances above.

**RequestLifecycle_proofs.** `TypeCorrect`, and the safety invariants and the
action property of `request_one`, for any set of requests, of signals and of
configurations, and any maximum of redirects (`CapAssumption`, `SignalAssumption`,
`ConfigAssumption`). That nothing outlives a request depends on which stage it
is in, what the subscriber knows and where the abort came from. `IInv` states
that, per request, in eight conjuncts (`StageShape`, `SubShape`, `BodyShape`,
`HoldShape`, `AbortShape`, `HopShape`, `CauseShape`, `ReachShape`). Since an action
of one request leaves the closure of another alone, `FrameStep` carries `ReqInv`
over for all the others, and the `Own*` lemmas treat the request that moved,
action by action. The steps that touch several requests, a shared signal's abort
and the grace period, have lemmas of their own (`SignalStep`, `GraceStep`).
`TypeOK`, that a request that was left holds nothing (`LeaversLetGo`) and that
hops are bounded (`HopBound`) are proved here and in no run. `CallImplemented` is
the refinement: `CallInit`, and `CallStep` action by action, say that each step is
one of `CancellableCall` under the mapping at `Call`, or none. It rests on
`IInv` and on `LocalShape`, that nothing can abort a `data:` URL and nobody leaves
a request that was refused in the subscriber function.

**DispatcherLifecycle_proofs.** All safety properties of `dispatcher`, for any
number of requests, socket paths and application dispatchers and any size of the
cache. `OwnShape` says whose dispatcher is in effect, `CacheShape` that Agents are
numbered as they are built and are cached or closed, `GraceShape` and
`StreamShape` what a grace period and an open stream imply, `OpenShape` that
before shutdown nothing a request can be given is closed, `DownShape` what
`onModuleDestroy` has waited for.

**RedirectChain_proofs.** All invariants of `redirect_chain` and types, for any
hosts with a transitive subdomain relation (`SubdomainAssumption`), any requests
and any `beforeRedirect` (`StartAssumption`, `HookAssumption`), over any number of
hops. `HomeTransitive` is the core of it: each hop is compared with the one
before, and only transitivity makes that a statement about the first.
`BodyKeptOrDropped` is the strengthening `ResentBodyIsFresh` needs. That a
FormData is given up on is the counterexample of section 4.

**InterceptorPipeline_proofs.** `IdsStable`, `CurrentInterceptors` and
`LeavingStopsChain`, for any number of registrations, requests and instances
(`HandlersAssumption`, `BoundsAssumption`). `RegistryOK` adds types and lengths to
the ids; `CacheOK` says that a cache with the current version has the current
interceptors; `LeaveOK` that a chain whose subscriber has left is closed or still
within `subscribe()` and awaiting nothing; `StepOf`, for one chain and one step,
that a closed chain takes none and what a left one still may (`GoesOn`).
`PipelineTyped`, `AlwaysInOrder` and `AlwaysInForce` are about what a chain of
links runs. `Registry` adds that the stores hold their interceptors in the order
of registration and the links still to run theirs in axios' order (`RestOK`);
`ChainOK` that whatever has run precedes whatever will, and that what has run and
what is coming are together what was in force at the subscription, but for
interceptors that handle one outcome only. `activeAxiosInterceptors` is a recursive
function here (`Without`): `WithoutIs` says what it keeps and in which order, by
well-founded minima, and `TakenIs` what the chain takes from it.

**ResponseBody_proofs.** All safety invariants of `response_body`, for any
responses, sizes, limits, room in the streams and rate of decompression
(`ConfAssumption`, `SizeAssumption`). Which stream follows which is worked out
once (`InOrder`, `Links`); `Typed` and `Idle` say that streams a response does
without are never touched, `Guarded` what the generator of the guard may be doing,
`Chained` that a stream has ended only after its source, `Volumes` that chunks are
neither made nor lost - what is still compressed counts `Unit` times - unless a
stream was destroyed, and `Progressed` that what the throttle holds back is the
newest. For the names of errors, `Named` ties what a stream failed from to what has
happened, and `Tagging` says in which order an error of the decompressor is
tagged and heard; `Dry` and `SourceGone` keep a corrupt body from passing for
whole.

**RequestDefaults_proofs.** `InstancesStayApart`, `CacheNeverSeen` and `RoutesAlwaysAgree`, for
any instances, methods, names, values and module options (`RootAssumption`,
`OwnersAssumption`, `MethodsAssumption`, `ValuesAssumption`, `ConfigsAssumption`,
`OverridesAssumption`, `EditedAssumption`). That a remembered base is current is not
inductive, as anything may change under it; `CacheInv` says that it is the merge
of the sources remembered with it, none of them an object, so that equal sources
give an equal merge whatever `String()` makes of objects by then
(`MergeOfCacheable`). `ObjectsInv` says that the defaults of an instance refer to
objects of its own or of the application's, `OptionsInv` which values options
have. `TypesHold` is above all that no object has a key twice (`IsObject`), also
after `create()` merged two or an entry was deleted from the middle
(`BuiltInAssumption`, `EditsAssumption`). `PrecedenceHolds` says of a merge of any
length what `HeadersFollowPrecedence` says of the headers of a request: its proof
goes through the entries of a source one by one (`MergeSays`, `SourcesSay`), with
`LastSaidBoth` and `LastSaidKept` for what one more entry does to the last mention
of a name, in its own casing or another.

**AxiosConfig_proofs.** `AlwaysTyped`, `ConfigAlwaysShows`, `ReplaysRepeat`,
`LabelsAreKept` and `ResubscriptionsStartFresh`, for any calls, any number of
attempts and changes and whatever they change things to
(`RequestsAssumption`, `StreamsAssumption`, `ContentsAssumption`,
`BoundsAssumption`, `EditsAssumption`).
`Order` says which attempts have been made, sent and shown; `Streams` whose stream
is whose; `Prepared` and `Told` what the attempt under way was made of and what
becomes of it; `Shows` that configs show what was sent; `Replaying` and `Replayed`
that encoding, labelling and authorising what was encoded, labelled and
authorised changes nothing. `LabelInv` adds that a Content-Type nobody chose fits
the data it stands by (`Fits`), before and after that was encoded; `Minted` that
no stream is read before the attempt that made it, and `Anew` and `SentAnew` what
an attempt at the call itself is made of, alike but for a boundary (`Ideal`).
`Held` says which attempts can hold the call's own data and params, `Shared` what
such an attempt sends: what was in them at the subscription, unless they were
changed in place since, and the attempt counts as edited with them.
`TypeOK` is proved here and in no run.

**AxiosHeaders_proofs.** `FoundUnderTheirName`: an entry is found under the key of
the name it shows; `ListsApart`; and `AxiosImplemented`, that each call is
axios' or one of the named departures, in terms of the calls of
`HeaderProperties`; for any objects, names, literals and bounds
(`LiteralsAssumption`, `NamesAssumption`, and `ObjectsAssumption`, that the objects
are no literals). The invariant names, for each list, the one who made it and the
name it was made for, so that two that came from different calls cannot be the
same. For the refinement, `Made` turns entries by key into the set of properties and
`PutMade` shows that what the Map does with one header is `PutHere`; `PutLikeAxios`
and `NothingInTheWay` that this is what axios does unless the step `Departs`, by one
header and, in `EachLikeAxios`, by a sequence of them. `EachMade` says that putting
a sequence one after the other is what `Whole` finds by looking at the first and
the last mention of each key only. `PlainSpeaks` and `ObjectSpeaks` say that an
object literal and another object are such sequences, in whatever order the latter
is read, `MergedMade` that one merge is the other, and `Axios*` go through the calls.

**How data is reasoned about.** The induction theorems of the library take an
operator and cannot be used with these provers. Where a proof needs induction over
a sequence (`PutEach`, `Kept`, `Without`, the folds of `MergeHeaders`) the function
is written as a recursive function, and a lemma `UpTo`, from the library's
well-founded minima by way of `Smallest`, says that a set with 0 in it and with `m`
whenever `m - 1` is in it has all of `0 .. n`.

**Only model-checked.** Liveness, which the prover does not handle: `RequestEnds`,
`EveryoneIsTold`, `ReadEnds`, `AbandonedStreamsHoldNothingUp`, and the fairness of
`CancellableCall`, which `ImplementsCall` includes. The counterexamples of section
4 are TLC's by nature.

## 6. What is not modelled

* Conversions of data without control: URLs and serialisation of parameters, the
  flattening of forms, raw header strings and the parsers of `AxiosHeaders#get`,
  `STATUS_TEXT_MAP`, `RequestInfo`, messages and codes of errors, data-URL
  decoding, JSON.
* The arithmetic of the clock: the speed estimate of progress events and the
  window of `maxRate`. That a chunk may be held back is modelled, how long is
  not.
* Module configuration: mappings that run once at start-up. What they lead to is
  among the configurations of `DispatcherLifecycle` and `RequestDefaults`.
* undici, Node's streams and RxJS: their behaviour is modelled as the code uses
  it, and marked external in `PROJECT.json`.
* Bodies of no chunks. Whether undici calls an ended empty body used decides
  about one branch of the catch block, and nothing in the repository tells.

## 7. Plan

What the list of components in `PROJECT.json` calls partly modelled is, beyond
this point, conversion of data. What would still add to the project:

1. `RateWindow`: the window arithmetic of `sendThrottled`, against the bound that
   `maxRate` promises.
2. The composition of `RequestLifecycle` and `DispatcherLifecycle` around the
   table of open streams, so that the two views of a stream's close are one.
