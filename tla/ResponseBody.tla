----------------------------- MODULE ResponseBody -----------------------------
(***************************************************************************)
(* The way of a response body from undici to the caller: the streams that  *)
(* toAxiosLikeResponse puts behind one another (a byte meter, a            *)
(* decompressor, the guard of maxContentLength, the wrapper that names     *)
(* cancellations), how the end, an error and destruction travel along them *)
(* in both directions, and what the read comes to in the end.              *)
(*                                                                         *)
(* The unit is a chunk. A decompressed chunk counts Inflation times.       *)
(***************************************************************************)
EXTENDS Naturals, Sequences

CONSTANTS
  Confs,      \* the responses, with the request's options, TLC picks from
  HighWater,  \* chunks a stream takes in before it asks its source to wait
  Inflation   \* chunks a compressed chunk comes to

MaxSize == 8
Stages == {"body", "meter", "inflate", "guard", "wrapper"}
Aborts == {"abort", "reason"}   \* an AbortError, or a reason of the caller's own
Causes == Aborts \cup {"socket", "decode", "limit", "canceled", "decodeError"}

\* type: the body is buffered or handed on as a stream; encoded: it will be
\* decompressed; limit: maxContentLength in chunks, 0 if none; known: there is a
\* Content-Length; progress, paced: onDownloadProgress, maxRate; cancellable: the
\* request has a signal or a streamed body.
ConfType ==
  [type: {"buffered", "stream"}, encoded: BOOLEAN, corrupt: BOOLEAN, limit: 0..MaxSize,
   size: 1..MaxSize, known: BOOLEAN, progress: BOOLEAN, paced: BOOLEAN,
   cancellable: BOOLEAN]

ASSUME ConfAssumption == Confs \subseteq ConfType
ASSUME SizeAssumption == HighWater \in Nat \ {0} /\ Inflation \in Nat \ {0}

VARIABLES
  conf,       \* fixed
  server,     \* "sending", "done" or "broke"
  sent,       \* chunks that have reached undici's body
  stage,      \* per stream: open or how it went, and whether its listeners are still to run
  queue,      \* per stream: chunks written to it and not yet transformed
  ready,      \* per stream: chunks it has for its reader
  ended,      \* the streams whose input is complete
  gen,        \* the guard's generator
  bodyErroredFirst,
  tagged,     \* the decompressor's error has been tagged DECODE_ERROR
  seen,       \* bytesSeen of the meter
  told,       \* the last progress event: its "loaded"
  waiting,    \* the report held back until the throttle's timer, 0 if none
  got,        \* chunks the reader has taken
  aborted,    \* the request's abort signal
  outcome     \* "reading", "ok", "left", or the error

progressVars == <<told, waiting>>
vars == <<conf, server, sent, stage, queue, ready, ended, gen, bodyErroredFirst,
          tagged, seen, told, waiting, got, aborted, outcome>>

Streaming == conf.type = "stream"
Limited == conf.limit # 0
Metered == conf.progress \/ conf.paced

-----------------------------------------------------------------------------
(***************************************************************************)
(* The streams, in order.                                                  *)
(***************************************************************************)

UsedBy(c, s) ==
  CASE s = "body" -> TRUE
    [] s = "meter" -> c.progress \/ c.paced
    [] s = "inflate" -> c.encoded /\ (c.type = "stream" \/ c.limit # 0)
    [] s = "guard" -> c.type = "stream" /\ c.limit # 0
    [] s = "wrapper" -> c.type = "stream" /\ (c.cancellable \/ c.encoded)

\* Mutant of Order: maxContentLength counts the bytes as they were sent.
OrderGuardFirst == <<"body", "meter", "guard", "inflate", "wrapper">>

Order == <<"body", "meter", "inflate", "guard", "wrapper">>

Before == {<<Order[p[1]], Order[p[2]]>> : p \in {q \in (1..5) \X (1..5) : q[1] < q[2]}}

\* The pairs of streams with none between them, and what is read or handed out.
LinksOf ==
  [c \in Confs |->
     {l \in Before :
        /\ UsedBy(c, l[1]) /\ UsedBy(c, l[2])
        /\ \A s \in Stages : <<l[1], s>> \in Before /\ <<s, l[2]>> \in Before => ~UsedBy(c, s)}]
LastOf ==
  [c \in Confs |->
     CHOOSE s \in Stages : UsedBy(c, s) /\ \A t \in Stages : <<s, t>> \in Before => ~UsedBy(c, t)]

Used(s) == UsedBy(conf, s)
OutOf == LastOf[conf]
SourceOf(t) == CHOOSE s \in Stages : <<s, t>> \in LinksOf[conf]

Units(chunks) == IF Used("inflate") THEN Inflation * chunks ELSE chunks

\* canDrainAheadOfTime: the meter takes in all of the body at once.
Drains ==
  Metered /\ ~Streaming /\ conf.known /\ (Limited => conf.size <= conf.limit)

-----------------------------------------------------------------------------
(***************************************************************************)
(* Destroying streams. Listeners run after the fact, so destroy() only     *)
(* marks the stream; Notify runs them.                                     *)
(***************************************************************************)

Open == [is |-> "open", why |-> "none", due |-> FALSE]

\* destroy() with a cause, or with "none", takes effect once.
Destroy(st, s, why) ==
  IF st[s].is # "open" THEN st
  ELSE [st EXCEPT ![s] = [is |-> IF why = "none" THEN "closed" ELSE "failed",
                          why |-> why, due |-> TRUE]]

\* Destroying the guard returns from its generator, which destroys the source
\* it loops over: not if it never started, and while it awaits a chunk only
\* once that has come.
DestroyGuard(st) ==
  IF st["guard"].is # "open" THEN st
  ELSE IF gen = "pulling" THEN [st EXCEPT !["guard"].is = "closing"]
  ELSE IF gen = "paused" THEN Destroy(Destroy(st, "guard", "none"), SourceOf("guard"), "none")
  ELSE Destroy(st, "guard", "none")

DestroyAny(st, s) == IF s = "guard" THEN DestroyGuard(st) ELSE Destroy(st, s, "none")
GenAfter(st) == IF st["guard"].is = "closed" THEN "finished" ELSE gen

\* Listeners run before anything else comes in from outside; those of undici's
\* body may be put off.
Quiet == \A s \in Stages \ {"body"} : ~stage[s].due

Init ==
  /\ conf \in Confs
  /\ server = "sending" /\ sent = 0
  /\ stage = [s \in Stages |-> Open]
  /\ queue = [s \in Stages |-> 0]
  /\ ready = [s \in Stages |-> 0]
  /\ ended = {} /\ gen = "unstarted"
  /\ bodyErroredFirst = FALSE /\ tagged = FALSE
  /\ seen = 0 /\ told = 0 /\ waiting = 0
  /\ got = 0 /\ aborted = "none" /\ outcome = "reading"

-----------------------------------------------------------------------------
(***************************************************************************)
(* From outside: the server and the request's signal.                      *)
(***************************************************************************)

ServerSends ==
  /\ Quiet
  /\ server = "sending" /\ sent < conf.size
  /\ stage["body"].is = "open" /\ ready["body"] < HighWater
  /\ sent' = sent + 1
  /\ ready' = [ready EXCEPT !["body"] = @ + 1]
  /\ UNCHANGED <<conf, server, stage, queue, ended, gen, bodyErroredFirst, tagged,
                 seen, progressVars, got, aborted, outcome>>

ServerEnds ==
  /\ Quiet
  /\ server = "sending" /\ sent = conf.size
  /\ stage["body"].is = "open"
  /\ server' = "done"
  /\ ended' = ended \cup {"body"}
  /\ UNCHANGED <<conf, sent, stage, queue, ready, gen, bodyErroredFirst, tagged,
                 seen, progressVars, got, aborted, outcome>>

\* UND_ERR_SOCKET; undici may raise it also when every byte has come.
ServerBreaks ==
  /\ Quiet
  /\ server = "sending"
  /\ stage["body"].is = "open"
  /\ server' = "broke"
  /\ stage' = Destroy(stage, "body", "socket")
  /\ UNCHANGED <<conf, sent, queue, ready, ended, gen, bodyErroredFirst, tagged,
                 seen, progressVars, got, aborted, outcome>>

\* The signal reaches undici's body first, then the meter's onAbort.
AbortedStages(why) ==
  LET st == Destroy(stage, "body", why) IN
  IF Metered THEN Destroy(st, "meter", why) ELSE st

Abort(why) ==
  /\ Quiet
  /\ aborted = "none"
  /\ Streaming \/ outcome = "reading"
  /\ aborted' = why
  /\ stage' = AbortedStages(why)
  /\ UNCHANGED <<conf, server, sent, queue, ready, ended, gen, bodyErroredFirst,
                 tagged, seen, progressVars, got, outcome>>

-----------------------------------------------------------------------------
(***************************************************************************)
(* Chunks and the end of the body, from stream to stream.                  *)
(***************************************************************************)

\* Progress passes the throttle at once or is held back for its timer.
Report(loaded) ==
  IF ~conf.progress THEN UNCHANGED progressVars
  ELSE \/ told' = loaded /\ waiting' = 0
       \/ waiting' = loaded /\ UNCHANGED told

\* Mutant of Flush: what is held back is left to be dropped.
FlushNothing == waiting' = 0 /\ UNCHANGED told

\* flush(): what is held back is told now.
Flush ==
  /\ told' = IF waiting # 0 THEN waiting ELSE told
  /\ waiting' = 0

TimerFires ==
  /\ Quiet
  /\ waiting # 0
  /\ Flush
  /\ UNCHANGED <<conf, server, sent, stage, queue, ready, ended, gen, bodyErroredFirst,
                 tagged, seen, got, aborted, outcome>>

\* A pipe waits for room; the 'data' listener of the eager drain does not, and
\* drops what a destroyed meter will not take. The wrapper transforms nothing.
Pass(s, t) ==
  /\ stage[s].is = "open" /\ ready[s] > 0
  /\ LET eager == s = "body" /\ Drains
         into == IF t = "wrapper" THEN ready ELSE queue
         taken == IF stage[t].is = "open" THEN [into EXCEPT ![t] = @ + 1] ELSE into
     IN
     /\ eager \/ (stage[t].is = "open" /\ into[t] < HighWater)
     /\ queue' = IF t = "wrapper" THEN queue ELSE taken
     /\ ready' = [IF t = "wrapper" THEN taken ELSE ready EXCEPT ![s] = @ - 1]
  /\ UNCHANGED <<conf, server, sent, stage, ended, gen, bodyErroredFirst, tagged,
                 seen, progressVars, got, aborted, outcome>>

\* Mutant of Remainder: all of the chunk is sent again.
RemainderUncut == queue

\* What sendThrottled leaves for later when it has sent a chunk.
Remainder == [queue EXCEPT !["meter"] = @ - 1]

\* sendThrottled may keep a chunk for a while. Its timer outlives the stream:
\* the chunk it kept is still counted and reported, and goes nowhere.
MeterTransforms ==
  /\ queue["meter"] > 0
  /\ \/ /\ stage["meter"].is = "open" /\ ready["meter"] < HighWater
        /\ queue' = Remainder
        /\ ready' = [ready EXCEPT !["meter"] = @ + 1]
     \/ /\ stage["meter"].is = "failed" /\ conf.paced /\ Quiet
        /\ queue' = [queue EXCEPT !["meter"] = 0]
        /\ UNCHANGED ready
  /\ seen' = seen + 1
  /\ Report(seen + 1)
  /\ UNCHANGED <<conf, server, sent, stage, ended, gen, bodyErroredFirst, tagged,
                 got, aborted, outcome>>

InflateTransforms ==
  /\ Quiet
  /\ stage["inflate"].is = "open"
  /\ queue["inflate"] > 0 /\ ready["inflate"] < HighWater
  /\ IF conf.corrupt
       THEN /\ stage' = Destroy(stage, "inflate", "decode")
            /\ UNCHANGED <<queue, ready>>
       ELSE /\ queue' = [queue EXCEPT !["inflate"] = @ - 1]
            /\ ready' = [ready EXCEPT !["inflate"] = @ + Inflation]
            /\ UNCHANGED stage
  /\ UNCHANGED <<conf, server, sent, ended, gen, bodyErroredFirst, tagged, seen,
                 progressVars, got, aborted, outcome>>

\* A stream ends when all that went in has come out, and ends the next one. The
\* meter's 'end' flushes the progress report.
Ends(s) ==
  /\ stage[s].is = "open"
  /\ s \in ended /\ queue[s] = 0 /\ ready[s] = 0
  /\ stage' = [stage EXCEPT ![s].is = "ended"]
  /\ ended' = ended \cup {l[2] : l \in {m \in LinksOf[conf] : m[1] = s /\ m[2] # "guard"}}
  /\ IF s = "meter" THEN Flush ELSE UNCHANGED progressVars
  /\ UNCHANGED <<conf, server, sent, queue, ready, gen, bodyErroredFirst, tagged,
                 seen, got, aborted, outcome>>

-----------------------------------------------------------------------------
(***************************************************************************)
(* guardStreamMaxContentLength: a generator over its source, which is made *)
(* a stream again by Readable.from.                                        *)
(***************************************************************************)

\* The stream is read and has nothing: the generator asks for the next chunk.
GuardAsks ==
  /\ Used("guard")
  /\ stage["guard"].is = "open" /\ ready["guard"] = 0
  /\ gen \in {"unstarted", "paused"}
  /\ gen' = "pulling"
  /\ UNCHANGED <<conf, server, sent, stage, queue, ready, ended, bodyErroredFirst,
                 tagged, seen, progressVars, got, aborted, outcome>>

\* All that has come out of the guard.
GuardPassed ==
  ready["guard"] + ready["wrapper"] + got

\* A chunk too many throws, which destroys the source and then the stream. A
\* generator that was told to return meanwhile returns after the chunk.
GuardTakes ==
  /\ gen = "pulling"
  /\ LET s == SourceOf("guard") IN
     /\ stage[s].is = "open" /\ ready[s] > 0
     /\ IF GuardPassed + 1 > conf.limit
          THEN /\ stage' = Destroy(Destroy([stage EXCEPT !["guard"].is =
                             IF @ = "closing" THEN "closed" ELSE @], "guard", "limit"), s, "none")
               /\ gen' = "finished"
               /\ ready' = [ready EXCEPT ![s] = @ - 1]
        ELSE IF stage["guard"].is = "closing"
          THEN /\ stage' = Destroy([stage EXCEPT !["guard"].is = "closed"], s, "none")
               /\ gen' = "finished"
               /\ ready' = [ready EXCEPT ![s] = @ - 1]
        ELSE /\ UNCHANGED stage
             /\ gen' = "paused"
             /\ ready' = [ready EXCEPT ![s] = @ - 1, !["guard"] = @ + 1]
  /\ UNCHANGED <<conf, server, sent, queue, ended, bodyErroredFirst, tagged, seen,
                 progressVars, got, aborted, outcome>>

\* The loop over the source is over, by its end or by an error.
GuardStops ==
  /\ gen = "pulling"
  /\ LET s == SourceOf("guard") IN
     \/ /\ stage[s].is = "ended"
        /\ ended' = ended \cup {"guard"}
        /\ stage' = [stage EXCEPT !["guard"].is = IF @ = "closing" THEN "closed" ELSE @]
     \/ /\ stage[s].is = "failed" /\ ~stage[s].due
        /\ stage' = IF stage["guard"].is = "closing"
                      THEN [stage EXCEPT !["guard"].is = "closed"]
                      ELSE Destroy(stage, "guard", stage[s].why)
        /\ UNCHANGED ended
  /\ gen' = "finished"
  /\ UNCHANGED <<conf, server, sent, queue, ready, bodyErroredFirst, tagged, seen,
                 progressVars, got, aborted, outcome>>

-----------------------------------------------------------------------------
(***************************************************************************)
(* The listeners that the streams have on one another.                     *)
(***************************************************************************)

\* Mutant of FalseAlarm: the bytes are not counted.
FalseAlarmUncounted == conf.known /\ stage["body"].why = "socket"

\* undici reports a closed socket although all of the body has passed the meter.
FalseAlarm ==
  conf.known /\ seen >= conf.size /\ stage["body"].why = "socket"

\* Mutant of TaggedBy: bodyErroredFirst is not asked.
TaggedByAny(s) == tagged \/ (s = "inflate" /\ stage[s].is = "failed")

\* The decompressor's own error is tagged, not one that its source passed on.
TaggedBy(s) ==
  tagged \/ (s = "inflate" /\ stage[s].is = "failed" /\ ~bodyErroredFirst)

\* wrapStreamCancellation: an abort becomes a CanceledError, a tagged error an
\* AxiosError, anything else is passed on.
Translated(why, tag) ==
  IF why = "abort" THEN "canceled"
  ELSE IF why # "limit" /\ tag THEN "decodeError"
  ELSE why

\* An error goes on to the next stream, but not into the guard, whose generator
\* finds it (GuardStops), and not a false alarm.
ToSink(st, s, tag) ==
  LET next == {l[2] : l \in {m \in LinksOf[conf] : m[1] = s}} IN
  IF st[s].is # "failed" THEN st
  ELSE CASE "meter" \in next /\ ~FalseAlarm -> Destroy(st, "meter", st[s].why)
         [] "inflate" \in next -> Destroy(st, "inflate", st[s].why)
         [] "wrapper" \in next -> Destroy(st, "wrapper", Translated(st[s].why, tag))
         [] OTHER -> st

\* Mutant of ToSource: pipe() does not destroy its source.
ToSourceNoInflate(st, s) ==
  CASE s = "meter" -> Destroy(st, "body", "none")
    [] s = "wrapper" -> DestroyAny(st, SourceOf(s))
    [] OTHER -> st

\* A stream that is destroyed destroys its source.
ToSource(st, s) ==
  CASE s = "meter" -> Destroy(st, "body", "none")
    [] s = "inflate" -> Destroy(st, SourceOf(s), st[s].why)
    [] s = "wrapper" -> DestroyAny(st, SourceOf(s))
    [] OTHER -> st

\* 'error' and 'close' of a destroyed stream, told to all who listen.
Notify(s) ==
  /\ stage[s].due
  /\ s = "body" => Quiet
  /\ LET heard == [stage EXCEPT ![s].due = FALSE] IN
     /\ stage' = ToSource(ToSink(heard, s, TaggedBy(s)), s)
     /\ gen' = GenAfter(stage')
  /\ tagged' = TaggedBy(s)
  /\ bodyErroredFirst' = (bodyErroredFirst \/ (stage[s].is = "failed" /\ <<s, "inflate">> \in LinksOf[conf]))
  /\ ended' = IF s = "body" /\ Metered /\ FalseAlarm THEN ended \cup {"meter"} ELSE ended
  /\ IF s = "meter" /\ stage[s].is = "failed" THEN Flush ELSE UNCHANGED progressVars
  /\ UNCHANGED <<conf, server, sent, queue, ready, seen, got, aborted, outcome>>

-----------------------------------------------------------------------------
(***************************************************************************)
(* The reader: toAxiosLikeResponse for a buffered response, the caller for *)
(* a stream.                                                               *)
(***************************************************************************)

\* The buffered read destroys what it reads as soon as it exceeds the limit,
\* and the decompressor's source with it.
LimitDestroys ==
  IF OutOf = "inflate"
    THEN Destroy(Destroy(stage, "inflate", "limit"), SourceOf("inflate"), "limit")
    ELSE Destroy(stage, OutOf, "none")

ReaderTakes ==
  /\ outcome = "reading"
  /\ stage[OutOf].is = "open" /\ ready[OutOf] > 0
  /\ ready' = [ready EXCEPT ![OutOf] = @ - 1]
  /\ IF ~Streaming /\ Limited /\ got + 1 > conf.limit
       THEN /\ outcome' = "limit"
            /\ stage' = LimitDestroys
            /\ UNCHANGED got
       ELSE /\ got' = got + 1
            /\ UNCHANGED <<outcome, stage>>
  /\ UNCHANGED <<conf, server, sent, queue, ended, gen, bodyErroredFirst, tagged,
                 seen, progressVars, aborted>>

\* A body that was never touched is given a second read, as text.
BodyUsed == sent > ready["body"] \/ stage["body"].is \in {"failed", "closed"}

\* What the catch block makes of an error of the buffered read.
Caught(why, tag) ==
  IF why = "limit" THEN "limit"
  ELSE IF tag THEN "decodeError"
  ELSE IF ~Metered /\ ~BodyUsed THEN "ok"
  ELSE IF why = "abort" THEN "canceled"
  ELSE why

\* Without a limit a compressed body is decompressed when it is complete. Then
\* it is parsed, which a strict responseType 'json' or a transform may refuse.
ReaderEnds ==
  /\ outcome = "reading"
  /\ stage[OutOf].is = "ended"
  /\ IF ~Streaming /\ conf.encoded /\ ~Limited /\ conf.corrupt
       THEN outcome' = Caught("decode", TRUE)
       ELSE \/ outcome' = "ok"
            \/ ~Streaming /\ outcome' = "refused"
  /\ UNCHANGED <<conf, server, sent, stage, queue, ready, ended, gen, bodyErroredFirst,
                 tagged, seen, progressVars, got, aborted>>

ReaderHears ==
  /\ outcome = "reading"
  /\ stage[OutOf].is = "failed" /\ ~stage[OutOf].due
  /\ outcome' = IF Streaming THEN stage[OutOf].why ELSE Caught(stage[OutOf].why, tagged)
  /\ UNCHANGED <<conf, server, sent, stage, queue, ready, ended, gen, bodyErroredFirst,
                 tagged, seen, progressVars, got, aborted>>

\* The caller stops reading the stream and destroys it.
CallerLeaves ==
  /\ Streaming /\ outcome = "reading"
  /\ stage[OutOf].is = "open"
  /\ outcome' = "left"
  /\ stage' = DestroyAny(stage, OutOf)
  /\ gen' = GenAfter(stage')
  /\ UNCHANGED <<conf, server, sent, queue, ready, ended, bodyErroredFirst, tagged,
                 seen, progressVars, got, aborted>>

-----------------------------------------------------------------------------
Outside ==
  \/ ServerSends \/ ServerEnds \/ ServerBreaks
  \/ \E why \in Aborts : Abort(why)
  \/ CallerLeaves

\* The streams at work.
Flow ==
  \/ \E l \in LinksOf[conf] : l[2] # "guard" /\ Pass(l[1], l[2])
  \/ MeterTransforms \/ InflateTransforms
  \/ \E s \in Stages : Ends(s)
  \/ GuardTakes \/ GuardStops

Heard == \E s \in Stages : Notify(s)

Next ==
  \/ Outside \/ Flow \/ Heard
  \/ GuardAsks \/ TimerFires
  \/ ReaderTakes \/ ReaderEnds \/ ReaderHears

Spec == Init /\ [][Next]_vars

\* What the event loop and the library's own read do by themselves.
EventLoop ==
  \/ Flow \/ Heard \/ TimerFires
  \/ Used("wrapper") /\ GuardAsks
  \/ ~Streaming /\ ReaderTakes
  \/ ReaderEnds \/ ReaderHears

\* The event loop runs what is due; it is never busy for ever, as every chunk
\* moves on a bounded number of times. Nothing is asked of the server, nor of the
\* caller, who may leave a stream unread.
FairSpec == Spec /\ WF_vars(EventLoop)

-----------------------------------------------------------------------------
(***************************************************************************)
(* Properties.                                                             *)
(***************************************************************************)

Outcomes == {"reading", "ok", "left", "refused"} \cup Causes

TypeOK ==
  /\ conf \in Confs
  /\ server \in {"sending", "done", "broke"} /\ sent \in 0..conf.size
  /\ stage \in [Stages -> [is: {"open", "ended", "failed", "closed", "closing"},
                           why: {"none"} \cup Causes, due: BOOLEAN]]
  /\ queue \in [Stages -> 0..(Inflation * conf.size)]
  /\ ready \in [Stages -> 0..(Inflation * conf.size)]
  /\ ended \subseteq Stages
  /\ gen \in {"unstarted", "pulling", "paused", "finished"}
  /\ bodyErroredFirst \in BOOLEAN /\ tagged \in BOOLEAN
  /\ seen \in 0..conf.size /\ told \in 0..conf.size /\ waiting \in 0..conf.size
  /\ got \in 0..Units(conf.size)
  /\ aborted \in {"none"} \cup Aborts /\ outcome \in Outcomes

\* A read that ends well has all that the server was to send, in the form asked
\* for: no error - a broken socket that was taken for a false alarm included -
\* ever passes for the end of a body.
AnswerIsWhole ==
  outcome = "ok" =>
    /\ got = Units(conf.size)
    /\ ~(conf.encoded /\ conf.corrupt)
    /\ Limited => got <= conf.limit

\* The caller is given no more than maxContentLength decompressed chunks,
\* whatever the body was compressed to.
WithinLimit == Limited => got <= conf.limit

\* An error is named after what has happened: a decode error after corrupt data
\* and never after a broken socket, a cancellation after an abort. A decode error
\* is always made an AxiosError, and an abort always a CanceledError where the
\* request could have been aborted by its caller.
CauseIsNamed ==
  /\ outcome # "decode"
  /\ outcome = "decodeError" => conf.encoded /\ conf.corrupt
  /\ outcome = "socket" => server = "broke"
  /\ outcome \in {"canceled", "abort", "reason"} => aborted # "none"
  /\ outcome = "abort" => Streaming /\ ~conf.cancellable
  /\ outcome = "limit" => Units(conf.size) > conf.limit

\* When the meter has ended, the last progress event has told all of the bytes,
\* and none is told after it.
LastProgressTold ==
  stage["meter"].is = "ended" /\ conf.progress => told = seen /\ waiting = 0

\* A buffered read ends when the server has ended or the body broken off. An abort ends
\* one that has passed its body on to the meter as an error, also when the body
\* itself was complete long before. And whatever ended the read, undici's body - the
\* socket - is let go, unless its caller left a stream with a maxContentLength.
ReadEnds ==
  /\ ~Streaming /\ (server = "done" \/ stage["body"].is # "open") ~> outcome # "reading"
  /\ (Metered /\ outcome = "reading" /\ aborted # "none" /\ stage["meter"].why = "none"
        /\ stage["meter"].is # "ended")
       ~> outcome \notin {"reading", "ok"}
  /\ outcome # "reading" /\ ~(outcome = "left" /\ Used("guard")) ~> stage["body"].is # "open"

-----------------------------------------------------------------------------
\* What is said of the wrapper: "a caller that stops reading the wrapper early
\* still releases the raw undici body/socket behind it". With a guard between
\* them, whose generator is suspended awaiting a chunk the server does not send,
\* it does not. (Nor does it when the generator has not been started: returned
\* from, it has no finally to run.)
LeftBodyIsReleased ==
  outcome = "left" /\ Used("wrapper") /\ gen = "pulling"
    ~> stage["body"].is # "open"
=============================================================================
