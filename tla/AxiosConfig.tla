------------------------------ MODULE AxiosConfig ------------------------------
(***************************************************************************)
(* From the config of a request to what is sent, and back: the config that *)
(* interceptors see, its serialisation (headers, credentials, body), the   *)
(* config that the response or the error shows, and requests made from it  *)
(* again. One subscriber resubscribes, or replays an error.config it kept. *)
(***************************************************************************)
EXTENDS Naturals

CONSTANTS
  Requests,     \* the calls the application may make, see RequestsAssumption
  MaxAttempts,  \* bound: times the request is sent
  MaxEdits,     \* bound: changes made to configs and options
  NewValues,    \* bound: what a header is changed to
  NewData       \* bound: what data is changed to

\* Header names, lower-case; casing and order are the matter of RequestDefaults.
ContentType == "content-type"
Authorization == "authorization"
Names == {ContentType, Authorization}

\* A header value: its type and, for a multipart one, its boundary, 0 for none.
Value(type) == [type |-> type, boundary |-> 0]
Multipart(boundary) == [type |-> "multipart", boundary |-> boundary]
Absent == Value("absent")
Off == Value("off")               \* null or false: a header withheld
Types == {"absent", "off", "json", "urlencoded", "multipart", "blob", "basic", "token"}
HeaderMaps == [Names -> [type : Types, boundary : Nat]]

\* What data or a body is: what kind of object, what its text encodes, with
\* which boundary, and which stream it is read from, 0 for none.
Datum(kind, as, boundary, stream) ==
  [kind |-> kind, as |-> as, boundary |-> boundary, stream |-> stream]
Kinds == {"none", "falsy", "text", "object", "params", "form", "package", "undici",
          "blob", "emptyBlob", "bytes", "stream"}
Contents == {"nothing", "raw", "fields", "json", "json string", "urlencoded", "multipart",
             "transformed"}
Data == [kind : Kinds, as : Contents, boundary : Nat, stream : Nat]
Nothing == Datum("none", "nothing", 0, 0)
Text(as) == Datum("text", as, 0, 0)

\* The application's own stream; boundaries that others than this code draw.
CallersStream == MaxAttempts + 1
ForeignBoundary == MaxAttempts + 1

\* headers, data, auth ("none", in the config or in the URL) and whether there
\* is a transformRequest are the caller's; form says it called postForm;
\* defaults are the header base its instance gives this method; its params are
\* merged with those of the instance, or there is nothing to merge.
ASSUME RequestsAssumption ==
  Requests \subseteq [method : {"get", "post"}, form : BOOLEAN, transform : BOOLEAN,
                      auth : {"none", "config", "url"}, params : {"own", "merged"},
                      headers : HeaderMaps, data : Data,
                      defaults : [Names -> [type : Types \ {"off"}, boundary : Nat]]]
\* Only these are read to an end, and a stream of the application's is none of
\* those that are made of a FormData: those have the number of their attempt.
ASSUME StreamsAssumption ==
  \A data \in NewData \cup {r.data : r \in Requests} :
    data.stream # 0 => data.kind \in {"stream", "package"} /\ data.stream > MaxAttempts
\* The application's text and bytes are its own matter, whatever they encode.
ASSUME ContentsAssumption ==
  \A data \in NewData \cup {r.data : r \in Requests} :
    /\ data.kind \in {"package", "undici"} => data.as = "multipart"
    /\ data.kind \in {"text", "blob", "emptyBlob", "bytes", "stream"} => data.as = "raw"
ASSUME BoundsAssumption == MaxAttempts \in Nat /\ MaxEdits \in Nat
ASSUME EditsAssumption ==
  NewValues \subseteq [type : Types, boundary : Nat] /\ NewData \subseteq Data

Attempts == 1 .. MaxAttempts

\* A config refers to its headers; a message has them, and says whether its
\* body was there to be read.
Configs == [headers : Attempts, data : Data, auth : {"none", "config", "url"},
            transform : BOOLEAN]
Messages == [headers : HeaderMaps, body : Data, fresh : BOOLEAN]
NoConfig == [none |-> TRUE]

\* What of the call's config has contents of its own to be changed in place.
Parts == {"data", "params"}
Mutable == {"object", "form", "params", "package", "undici", "bytes"}

NotSent == [none |-> TRUE]

VARIABLES
  request,  \* the call being made
  count,    \* attempts so far; the last one is under way
  phase,    \* of the last attempt: idle, intercepting, ready, sent, settled
  config,   \* attempt -> its axios config; on the fast path once it settled
  heap,     \* attempt -> the headers object made for its config
  options,  \* headers and body the last attempt is dispatched with
  wire,     \* attempt -> what was sent
  from,     \* attempt -> the attempt whose config it replays, 0 for the call
  edited,   \* the attempts whose config or options somebody changed
  named,    \* the attempts for which somebody chose a Content-Type
  spent,    \* the streams that were read
  contents, \* how often the call's own data and params were changed in place
  holds,    \* <<attempt, part>>: its config, or options, refer to that object
  since,    \* attempt -> the contents there were when it was subscribed to
  told,     \* attempt -> the contents that are in what it sends
  edits     \* changes made so far

vars == <<request, count, phase, config, heap, options, wire, from, edited, named,
          spent, contents, holds, since, told, edits>>

-----------------------------------------------------------------------------
(***************************************************************************)
(* Headers.                                                                *)
(***************************************************************************)

\* AxiosHeaders.set: with rewrite false, only what has no value yet; null and
\* false are values.
SetIn(headers, name, value, rewrite) ==
  IF ~rewrite /\ headers[name] # Absent THEN headers
  ELSE [headers EXCEPT ![name] = value]

\* AxiosHeaders.toJSON leaves out what is withheld.
ToJSON(headers) ==
  [name \in Names |-> IF headers[name] = Off THEN Absent ELSE headers[name]]

\* mergeHeaders of a header base and the headers of a request.
MergeHeaders(base, own) ==
  [name \in Names |-> IF own[name] = Absent THEN base[name]
                      ELSE IF own[name] = Off THEN Absent ELSE own[name]]

\* setHeaderIfMissing, also for the plain headers of the fast path.
SetHeaderIfMissing(headers, name, value) == SetIn(headers, name, value, FALSE)

\* auth, and credentials found in the URL, override any Authorization.
WithCredentials(headers, auth) ==
  IF auth = "none" THEN headers ELSE SetIn(headers, Authorization, Value("basic"), TRUE)

-----------------------------------------------------------------------------
(***************************************************************************)
(* The body: serializeRequestData for the nth attempt.                     *)
(***************************************************************************)

\* A FormData, or an object that an explicit Content-Type makes one.
IsForm(data, type) == data.kind = "form" \/ (data.kind = "object" /\ type = "multipart")

\* Mutant of Encoded: a string under application/json is made JSON once more.
EncodedAgain(data, type, n) ==
  CASE data.kind \in {"none", "falsy"} -> Nothing
    [] IsForm(data, type) -> IF type = "json" THEN Text("json")
                             ELSE Datum("stream", "multipart", n, n)
    [] data.kind = "package" -> [data EXCEPT !.kind = "stream"]
    [] data.kind = "params" \/ (data.kind = "object" /\ type = "urlencoded") -> Text("urlencoded")
    [] data.kind = "object" /\ type \notin {"multipart", "urlencoded"} -> Text("json")
    [] data.kind = "text" /\ type = "json" -> Text("json string")
    [] OTHER -> data

\* What is sent for data under a Content-Type of this type: a string is what
\* it is, and bytes, Blobs, streams and undici's own FormData pass through.
Encoded(data, type, n) ==
  CASE data.kind \in {"none", "falsy"} -> Nothing
    [] IsForm(data, type) -> IF type = "json" THEN Text("json")
                             ELSE Datum("stream", "multipart", n, n)
    [] data.kind = "package" -> [data EXCEPT !.kind = "stream"]
    [] data.kind = "params" \/ (data.kind = "object" /\ type = "urlencoded") -> Text("urlencoded")
    [] data.kind = "object" /\ type \notin {"multipart", "urlencoded"} -> Text("json")
    [] OTHER -> data

\* globalFormDataToStream: a Content-Type that names a boundary is kept.
FormLabel(headers, n) ==
  SetIn(headers, ContentType, Multipart(n), headers[ContentType].boundary = 0)

\* Mutant of Labelled: the default of methods with a body comes first.
LabelledByMethod(headers, data, body, method, n) ==
  IF method = "post" THEN SetHeaderIfMissing(headers, ContentType, Value("urlencoded"))
  ELSE IF body.as = "json" THEN SetHeaderIfMissing(headers, ContentType, Value("json"))
  ELSE headers

\* The headers after data was encoded as body: the Content-Type of the data,
\* then the default of methods with a body.
Labelled(headers, data, body, method, n) ==
  LET own ==
        CASE IsForm(data, headers[ContentType].type) /\ body.kind = "stream" -> FormLabel(headers, n)
          [] data.kind = "package" ->
               SetHeaderIfMissing(headers, ContentType, Multipart(data.boundary))
          [] data.kind = "blob" -> SetIn(headers, ContentType, Value("blob"), TRUE)
          [] data.kind = "params" -> SetHeaderIfMissing(headers, ContentType, Value("urlencoded"))
          [] data.kind = "object" /\ body.as = "json" ->
               SetHeaderIfMissing(headers, ContentType, Value("json"))
          [] OTHER -> headers
  IN  IF method = "post" /\ body.kind # "undici"
      THEN SetHeaderIfMissing(own, ContentType, Value("urlencoded"))
      ELSE own

\* A transformRequest instead: its result, whatever that is made of; no label.
Transformed(data) ==
  Datum("text", "transformed", IF data.as = "transformed" THEN data.boundary + 1 ELSE 1, 0)

SerializeRequestData(headers, data, n) ==
  LET body == Encoded(data, headers[ContentType].type, n)
  IN  [body |-> body, headers |-> Labelled(headers, data, body, request.method, n)]

-----------------------------------------------------------------------------
(***************************************************************************)
(* The actions.                                                            *)
(***************************************************************************)

\* buildFormRequestConfig: postForm makes a FormData of what is no form yet.
BuildFormRequestConfig(data) ==
  IF request.form /\ data.kind \notin {"form", "package", "undici", "params"}
  THEN Datum("form", "fields", 0, 0) ELSE data

\* A config it was shown, as the AxiosHeaders in it report themselves.
Shown(k) == [config[k] EXCEPT !.headers = ToJSON(heap[config[k].headers])]

\* The config the caller wrote.
Given == [headers |-> request.headers, data |-> BuildFormRequestConfig(request.data),
          auth |-> request.auth, transform |-> request.transform]

\* Mutant of Input: the config is built by the call, not on every subscription.
InputBuiltOnce(source) ==
  IF source # 0 THEN Shown(source)
  ELSE IF count > 0 /\ config[1] # NoConfig THEN Shown(1) ELSE Given

\* What the config of an attempt has of the call's own objects: data is kept as
\* it is, params unless the instance has some to merge them with.
Kept(source) ==
  {p \in Parts : /\ p = "data" => Given.data.kind \in Mutable
                 /\ p = "params" => request.params = "own"
                 /\ source # 0 => <<source, p>> \in holds}

\* Bytes and FormData of packages are sent as they are, the rest as a text or a
\* stream made of it.
SentAsIs(data) == data.kind \in {"package", "undici", "bytes"}

\* Held by the nth attempt once its data was encoded.
Encoding(n, held, data, transform) ==
  {n} \X (IF SentAsIs(data) /\ ~transform THEN held ELSE held \ {"data"})

\* What an attempt starts from.
Input(source) == IF source = 0 THEN Given ELSE Shown(source)

\* The call itself, or request(error.config) with a config it has shown.
Sources == {0} \cup {k \in 1 .. count : config[k] # NoConfig}

\* dispatch(): a next attempt is subscribed to, from this source.
Subscribe(source) ==
  /\ phase \in {"idle", "settled"} /\ count < MaxAttempts
  /\ count' = count + 1
  /\ from' = [from EXCEPT ![count + 1] = source]
  /\ named' = IF IF source = 0 THEN MergeHeaders(request.defaults, request.headers)[ContentType] # Absent
                 ELSE source \in named \/ request.defaults[ContentType] # Absent
              THEN named \cup {count + 1} ELSE named
  /\ since' = [since EXCEPT ![count + 1] = contents]
  /\ told' = [told EXCEPT ![count + 1] =
                [p \in Parts |-> IF source = 0 \/ p \in Kept(source) THEN contents[p]
                                 ELSE told[source][p]]]
  /\ UNCHANGED <<request, wire, edited, spent, contents, edits>>

\* Mutant of HeadersObject: a replay goes on with the AxiosHeaders it was given.
HeadersObjectReused(source, n) == IF source = 0 THEN n ELSE config[source].headers

\* The AxiosHeaders that the nth attempt's config holds: always a new one.
HeadersObject(source, n) == n

\* buildAxiosConfig, when an interceptor or a transform asks for the pipeline.
BuildAxiosConfig(source) ==
  LET input == Input(source)
      n == count + 1
      object == HeadersObject(source, n)
  IN  /\ Subscribe(source)
      /\ config' = [config EXCEPT ![n] = [input EXCEPT !.headers = object]]
      /\ heap' = [heap EXCEPT ![object] =
                    WithCredentials(MergeHeaders(request.defaults, input.headers),
                                    IF input.auth = "config" THEN "config" ELSE "none")]
      /\ phase' = "intercepting"
      /\ holds' = holds \cup ({n} \X Kept(source))
      /\ UNCHANGED options

\* The contents that are sent: of what is still held, the present ones.
Tell(parts) ==
  [told EXCEPT ![count] =
     [p \in Parts |-> IF p \in parts /\ <<count, p>> \in holds THEN contents[p]
                      ELSE told[count][p]]]

\* serializeAxiosConfig, after the request interceptors: the config is changed
\* in place, the options get a plain copy of its headers.
SerializeAxiosConfig ==
  LET c == config[count]
      held == {p \in Parts : <<count, p>> \in holds}
      headers == WithCredentials(heap[c.headers], c.auth)
      made == IF c.transform THEN [body |-> Transformed(c.data), headers |-> headers]
              ELSE SerializeRequestData(headers, c.data, count)
  IN  /\ phase = "intercepting"
      /\ phase' = "ready"
      /\ heap' = [heap EXCEPT ![c.headers] = made.headers]
      /\ config' = [config EXCEPT ![count].data = made.body]
      /\ options' = [headers |-> ToJSON(made.headers), body |-> made.body]
      /\ told' = Tell(Parts)
      /\ holds' = (holds \ ({count} \X Parts)) \cup Encoding(count, held, c.data, c.transform)
      /\ UNCHANGED <<request, count, wire, from, edited, named, spent, contents, since, edits>>

\* normalizeAxiosRequest and dispatchFastPath, which build no config. Instances
\* are born with an Accept among their defaults, so there is work to do.
NormalizeAxiosRequest(source) ==
  LET input == Input(source)
      headers == WithCredentials(MergeHeaders(request.defaults, input.headers), input.auth)
  IN  /\ ~input.transform
      /\ Subscribe(source)
      /\ options' = SerializeRequestData(headers, input.data, count + 1)
      /\ phase' = "ready"
      /\ holds' = holds \cup Encoding(count + 1, Kept(source), input.data, FALSE)
      /\ UNCHANGED <<config, heap>>

\* undici labels a FormData of its own.
Sent(headers, body) ==
  IF body.kind = "undici" THEN SetHeaderIfMissing(headers, ContentType, Multipart(body.boundary))
  ELSE headers

\* executeRequest and undici send the options; a stream is read to its end.
Dispatch ==
  LET body == options.body
  IN  /\ phase = "ready"
      /\ phase' = "sent"
      /\ wire' = [wire EXCEPT ![count] =
                    [headers |-> Sent(options.headers, body), body |-> body,
                     fresh |-> body.stream \notin spent]]
      /\ spent' = IF body.stream = 0 THEN spent ELSE spent \cup {body.stream}
      /\ told' = Tell({"data"})
      /\ UNCHANGED <<request, count, config, heap, options, from, edited, named,
                     contents, holds, since, edits>>

\* The response or the error is made: on the fast path it shows a copy of the
\* options (captureLazyConfigSeed), without auth; the URL keeps its own.
Settle ==
  /\ phase = "sent"
  /\ phase' = "settled"
  /\ IF config[count] # NoConfig THEN UNCHANGED <<config, heap>>
     ELSE /\ config' = [config EXCEPT ![count] =
                          [headers |-> count, data |-> options.body, transform |-> FALSE,
                           auth |-> IF request.auth = "url" THEN "url" ELSE "none"]]
          /\ heap' = [heap EXCEPT ![count] = options.headers]
  /\ UNCHANGED <<request, count, options, wire, from, edited, named, spent,
                 contents, holds, since, told, edits>>

Edit(j) ==
  /\ edits < MaxEdits
  /\ edits' = edits + 1
  /\ edited' = edited \cup {j}
  /\ UNCHANGED <<request, count, phase, wire, from, spent, contents, since, told>>

\* An interceptor, or whoever kept the config of attempt j, sets or removes a
\* header of it: set(name, value, rewrite), delete(name).
EditHeader(j, name, value, rewrite) ==
  /\ config[j] # NoConfig
  /\ Edit(j)
  /\ heap' = [heap EXCEPT ![config[j].headers] = SetIn(@, name, value, rewrite)]
  /\ named' = IF name = ContentType THEN named \cup {j} ELSE named
  /\ UNCHANGED <<config, options, holds>>

\* The same with its data, which any Content-Type there is now names.
EditData(j, data) ==
  /\ config[j] # NoConfig
  /\ Edit(j)
  /\ config' = [config EXCEPT ![j].data = data]
  /\ named' = IF heap[config[j].headers][ContentType] = Absent THEN named ELSE named \cup {j}
  /\ holds' = holds \ {<<j, "data">>}
  /\ UNCHANGED <<heap, options>>

\* The call's own data or params are changed in place: by the caller, or by an
\* interceptor, by way of any config that refers to them. All those are changed.
ChangeInPlace(p) ==
  /\ p = "data" => Given.data.kind \in Mutable
  /\ edits < MaxEdits
  /\ edits' = edits + 1
  /\ contents' = [contents EXCEPT ![p] = @ + 1]
  /\ edited' = edited \cup {j \in Attempts : <<j, p>> \in holds}
  /\ UNCHANGED <<request, count, phase, config, heap, options, wire, from, named, spent,
                 holds, since, told>>

\* A native interceptor changes a header of the options, before they are sent
\* or after the answer.
EditOptions(name, value) ==
  /\ phase \in {"ready", "settled"}
  /\ edits < MaxEdits
  /\ edits' = edits + 1
  /\ options' = [options EXCEPT !.headers[name] = value]
  /\ edited' = IF phase = "ready" THEN edited \cup {count} ELSE edited
  /\ named' = IF phase = "ready" /\ name = ContentType THEN named \cup {count} ELSE named
  /\ UNCHANGED <<request, count, phase, config, heap, wire, from, spent,
                 contents, holds, since, told>>

Init ==
  /\ request \in Requests
  /\ count = 0 /\ phase = "idle"
  /\ config = [n \in Attempts |-> NoConfig]
  /\ heap = [n \in Attempts |-> [name \in Names |-> Absent]]
  /\ options = [headers |-> [name \in Names |-> Absent], body |-> Nothing]
  /\ wire = [n \in Attempts |-> NotSent]
  /\ from = [n \in Attempts |-> 0]
  /\ edited = {} /\ named = {} /\ spent = {} /\ edits = 0
  /\ contents = [p \in Parts |-> 0] /\ holds = {}
  /\ since = [n \in Attempts |-> [p \in Parts |-> 0]] /\ told = since

Next ==
  \/ \E source \in Sources : BuildAxiosConfig(source) \/ NormalizeAxiosRequest(source)
  \/ SerializeAxiosConfig \/ Dispatch \/ Settle
  \/ \E j \in Attempts, name \in Names, value \in NewValues \cup {Absent, Off}, rewrite \in BOOLEAN :
       EditHeader(j, name, value, rewrite)
  \/ \E j \in Attempts, data \in NewData : EditData(j, data)
  \/ \E p \in Parts : ChangeInPlace(p)
  \/ \E name \in Names, value \in NewValues : EditOptions(name, value)

Spec == Init /\ [][Next]_vars

-----------------------------------------------------------------------------
(***************************************************************************)
(* Properties.                                                             *)
(***************************************************************************)

\* Configs, headers and bodies are what they should be: interceptors and
\* whoever gets the answer have a config to look at, and an attempt that was
\* dispatched has its body read from a stream that is spent.
TypeOK ==
  /\ request \in Requests
  /\ count \in 0 .. MaxAttempts
  /\ phase \in {"idle", "intercepting", "ready", "sent", "settled"}
  /\ phase # "idle" => count # 0
  /\ phase \in {"intercepting", "settled"} => config[count] # NoConfig
  /\ config \in [Attempts -> Configs \cup {NoConfig}]
  /\ heap \in [Attempts -> HeaderMaps]
  /\ options \in [headers : HeaderMaps, body : Data]
  /\ wire \in [Attempts -> Messages \cup {NotSent}]
  /\ \A n \in Attempts : wire[n] # NotSent => wire[n].body.stream \in spent \cup {0}
  /\ from \in [Attempts -> 0 .. MaxAttempts]
  /\ edited \subseteq Attempts /\ named \subseteq Attempts /\ spent \subseteq Nat
  /\ contents \in [Parts -> Nat] /\ holds \subseteq Attempts \X Parts
  /\ since \in [Attempts -> [Parts -> Nat]] /\ told \in [Attempts -> [Parts -> Nat]]
  /\ edits \in 0 .. MaxEdits

Settled(n) == n < count \/ (n = count /\ phase = "settled")

\* Until somebody changes it, a response.config or error.config shows what its
\* own attempt was dispatched with: no replay made from it, no other config
\* and no late change to the options reaches it.
ConfigShowsWhatWasSent ==
  \A n \in Attempts : Settled(n) /\ n \notin edited =>
    /\ config[n].data = wire[n].body
    /\ wire[n].headers = Sent(ToJSON(heap[config[n].headers]), wire[n].body)

\* Nobody touched either config: attempt n replays attempt k.
Replays(n, k) ==
  /\ n \in Attempts /\ wire[n] # NotSent /\ from[n] = k /\ k # 0
  /\ {n, k} \cap edited = {}

\* A replay sends what the attempt it replays sent, by whichever route either
\* of them goes: nothing is encoded, labelled or authorised a second time, and
\* what is no stream is sent anew. A transformRequest runs again, and a header
\* the caller withheld is the default again.
ReplayRepeatsTheRequest ==
  \A n, k \in Attempts : Replays(n, k) /\ ~request.transform =>
    /\ wire[n].body = wire[k].body /\ told[n] = told[k]
    /\ wire[n].body.kind # "stream" => wire[n].fresh
    /\ \A name \in Names : request.headers[name] # Off => wire[n].headers[name] = wire[k].headers[name]

Alike(a, b) ==
  /\ <<a.body.kind, a.body.as>> = <<b.body.kind, b.body.as>>
  /\ \A name \in Names : a.headers[name].type = b.headers[name].type

\* Each subscription starts from the caller's config: it sends what the first
\* one sent, by either route, whatever was sent, replayed or set in other configs
\* since; with a body of its own, but for a stream of the caller's. The config has
\* the call's data and params themselves, though: changed in place, by whoever,
\* they are sent with the contents they have when the subscription begins.
ResubscriptionStartsFresh ==
  \A n, k \in Attempts :
    /\ wire[n] # NotSent /\ wire[k] # NotSent
    /\ from[n] = 0 /\ from[k] = 0 /\ {n, k} \cap edited = {}
    => Alike(wire[n], wire[k])
       /\ (request.data.stream = 0 => wire[n].fresh)
       /\ told[n] = since[n]

\* The Content-Type that goes with a body, where nobody chose one.
LabelOf(body) ==
  CASE body.as \in {"json", "urlencoded"} -> Value(body.as)
    [] body.as = "multipart" -> Multipart(body.boundary)
    [] body.kind = "blob" -> Value("blob")
    [] OTHER -> IF request.method = "post" /\ ~request.transform THEN Value("urlencoded")
                ELSE Absent

\* A body goes with its own Content-Type, through replays as well: the string
\* an object became is still JSON, the stream a FormData became keeps the
\* boundary it was encoded with.
BodyKeepsItsLabel ==
  \A n \in Attempts \ named : wire[n] # NotSent => wire[n].headers[ContentType] = LabelOf(wire[n].body)
=============================================================================
