--------------------------- MODULE AxiosConfig_proofs ---------------------------
(***************************************************************************)
(* Proofs about AxiosConfig, for every set of calls and every bound.       *)
(***************************************************************************)
EXTENDS AxiosConfig, TLAPS

Values == [type : Types, boundary : Nat]

\* Header values are records of a type and a boundary.
LEMMA ValueType ==
  /\ Absent \in Values /\ Off \in Values
  /\ \A t \in Types : Value(t) \in Values
  /\ \A b \in Nat : Multipart(b) \in Values
  /\ HeaderMaps = [Names -> Values]
<1>1. \A t \in Types : Value(t) \in Values
  BY DEF Values, Value, Types
<1>2. Absent \in Values /\ Off \in Values
  BY <1>1 DEF Absent, Off, Types
<1>3. \A b \in Nat : Multipart(b) \in Values
  BY DEF Values, Multipart, Types
<1>4. HeaderMaps = [Names -> Values]
  BY DEF HeaderMaps, Values
<1> QED BY <1>1, <1>2, <1>3, <1>4

\* set() keeps headers headers.
LEMMA SetInType ==
  ASSUME NEW h \in HeaderMaps, NEW name, NEW v \in Values, NEW rewrite
  PROVE  SetIn(h, name, v, rewrite) \in HeaderMaps
  BY ValueType DEF SetIn

\* So do the operators made of it.
LEMMA HeadersType ==
  ASSUME NEW h \in HeaderMaps
  PROVE  /\ ToJSON(h) \in HeaderMaps
         /\ \A own \in HeaderMaps : MergeHeaders(h, own) \in HeaderMaps
         /\ \A auth : WithCredentials(h, auth) \in HeaderMaps
<1>1. ToJSON(h) \in HeaderMaps
  BY ValueType DEF ToJSON
<1>2. \A own \in HeaderMaps : MergeHeaders(h, own) \in HeaderMaps
  BY ValueType DEF MergeHeaders
<1>3. \A auth : WithCredentials(h, auth) \in HeaderMaps
  BY ValueType, SetInType DEF WithCredentials, Types
<1> QED BY <1>1, <1>2, <1>3

\* What data is encoded to is data.
LEMMA EncodedType ==
  ASSUME NEW data \in Data, NEW type, NEW n \in Nat
  PROVE  Encoded(data, type, n) \in Data /\ Transformed(data) \in Data
<1>1. Nothing \in Data /\ \A as \in Contents : Text(as) \in Data
  BY DEF Nothing, Text, Datum, Data, Kinds, Contents
<1>2. Datum("stream", "multipart", n, n) \in Data /\ [data EXCEPT !.kind = "stream"] \in Data
  BY DEF Datum, Data, Kinds, Contents
<1>3. Encoded(data, type, n) \in Data
  BY <1>1, <1>2 DEF Encoded, Contents
<1> DEFINE b == IF data.as = "transformed" THEN data.boundary + 1 ELSE 1
<1>4. b \in Nat
  BY DEF Data
<1>5. Transformed(data) = Datum("text", "transformed", b, 0)
  BY DEF Transformed
<1>6. \A k \in Nat : Datum("text", "transformed", k, 0) \in Data
  BY DEF Datum, Data, Kinds, Contents
<1>7. Transformed(data) \in Data
  BY <1>4, <1>5, <1>6
<1> QED BY <1>3, <1>7

\* Labelling keeps headers headers.
LEMMA LabelledType ==
  ASSUME NEW h \in HeaderMaps, NEW data \in Data, NEW body, NEW method, NEW n \in Nat
  PROVE  Labelled(h, data, body, method, n) \in HeaderMaps
<1> DEFINE own ==
        CASE IsForm(data, h[ContentType].type) /\ body.kind = "stream" -> FormLabel(h, n)
          [] data.kind = "package" ->
               SetHeaderIfMissing(h, ContentType, Multipart(data.boundary))
          [] data.kind = "blob" -> SetIn(h, ContentType, Value("blob"), TRUE)
          [] data.kind = "params" -> SetHeaderIfMissing(h, ContentType, Value("urlencoded"))
          [] data.kind = "object" /\ body.as = "json" ->
               SetHeaderIfMissing(h, ContentType, Value("json"))
          [] OTHER -> h
<1>1. data.boundary \in Nat
  BY DEF Data
<1>2. FormLabel(h, n) \in HeaderMaps
  BY ValueType, SetInType DEF FormLabel
<1>3. \A v \in Values : SetHeaderIfMissing(h, ContentType, v) \in HeaderMaps
  BY SetInType DEF SetHeaderIfMissing
<1>4. SetIn(h, ContentType, Value("blob"), TRUE) \in HeaderMaps
  BY ValueType, SetInType DEF Types
<1>5. own \in HeaderMaps
  BY <1>1, <1>2, <1>3, <1>4, ValueType DEF Types
<1>6. SetHeaderIfMissing(own, ContentType, Value("urlencoded")) \in HeaderMaps
  BY <1>5, SetInType, ValueType DEF SetHeaderIfMissing, Types
<1> QED BY <1>5, <1>6 DEF Labelled

-----------------------------------------------------------------------------
(***************************************************************************)
(* Type correctness.                                                       *)
(***************************************************************************)

Inputs == [headers : HeaderMaps, data : Data, auth : {"none", "config", "url"},
           transform : BOOLEAN]

\* A request starts from a config of the right type, whichever it is made of.
LEMMA InputType ==
  ASSUME TypeOK, NEW source \in Sources
  PROVE  /\ Input(source) \in Inputs
         /\ source # 0 => source \in Attempts
<1>1. request \in [method : {"get", "post"}, form : BOOLEAN, transform : BOOLEAN,
                   auth : {"none", "config", "url"}, params : {"own", "merged"},
                   headers : HeaderMaps, data : Data,
                   defaults : [Names -> [type : Types \ {"off"}, boundary : Nat]]]
  BY RequestsAssumption DEF TypeOK
<1>2. BuildFormRequestConfig(request.data) \in Data
  <2>1. Datum("form", "fields", 0, 0) \in Data
    BY DEF Datum, Data, Kinds, Contents
  <2> QED BY <1>1, <2>1 DEF BuildFormRequestConfig
<1>3. Given \in Inputs
  BY <1>1, <1>2 DEF Given, Inputs
<1>4. ASSUME source # 0
      PROVE  Shown(source) \in Inputs /\ source \in Attempts
  <2>1. source \in Attempts /\ config[source] # NoConfig
    BY <1>4, BoundsAssumption DEF Sources, TypeOK, Attempts
  <2>2. config[source] \in Configs
    BY <2>1 DEF TypeOK
  <2>3. ToJSON(heap[config[source].headers]) \in HeaderMaps
    BY <2>2, HeadersType DEF TypeOK, Configs
  <2> QED BY <2>1, <2>2, <2>3 DEF Shown, Inputs, Configs
<1> QED BY <1>3, <1>4 DEF Input

\* What is known of the contents of data and params.
ContentsOK ==
  /\ contents \in [Parts -> Nat] /\ holds \subseteq Attempts \X Parts
  /\ since \in [Attempts -> [Parts -> Nat]] /\ told \in [Attempts -> [Parts -> Nat]]

\* What Tell says is what the attempts send by then; only the last one's changes.
LEMMA TellType ==
  ASSUME ContentsOK, NEW parts
  PROVE  Tell(parts) \in [Attempts -> [Parts -> Nat]]
<1> DEFINE new == [p \in Parts |-> IF p \in parts /\ <<count, p>> \in holds THEN contents[p]
                                  ELSE told[count][p]]
<1>1. CASE count \notin Attempts
  BY <1>1 DEF ContentsOK, Tell
<1>2. CASE count \in Attempts
  <2>1. new \in [Parts -> Nat]
    BY <1>2 DEF ContentsOK
  <2> QED BY <2>1 DEF ContentsOK, Tell
<1> QED BY <1>1, <1>2

LEMMA EncodingType ==
  ASSUME NEW n \in Attempts, NEW held \in SUBSET Parts, NEW data, NEW transform
  PROVE  /\ Encoding(n, held, data, transform) \subseteq Attempts \X Parts
         /\ Encoding(n, held, data, transform) \subseteq {n} \X held
  BY DEF Encoding

LEMMA ContentsStep ==
  ASSUME ContentsOK, TypeOK, [Next]_vars
  PROVE  ContentsOK'
<1>1. ASSUME NEW source \in Sources, Subscribe(source)
      PROVE  /\ count + 1 \in Attempts /\ contents' = contents /\ Kept(source) \subseteq Parts
             /\ since' \in [Attempts -> [Parts -> Nat]]
             /\ told' \in [Attempts -> [Parts -> Nat]]
  <2> DEFINE new == [p \in Parts |-> IF source = 0 \/ p \in Kept(source) THEN contents[p]
                                    ELSE told[source][p]]
  <2>1. count + 1 \in Attempts
    BY <1>1, BoundsAssumption DEF Subscribe, TypeOK, Attempts
  <2>2. source # 0 => source \in Attempts
    BY InputType
  <2>3. new \in [Parts -> Nat]
    BY <2>2 DEF ContentsOK
  <2>4. told' = [told EXCEPT ![count + 1] = new] /\ since' = [since EXCEPT ![count + 1] = contents]
        /\ contents' = contents
    BY <1>1 DEF Subscribe
  <2> HIDE DEF new
  <2> QED BY <2>1, <2>3, <2>4 DEF ContentsOK, Kept
<1>2. ASSUME NEW source \in Sources, BuildAxiosConfig(source)
      PROVE  ContentsOK'
  <2>1. Subscribe(source) /\ holds' = holds \cup ({count + 1} \X Kept(source))
    BY <1>2 DEF BuildAxiosConfig
  <2> QED BY <1>1, <2>1 DEF ContentsOK
<1>3. ASSUME NEW source \in Sources, NormalizeAxiosRequest(source)
      PROVE  ContentsOK'
  <2>1. /\ Subscribe(source)
        /\ holds' = holds \cup Encoding(count + 1, Kept(source), Input(source).data, FALSE)
    BY <1>3 DEF NormalizeAxiosRequest
  <2>2. Encoding(count + 1, Kept(source), Input(source).data, FALSE) \subseteq Attempts \X Parts
    BY <1>1, <2>1, EncodingType
  <2> QED BY <1>1, <2>1, <2>2 DEF ContentsOK
<1>4. ASSUME SerializeAxiosConfig
      PROVE  ContentsOK'
  <2> DEFINE c == config[count]
             held == {p \in Parts : <<count, p>> \in holds}
  <2>1. /\ told' = Tell(Parts) /\ UNCHANGED <<contents, since>>
        /\ holds' = (holds \ ({count} \X Parts)) \cup Encoding(count, held, c.data, c.transform)
    BY <1>4 DEF SerializeAxiosConfig
  <2>2. count \in Attempts
    BY <1>4, BoundsAssumption DEF SerializeAxiosConfig, TypeOK, Attempts
  <2>3. Encoding(count, held, c.data, c.transform) \subseteq Attempts \X Parts
    BY <2>2, EncodingType
  <2> QED BY <2>1, <2>3, TellType DEF ContentsOK
<1>5. CASE Dispatch
  BY <1>5, TellType DEF ContentsOK, Dispatch
<1>6. CASE Settle
  BY <1>6 DEF ContentsOK, Settle
<1>7. ASSUME NEW p \in Parts, ChangeInPlace(p)
      PROVE  ContentsOK'
  BY <1>7 DEF ContentsOK, ChangeInPlace
<1>8. ASSUME NEW j \in Attempts, NEW name \in Names, NEW value, NEW rewrite,
             EditHeader(j, name, value, rewrite)
      PROVE  ContentsOK'
  BY <1>8 DEF ContentsOK, EditHeader, Edit
<1>9. ASSUME NEW j \in Attempts, NEW data, EditData(j, data)
      PROVE  ContentsOK'
  BY <1>9 DEF ContentsOK, EditData, Edit
<1>10. ASSUME NEW name, NEW value, EditOptions(name, value)
       PROVE  ContentsOK'
  BY <1>10 DEF ContentsOK, EditOptions
<1>11. CASE UNCHANGED vars
  BY <1>11 DEF ContentsOK, vars
<1> QED BY <1>2, <1>3, <1>4, <1>5, <1>6, <1>7, <1>8, <1>9, <1>10, <1>11 DEF Next

\* TypeOK is inductive.
LEMMA TypeStep == TypeOK /\ [Next]_vars => TypeOK'
<1> SUFFICES ASSUME TypeOK, [Next]_vars PROVE TypeOK'
  OBVIOUS
<1> USE DEF Inputs
<1>10. ContentsOK'
  BY ContentsStep DEF TypeOK, ContentsOK
<1>0. ASSUME NEW source \in Sources, Subscribe(source)
      PROVE  /\ count + 1 \in Attempts /\ count' \in 0 .. MaxAttempts
             /\ request' \in Requests /\ from' \in [Attempts -> 0 .. MaxAttempts]
             /\ named' \subseteq Attempts /\ edited' \subseteq Attempts
             /\ wire' = wire /\ spent' = spent /\ spent' \subseteq Nat /\ edits' \in 0 .. MaxEdits
  <2>1. source \in 0 .. MaxAttempts
    BY InputType, <1>0, BoundsAssumption DEF Attempts
  <2>2. count + 1 \in Attempts /\ count' \in 0 .. MaxAttempts
    BY <1>0, BoundsAssumption DEF Subscribe, TypeOK, Attempts
  <2>3. from' \in [Attempts -> 0 .. MaxAttempts]
    BY <1>0, <2>1 DEF Subscribe, TypeOK
  <2>4. named' \subseteq Attempts
    BY <1>0, <2>2 DEF Subscribe, TypeOK
  <2> QED BY <1>0, <2>2, <2>3, <2>4 DEF Subscribe, TypeOK
<1>1. ASSUME NEW source \in Sources, BuildAxiosConfig(source)
      PROVE  TypeOK'
  <2> DEFINE input == Input(source)
             n == count + 1
  <2>1. Subscribe(source) /\ options' = options /\ phase' = "intercepting"
    BY <1>1 DEF BuildAxiosConfig
  <2>2. input \in Inputs /\ n \in Attempts
    BY <1>0, <2>1, InputType
  <2>3. request.defaults \in HeaderMaps
    BY RequestsAssumption DEF TypeOK, HeaderMaps
  <2>4. WithCredentials(MergeHeaders(request.defaults, input.headers),
                        IF input.auth = "config" THEN "config" ELSE "none") \in HeaderMaps
    BY <2>2, <2>3, HeadersType
  <2>5. heap' \in [Attempts -> HeaderMaps]
    BY <1>1, <2>4 DEF BuildAxiosConfig, HeadersObject, TypeOK
  <2>6. config' = [config EXCEPT ![n] = [input EXCEPT !.headers = n]]
    BY <1>1 DEF BuildAxiosConfig, HeadersObject
  <2>7. [input EXCEPT !.headers = n] \in Configs \ {NoConfig}
    BY <2>2 DEF Configs, NoConfig
  <2>8. config' \in [Attempts -> Configs \cup {NoConfig}]
    BY <2>6, <2>7 DEF TypeOK
  <2>9. count' # 0 /\ config'[count'] # NoConfig
    <3>1. config'[n] = [input EXCEPT !.headers = n]
      BY <2>2, <2>6 DEF TypeOK
    <3>2. count' = n
      BY <2>1 DEF Subscribe
    <3> QED BY <3>1, <3>2, <2>2, <2>7 DEF Attempts
  <2> QED BY <1>10, <1>0, <2>1, <2>5, <2>8, <2>9 DEF TypeOK, ContentsOK
<1>2. ASSUME SerializeAxiosConfig
      PROVE  TypeOK'
  <2> DEFINE c == config[count]
             headers == WithCredentials(heap[c.headers], c.auth)
             made == IF c.transform THEN [body |-> Transformed(c.data), headers |-> headers]
                     ELSE SerializeRequestData(headers, c.data, count)
  <2>1. count \in Attempts /\ c # NoConfig
    BY <1>2, BoundsAssumption DEF SerializeAxiosConfig, TypeOK, Attempts
  <2>2. c \in Configs /\ c \in [headers : Attempts, data : Data,
                               auth : {"none", "config", "url"}, transform : BOOLEAN]
    BY <2>1 DEF TypeOK, Configs
  <2>3. headers \in HeaderMaps /\ count \in Nat
    <3>1. heap[c.headers] \in HeaderMaps
      BY <2>2 DEF TypeOK
    <3>2. count \in Nat
      BY DEF TypeOK
    <3>3. headers \in HeaderMaps
      BY <3>1, HeadersType
    <3> QED BY <3>2, <3>3
  <2>4. made.body \in Data /\ made.headers \in HeaderMaps
    <3>1. CASE c.transform
      BY <3>1, <2>2, <2>3, EncodedType
    <3>2. CASE ~c.transform
      <4>1. Encoded(c.data, headers[ContentType].type, count) \in Data
        BY <2>2, <2>3, EncodedType
      <4>2. Labelled(headers, c.data, Encoded(c.data, headers[ContentType].type, count),
                     request.method, count) \in HeaderMaps
        BY <2>2, <2>3, LabelledType
      <4> QED BY <3>2, <4>1, <4>2 DEF SerializeRequestData
    <3> QED BY <3>1, <3>2
  <2>5. /\ heap' = [heap EXCEPT ![c.headers] = made.headers]
        /\ config' = [config EXCEPT ![count].data = made.body]
        /\ options' = [headers |-> ToJSON(made.headers), body |-> made.body]
        /\ phase' = "ready"
        /\ UNCHANGED <<request, count, wire, from, edited, named, spent, edits>>
    BY <1>2 DEF SerializeAxiosConfig
  <2> HIDE DEF made
  <2>6. heap' \in [Attempts -> HeaderMaps]
    BY <2>2, <2>4, <2>5 DEF TypeOK
  <2>7. [c EXCEPT !.data = made.body] \in Configs \ {NoConfig}
    BY <2>2, <2>4 DEF Configs, NoConfig
  <2>8. config' = [config EXCEPT ![count] = [c EXCEPT !.data = made.body]]
    BY <2>5
  <2>9. config' \in [Attempts -> Configs \cup {NoConfig}]
    BY <2>7, <2>8 DEF TypeOK
  <2>10. options' \in [headers : HeaderMaps, body : Data]
    BY <2>4, <2>5, HeadersType
  <2>11. count # 0
    BY <2>1 DEF Attempts
  <2> QED BY <1>10, <2>5, <2>6, <2>9, <2>10, <2>11 DEF TypeOK, ContentsOK
<1>3. ASSUME NEW source \in Sources, NormalizeAxiosRequest(source)
      PROVE  TypeOK'
  <2> DEFINE input == Input(source)
             headers == WithCredentials(MergeHeaders(request.defaults, input.headers), input.auth)
  <2>1. /\ Subscribe(source) /\ phase' = "ready" /\ UNCHANGED <<config, heap>>
        /\ options' = SerializeRequestData(headers, input.data, count + 1)
    BY <1>3 DEF NormalizeAxiosRequest
  <2>2. input \in Inputs /\ count + 1 \in Nat
    BY <1>0, <2>1, InputType DEF Attempts
  <2>3. request.defaults \in HeaderMaps
    BY RequestsAssumption DEF TypeOK, HeaderMaps
  <2>4. headers \in HeaderMaps
    BY <2>2, <2>3, HeadersType
  <2>5. Encoded(input.data, headers[ContentType].type, count + 1) \in Data
    BY <2>2, EncodedType
  <2>6. Labelled(headers, input.data, Encoded(input.data, headers[ContentType].type, count + 1),
                 request.method, count + 1) \in HeaderMaps
    BY <2>2, <2>4, LabelledType
  <2>7. options' \in [headers : HeaderMaps, body : Data]
    BY <2>1, <2>5, <2>6 DEF SerializeRequestData
  <2>8. count' # 0
    BY <1>0, <2>1 DEF Subscribe, Attempts, TypeOK
  <2> QED BY <1>10, <1>0, <2>1, <2>7, <2>8 DEF TypeOK, ContentsOK
<1>4. ASSUME Dispatch
      PROVE  TypeOK'
  <2> DEFINE body == options.body
             message == [headers |-> Sent(options.headers, body), body |-> body,
                         fresh |-> body.stream \notin spent]
  <2>1. count \in Attempts /\ body \in Data /\ options.headers \in HeaderMaps
    BY <1>4, BoundsAssumption DEF Dispatch, TypeOK, Attempts
  <2>2. Sent(options.headers, body) \in HeaderMaps
    BY <2>1, SetInType, ValueType DEF Sent, SetHeaderIfMissing, Data
  <2>3. message \in Messages
    BY <2>1, <2>2 DEF Messages
  <2>4. wire' = [wire EXCEPT ![count] = message]
    BY <1>4 DEF Dispatch
  <2> HIDE DEF message
  <2>5. wire' \in [Attempts -> Messages \cup {NotSent}]
    BY <2>1, <2>3, <2>4 DEF TypeOK
  <2>6. spent' \subseteq Nat /\ spent \subseteq spent' /\ body.stream \in spent' \cup {0}
    BY <1>4, <2>1 DEF Dispatch, TypeOK, Data
  <2>7. message.body = body
    BY DEF message
  <2>8. \A n \in Attempts : wire'[n] # NotSent => wire'[n].body.stream \in spent' \cup {0}
    BY <2>1, <2>4, <2>6, <2>7 DEF TypeOK
  <2>9. UNCHANGED <<request, count, config, heap, options, from, edited, named, edits>> /\ phase' = "sent"
    BY <1>4 DEF Dispatch
  <2>10. count # 0
    BY <2>1 DEF Attempts
  <2> QED BY <1>10, <2>5, <2>6, <2>8, <2>9, <2>10 DEF TypeOK, ContentsOK
<1>5. ASSUME Settle
      PROVE  TypeOK'
  <2> DEFINE new == [headers |-> count, data |-> options.body, transform |-> FALSE,
                     auth |-> IF request.auth = "url" THEN "url" ELSE "none"]
  <2>1. count \in Attempts /\ options \in [headers : HeaderMaps, body : Data]
    BY <1>5, BoundsAssumption DEF Settle, TypeOK, Attempts
  <2>2. new \in Configs \ {NoConfig}
    BY <2>1 DEF Configs, NoConfig
  <2>3. \/ config[count] # NoConfig /\ UNCHANGED <<config, heap>>
        \/ /\ config' = [config EXCEPT ![count] = new]
           /\ heap' = [heap EXCEPT ![count] = options.headers]
    BY <1>5 DEF Settle
  <2> HIDE DEF new
  <2>4. config' \in [Attempts -> Configs \cup {NoConfig}] /\ config'[count] # NoConfig
    BY <2>1, <2>2, <2>3 DEF TypeOK
  <2>5. heap' \in [Attempts -> HeaderMaps]
    BY <2>1, <2>3 DEF TypeOK
  <2>6. UNCHANGED <<request, count, options, wire, from, edited, named, spent, edits>> /\ phase' = "settled"
    BY <1>5 DEF Settle
  <2> QED BY <1>10, <2>1, <2>4, <2>5, <2>6 DEF TypeOK, Attempts, ContentsOK
<1>6. ASSUME NEW j \in Attempts, NEW name \in Names, NEW value \in NewValues \cup {Absent, Off},
             NEW rewrite \in BOOLEAN, EditHeader(j, name, value, rewrite)
      PROVE  TypeOK'
  <2>1. config[j] \in Configs
    BY <1>6 DEF EditHeader, TypeOK
  <2>2. value \in Values
    BY ValueType, EditsAssumption DEF Values
  <2>3. heap' = [heap EXCEPT ![config[j].headers] = SetIn(heap[config[j].headers], name, value, rewrite)]
    BY <1>6 DEF EditHeader
  <2>4. SetIn(heap[config[j].headers], name, value, rewrite) \in HeaderMaps
    BY <2>1, <2>2, SetInType DEF Configs, TypeOK
  <2>5. heap' \in [Attempts -> HeaderMaps]
    BY <2>3, <2>4 DEF TypeOK
  <2> QED BY <1>10, <1>6, <2>5, BoundsAssumption DEF EditHeader, Edit, TypeOK, ContentsOK
<1>7. ASSUME NEW j \in Attempts, NEW data \in NewData, EditData(j, data)
      PROVE  TypeOK'
  <2>1. config[j] \in Configs /\ data \in Data
    BY <1>7, EditsAssumption DEF EditData, TypeOK
  <2>2. [config[j] EXCEPT !.data = data] \in Configs \ {NoConfig}
    BY <2>1 DEF Configs, NoConfig
  <2>3. config' = [config EXCEPT ![j] = [config[j] EXCEPT !.data = data]]
    BY <1>7 DEF EditData
  <2>4. config' \in [Attempts -> Configs \cup {NoConfig}]
        /\ \A k \in Attempts : config[k] # NoConfig => config'[k] # NoConfig
    BY <2>2, <2>3 DEF TypeOK
  <2>5. phase \in {"intercepting", "settled"} => count \in Attempts
    BY BoundsAssumption DEF TypeOK, Attempts
  <2> QED BY <1>10, <1>7, <2>4, <2>5, BoundsAssumption DEF EditData, Edit, TypeOK, ContentsOK
<1>8. ASSUME NEW name \in Names, NEW value \in NewValues, EditOptions(name, value)
      PROVE  TypeOK'
  <2>1. value \in Values /\ options \in [headers : HeaderMaps, body : Data]
    BY EditsAssumption DEF Values, TypeOK
  <2>2. [options.headers EXCEPT ![name] = value] \in HeaderMaps
    BY <2>1, ValueType
  <2>3. options' = [options EXCEPT !.headers = [options.headers EXCEPT ![name] = value]]
    BY <1>8 DEF EditOptions
  <2>4. options' \in [headers : HeaderMaps, body : Data]
    BY <2>1, <2>2, <2>3
  <2>5. edited' \subseteq Attempts /\ named' \subseteq Attempts /\ edits' \in 0 .. MaxEdits
    BY <1>8, BoundsAssumption DEF EditOptions, TypeOK, Attempts
  <2>6. UNCHANGED <<request, count, phase, config, heap, wire, from, spent>>
    BY <1>8 DEF EditOptions
  <2> QED BY <1>10, <2>4, <2>5, <2>6 DEF TypeOK, ContentsOK
<1>9. ASSUME UNCHANGED vars
      PROVE  TypeOK'
  BY <1>9, <1>10 DEF vars, TypeOK, ContentsOK
<1>11. ASSUME NEW p \in Parts, ChangeInPlace(p)
       PROVE  TypeOK'
  <2>1. edited' \subseteq Attempts /\ edits' \in 0 .. MaxEdits
    BY <1>11, BoundsAssumption DEF ChangeInPlace, TypeOK
  <2>2. UNCHANGED <<request, count, phase, config, heap, options, wire, from, named, spent>>
    BY <1>11 DEF ChangeInPlace
  <2> QED BY <1>10, <2>1, <2>2 DEF TypeOK, ContentsOK
<1> QED BY <1>11, <1>1, <1>2, <1>3, <1>4, <1>5, <1>6, <1>7, <1>8, <1>9 DEF Next

\* THEOREM: every state reached is of the right type.
THEOREM AlwaysTyped == Spec => []TypeOK
<1>1. Init => TypeOK
  <2> SUFFICES ASSUME Init PROVE TypeOK
    OBVIOUS
  <2>1. [name \in Names |-> Absent] \in HeaderMaps
    BY ValueType
  <2>2. Nothing \in Data
    BY DEF Nothing, Datum, Data, Kinds, Contents
  <2> QED BY <2>1, <2>2, BoundsAssumption DEF Init, TypeOK
<1> QED BY <1>1, TypeStep, PTL DEF Spec

-----------------------------------------------------------------------------
(***************************************************************************)
(* What the operators keep: nothing that has been settled once is changed  *)
(* by doing it again.                                                      *)
(***************************************************************************)

NoOff(h) == \A name \in Names : h[name] # Off

\* No header is withheld, and one is absent only where there is no default or
\* the caller withheld it.
Merged(h) ==
  /\ NoOff(h)
  /\ \A name \in Names : h[name] = Absent =>
       request.defaults[name] = Absent \/ request.headers[name] = Off

\* Encoding leaves it as it is.
Final(body) ==
  /\ body.kind \notin {"falsy", "form", "object", "params", "package"}
  /\ body.kind = "none" => body = Nothing

\* Labelling leaves them as they are.
Dressed(h, body) ==
  /\ body.kind = "blob" => h[ContentType] = Value("blob")
  /\ request.method = "post" /\ body.kind # "undici" => h[ContentType] # Absent

Basic(h, auth) == auth # "none" => h[Authorization] = Value("basic")

\* No default is null: mergeHeaders made them.
LEMMA DefaultsTyped ==
  ASSUME TypeOK
  PROVE  /\ request.defaults \in HeaderMaps /\ NoOff(request.defaults)
         /\ request.headers \in HeaderMaps /\ request.data \in Data
         /\ request.method \in {"get", "post"} /\ request.auth \in {"none", "config", "url"}
<1>1. request.defaults \in [Names -> [type : Types \ {"off"}, boundary : Nat]]
  BY RequestsAssumption DEF TypeOK
<1>2. NoOff(request.defaults)
  BY <1>1 DEF NoOff, Off, Value
<1>3. request.defaults \in HeaderMaps
  BY <1>1 DEF HeaderMaps
<1> QED BY <1>2, <1>3, RequestsAssumption DEF TypeOK

\* The merge withholds nothing.
LEMMA MergeIsMerged ==
  ASSUME TypeOK, NEW own \in HeaderMaps, own = request.headers \/ NoOff(own)
  PROVE  Merged(MergeHeaders(request.defaults, own))
  BY DefaultsTyped DEF MergeHeaders, Merged, NoOff, Off, Absent, Value

LEMMA ToJSONNoOff ==
  ASSUME NEW h \in HeaderMaps
  PROVE  NoOff(ToJSON(h)) /\ (NoOff(h) => ToJSON(h) = h)
  BY DEF ToJSON, NoOff, Off, Absent, Value, HeaderMaps

\* Setting a header to a value withholds nothing.
LEMMA SetInMerged ==
  ASSUME NEW h \in HeaderMaps, Merged(h), NEW name \in Names, NEW v \in Values,
         v \notin {Absent, Off}, NEW rewrite
  PROVE  Merged(SetIn(h, name, v, rewrite))
  BY DEF SetIn, Merged, NoOff, HeaderMaps

\* Credentials go to Authorization, and stay there.
LEMMA CredentialsKept ==
  ASSUME NEW h \in HeaderMaps, NEW auth
  PROVE  LET w == WithCredentials(h, auth)
         IN  /\ Merged(h) => Merged(w)
             /\ Basic(w, auth)
             /\ \A other : Basic(h, other) => Basic(w, other)
             /\ Basic(h, auth) => w = h
<1> DEFINE w == WithCredentials(h, auth)
<1>1. Value("basic") \in Values /\ Value("basic") \notin {Absent, Off}
  BY ValueType DEF Types, Absent, Off, Value
<1>2. Authorization \in Names
  BY DEF Names
<1>3. CASE auth = "none"
  BY <1>3 DEF WithCredentials, Basic
<1>4. CASE auth # "none"
  <2>1. w = [h EXCEPT ![Authorization] = Value("basic")]
    BY <1>4 DEF WithCredentials, SetIn
  <2>2. w = SetIn(h, Authorization, Value("basic"), TRUE)
    BY <1>4 DEF WithCredentials
  <2>3. Merged(h) => Merged(w)
    BY <1>1, <1>2, <2>2, SetInMerged
  <2>4. w[Authorization] = Value("basic")
    BY <1>2, <2>1 DEF HeaderMaps
  <2>5. h[Authorization] = Value("basic") => w = h
    BY <1>2, <2>1 DEF HeaderMaps
  <2> QED BY <1>4, <2>3, <2>4, <2>5 DEF Basic
<1> QED BY <1>3, <1>4

\* What is encoded is encoded for good.
LEMMA EncodedOnce ==
  ASSUME NEW data \in Data, NEW type, NEW n \in Nat
  PROVE  /\ Final(Encoded(data, type, n))
         /\ Final(data) => Encoded(data, type, n) = data
         /\ Encoded(data, type, n).kind \in {"blob", "undici"} =>
              Encoded(data, type, n) = data
<1>1. Final(Nothing) /\ Nothing.kind = "none"
  BY DEF Final, Nothing, Datum
<1>2. \A as : Final(Text(as)) /\ Text(as).kind = "text"
  BY DEF Final, Text, Datum
<1>3. Final(Datum("stream", "multipart", n, n)) /\ Datum("stream", "multipart", n, n).kind = "stream"
  BY DEF Final, Datum
<1>4. [data EXCEPT !.kind = "stream"].kind = "stream"
  BY DEF Data
<1>5. Final([data EXCEPT !.kind = "stream"])
  BY <1>4 DEF Final
<1>6. Final(Encoded(data, type, n))
  BY <1>1, <1>2, <1>3, <1>5 DEF Encoded, IsForm, Final
<1>7. Final(data) => Encoded(data, type, n) = data
  BY DEF Encoded, IsForm, Final
<1>8. Encoded(data, type, n).kind \in {"blob", "undici"} => Encoded(data, type, n) = data
  BY <1>1, <1>2, <1>3, <1>4 DEF Encoded, IsForm
<1> QED BY <1>6, <1>7, <1>8

\* A label is there once the data is encoded, and Authorization is not touched.
LEMMA LabelledOnce ==
  ASSUME TypeOK, NEW h \in HeaderMaps, NEW data \in Data, NEW n \in Nat,
         NEW body, body = Encoded(data, h[ContentType].type, n)
  PROVE  LET w == Labelled(h, data, body, request.method, n)
         IN  /\ Merged(h) => Merged(w)
             /\ Dressed(w, body)
             /\ w[Authorization] = h[Authorization]
<1> DEFINE own ==
        CASE IsForm(data, h[ContentType].type) /\ body.kind = "stream" -> FormLabel(h, n)
          [] data.kind = "package" ->
               SetHeaderIfMissing(h, ContentType, Multipart(data.boundary))
          [] data.kind = "blob" -> SetIn(h, ContentType, Value("blob"), TRUE)
          [] data.kind = "params" -> SetHeaderIfMissing(h, ContentType, Value("urlencoded"))
          [] data.kind = "object" /\ body.as = "json" ->
               SetHeaderIfMissing(h, ContentType, Value("json"))
          [] OTHER -> h
       Labels == {v \in Values : v \notin {Absent, Off}}
       w == Labelled(h, data, body, request.method, n)
<1>1. /\ \A t \in {"blob", "urlencoded", "json"} : Value(t) \in Labels
      /\ \A b \in Nat : Multipart(b) \in Labels
  BY ValueType DEF Types, Absent, Off, Value, Multipart
<1>3. \A g \in HeaderMaps, v \in Labels, rewrite \in BOOLEAN :
        /\ SetIn(g, ContentType, v, rewrite) \in HeaderMaps
        /\ Merged(g) => Merged(SetIn(g, ContentType, v, rewrite))
        /\ SetIn(g, ContentType, v, rewrite)[ContentType] # Absent
        /\ SetIn(g, ContentType, v, rewrite)[Authorization] = g[Authorization]
  <2> TAKE g \in HeaderMaps, v \in Labels, rewrite \in BOOLEAN
  <2>1. ContentType \in Names /\ ContentType # Authorization
    BY DEF Names, ContentType, Authorization
  <2>2. SetIn(g, ContentType, v, rewrite) \in HeaderMaps
    BY SetInType
  <2>3. Merged(g) => Merged(SetIn(g, ContentType, v, rewrite))
    BY <2>1, SetInMerged
  <2>4. SetIn(g, ContentType, v, rewrite)[ContentType] # Absent
    BY <2>1 DEF SetIn, HeaderMaps
  <2>5. SetIn(g, ContentType, v, rewrite)[Authorization] = g[Authorization]
    BY <2>1 DEF SetIn, HeaderMaps
  <2> QED BY <2>2, <2>3, <2>4, <2>5
<1>2. own \in {h} \cup {SetIn(h, ContentType, v, rewrite) : v \in Labels, rewrite \in BOOLEAN}
  <2> DEFINE S == {SetIn(h, ContentType, v, rewrite) : v \in Labels, rewrite \in BOOLEAN}
  <2>1. data.boundary \in Nat
    BY DEF Data
  <2>2. \A v \in Labels, rewrite \in BOOLEAN : SetIn(h, ContentType, v, rewrite) \in S
    OBVIOUS
  <2> HIDE DEF S, Labels
  <2>3. FormLabel(h, n) \in S
    <3>1. FormLabel(h, n) = SetIn(h, ContentType, Multipart(n), h[ContentType].boundary = 0)
      BY DEF FormLabel
    <3>2. \E r \in BOOLEAN : FormLabel(h, n) = SetIn(h, ContentType, Multipart(n), r)
      BY <3>1
    <3> QED BY <3>2, <2>2, <1>1
  <2>4. \A v \in Labels : SetHeaderIfMissing(h, ContentType, v) \in S
                         /\ SetIn(h, ContentType, v, TRUE) \in S
    BY <2>2 DEF SetHeaderIfMissing
  <2>5. own = h \/ own \in S
    <3>1. CASE IsForm(data, h[ContentType].type) /\ body.kind = "stream"
      <4>1. body.as # "json"
        BY <3>1 DEF Encoded, IsForm, Datum, Text, Nothing
      <4>2. data.kind \in {"form", "object"}
        BY <3>1 DEF IsForm
      <4>3. own = FormLabel(h, n)
        BY <3>1, <4>1, <4>2
      <4> QED BY <4>3, <2>3
    <3>2. CASE ~(IsForm(data, h[ContentType].type) /\ body.kind = "stream")
      BY <3>2, <1>1, <2>1, <2>4
    <3> QED BY <3>1, <3>2
  <2> HIDE DEF own
  <2> QED BY <2>5 DEF S
<1> HIDE DEF Labels
<1>4. own \in HeaderMaps /\ (Merged(h) => Merged(own)) /\ own[Authorization] = h[Authorization]
  <2> HIDE DEF own
  <2>1. CASE own = h
    BY <2>1
  <2>2. ASSUME NEW v \in Labels, NEW rewrite \in BOOLEAN, own = SetIn(h, ContentType, v, rewrite)
        PROVE  own \in HeaderMaps /\ (Merged(h) => Merged(own)) /\ own[Authorization] = h[Authorization]
    BY <1>3, <2>2
  <2> QED BY <1>2, <2>1, <2>2
<1>5. w = IF request.method = "post" /\ body.kind # "undici"
          THEN SetIn(own, ContentType, Value("urlencoded"), FALSE) ELSE own
  BY DEF Labelled, SetHeaderIfMissing
<1>6. body.kind = "blob" => own[ContentType] = Value("blob")
  <2>1. SUFFICES ASSUME body.kind = "blob" PROVE own[ContentType] = Value("blob")
    OBVIOUS
  <2>2. data.kind = "blob"
    BY <2>1, EncodedOnce
  <2>3. own = SetIn(h, ContentType, Value("blob"), TRUE)
    BY <2>2 DEF IsForm
  <2>4. own = [h EXCEPT ![ContentType] = Value("blob")]
    BY <2>3 DEF SetIn
  <2> HIDE DEF own
  <2> QED BY <2>4 DEF HeaderMaps, Names
<1> HIDE DEF own, w
<1>7. Merged(h) => Merged(w)
  BY <1>1, <1>3, <1>4, <1>5
<1>8. w[Authorization] = h[Authorization]
  BY <1>1, <1>3, <1>4, <1>5
<1>9. body.kind = "blob" => w[ContentType] = Value("blob")
  <2>1. Value("blob") # Absent
    BY DEF Absent, Value
  <2> QED BY <1>5, <1>6, <2>1 DEF SetIn
<1>10. request.method = "post" /\ body.kind # "undici" => w[ContentType] # Absent
  BY <1>1, <1>3, <1>4, <1>5
<1> QED BY <1>7, <1>8, <1>9, <1>10 DEF Dressed, w

\* What is dressed is not dressed again, whatever defaults are merged into it.
LEMMA DressedOnce ==
  ASSUME TypeOK, NEW h \in HeaderMaps, NoOff(h), NEW body \in Data, Final(body),
         Dressed(h, body), NEW n \in Nat
  PROVE  LET m == MergeHeaders(request.defaults, h)
         IN  SerializeRequestData(m, body, n) = [body |-> body, headers |-> m]
<1> DEFINE m == MergeHeaders(request.defaults, h)
<1>1. m \in HeaderMaps
  BY DefaultsTyped, HeadersType
<1>2. h[ContentType] # Absent => m[ContentType] = h[ContentType]
  BY DEF MergeHeaders, NoOff, Names
<1>3. Encoded(body, m[ContentType].type, n) = body
  BY EncodedOnce
<1>4. SetIn(m, ContentType, Value("blob"), TRUE) = m \/ body.kind # "blob"
  <2>1. SUFFICES ASSUME body.kind = "blob"
                 PROVE  SetIn(m, ContentType, Value("blob"), TRUE) = m
    OBVIOUS
  <2>2. m[ContentType] = Value("blob")
    BY <2>1, <1>2 DEF Dressed, Absent, Value
  <2> QED BY <1>1, <2>2 DEF SetIn, HeaderMaps
<1>5. SetHeaderIfMissing(m, ContentType, Value("urlencoded")) = m
      \/ ~(request.method = "post" /\ body.kind # "undici")
  BY <1>2 DEF Dressed, SetHeaderIfMissing, SetIn
<1>6. ~IsForm(body, m[ContentType].type) /\ body.kind \notin {"package", "params", "object"}
  BY DEF Final, IsForm
<1> HIDE DEF m
<1>7. Labelled(m, body, body, request.method, n) = m
  BY <1>4, <1>5, <1>6 DEF Labelled
<1> QED BY <1>3, <1>7 DEF SerializeRequestData, m

\* Only streams are read to an end, and what is encoded is no package any more.
OneShot(data) == data.stream # 0 => data.kind \in {"stream", "package"}
StreamOnly(body) == body.stream # 0 => body.kind = "stream"

LEMMA EncodedStream ==
  ASSUME NEW data \in Data, OneShot(data), NEW type, NEW n \in Nat
  PROVE  StreamOnly(Encoded(data, type, n)) /\ StreamOnly(Transformed(data))
<1>1. StreamOnly(Nothing) /\ (\A as : StreamOnly(Text(as)))
      /\ StreamOnly(Datum("stream", "multipart", n, n)) /\ StreamOnly(Transformed(data))
  BY DEF StreamOnly, Nothing, Text, Datum, Transformed
<1>2. StreamOnly([data EXCEPT !.kind = "stream"])
  BY DEF StreamOnly, Data
<1>3. StreamOnly(Encoded(data, type, n))
  BY <1>1, <1>2 DEF Encoded, IsForm, OneShot, StreamOnly
<1> QED BY <1>1, <1>3

\* What is sent for a serialised request is all that the two properties need.
LEMMA Serialised ==
  ASSUME TypeOK, NEW h \in HeaderMaps, NEW data \in Data, OneShot(data), NEW n \in Nat
  PROVE  LET made == SerializeRequestData(h, data, n)
         IN  /\ made = [body |-> made.body, headers |-> made.headers]
             /\ made.body \in Data /\ made.headers \in HeaderMaps
             /\ Merged(h) => Merged(made.headers)
             /\ Final(made.body) /\ Dressed(made.headers, made.body)
             /\ \A auth : Basic(h, auth) => Basic(made.headers, auth)
             /\ StreamOnly(made.body)
<1> DEFINE body == Encoded(data, h[ContentType].type, n)
           headers == Labelled(h, data, body, request.method, n)
<1>1. SerializeRequestData(h, data, n) = [body |-> body, headers |-> headers]
  BY DEF SerializeRequestData
<1>2. body \in Data /\ Final(body) /\ StreamOnly(body)
  BY EncodedType, EncodedOnce, EncodedStream
<1>3. headers \in HeaderMaps
  BY LabelledType
<1>4. /\ Merged(h) => Merged(headers)
      /\ Dressed(headers, body)
      /\ headers[Authorization] = h[Authorization]
  BY LabelledOnce
<1>5. \A auth : Basic(h, auth) => Basic(headers, auth)
  BY <1>4 DEF Basic
<1> HIDE DEF body, headers
<1> QED BY <1>1, <1>2, <1>3, <1>4, <1>5

-----------------------------------------------------------------------------
(***************************************************************************)
(* The inductive invariant.                                                *)
(***************************************************************************)

HasConfig(n) == config[n] # NoConfig
UrlAuth == IF request.auth = "url" THEN "url" ELSE "none"

\* Each config has headers of its own; which attempts have one, and were sent.
Order ==
  /\ \A n \in Attempts : HasConfig(n) =>
       /\ n <= count /\ config[n].headers = n
       /\ config[n].transform = request.transform
       /\ request.auth = "url" => config[n].auth = "url"
  /\ \A n \in Attempts : n < count => HasConfig(n)
  /\ phase \in {"ready", "sent"} /\ ~HasConfig(count) => ~request.transform
  /\ \A n \in Attempts :
       wire[n] # NotSent <=> n < count \/ (n = count /\ phase \in {"sent", "settled"})
  /\ phase = "idle" => count = 0
  /\ \A n \in edited : n <= count
  /\ \A n \in Attempts : n <= count => from[n] < n

\* Streams are read once, and nothing else is.
Streams ==
  /\ \A n \in Attempts : HasConfig(n) => OneShot(config[n].data)
  /\ StreamOnly(options.body)
  /\ 0 \notin spent
  /\ \A n \in Attempts : wire[n] # NotSent /\ wire[n].body.kind # "stream" => wire[n].fresh

\* Headers and a body in which nothing is left to do.
Whole(h, body) ==
  /\ Merged(h) /\ Basic(h, UrlAuth)
  /\ ~request.transform => Final(body) /\ Dressed(h, body)

\* The last attempt, before anybody touched it.
Prepared ==
  count # 0 /\ count \notin edited =>
    /\ phase = "intercepting" => Merged(heap[count])
    /\ phase \in {"ready", "sent"} =>
         /\ Whole(options.headers, options.body)
         /\ HasConfig(count) => /\ config[count].data = options.body
                               /\ heap[count] = options.headers
                               /\ Basic(options.headers, config[count].auth)

Told ==
  phase = "sent" => /\ wire[count].body = options.body
                    /\ wire[count].headers = Sent(options.headers, options.body)

\* ConfigShowsWhatWasSent, with what makes a replay of it the same.
Shows ==
  \A n \in Attempts : Settled(n) /\ n \notin edited =>
    /\ wire[n].body = config[n].data
    /\ wire[n].headers = Sent(heap[n], config[n].data)
    /\ Whole(heap[n], config[n].data) /\ Basic(heap[n], config[n].auth)

\* The last attempt goes the way of the one it replays.
Replaying ==
  LET k == from[count]
      merged == MergeHeaders(request.defaults, heap[k])
  IN  count # 0 /\ k # 0 /\ {count, k} \cap edited = {} /\ ~request.transform =>
        /\ phase = "intercepting" => /\ config[count].data = config[k].data
                                     /\ config[count].auth = config[k].auth
                                     /\ heap[count] = merged
        /\ phase \in {"ready", "sent"} => /\ options.body = config[k].data
                                          /\ options.headers = merged

Replayed ==
  \A n, k \in Attempts : Replays(n, k) /\ ~request.transform =>
    /\ wire[n].body = wire[k].body
    /\ \A name \in Names : request.headers[name] # Off => wire[n].headers[name] = wire[k].headers[name]

Inv == Order /\ Streams /\ Prepared /\ Told /\ Shows /\ Replaying /\ Replayed

\* Only attempts there were refer to the call's data and params.
Held == \A n \in Attempts, p \in Parts : <<n, p>> \in holds => n <= count

LEMMA HeldStep ==
  ASSUME TypeOK, Held, [Next]_vars
  PROVE  Held'
<1>0. count \in Nat /\ \A n \in Attempts : n \in Nat
  BY DEF TypeOK, Attempts
<1>1. ASSUME NEW source \in Sources, BuildAxiosConfig(source) \/ NormalizeAxiosRequest(source)
      PROVE  Held'
  <2>1. count' = count + 1
    BY <1>1 DEF BuildAxiosConfig, NormalizeAxiosRequest, Subscribe
  <2>2. \A n \in Attempts, p \in Parts : <<n, p>> \in holds' => <<n, p>> \in holds \/ n = count + 1
    BY <1>1 DEF BuildAxiosConfig, NormalizeAxiosRequest, Encoding
  <2> QED BY <1>0, <2>1, <2>2 DEF Held
<1>2. ASSUME SerializeAxiosConfig
      PROVE  Held'
  <2>1. count' = count
    BY <1>2 DEF SerializeAxiosConfig
  <2>2. \A n \in Attempts, p \in Parts : <<n, p>> \in holds' => <<n, p>> \in holds \/ n = count
    BY <1>2 DEF SerializeAxiosConfig, Encoding
  <2> QED BY <1>0, <2>1, <2>2 DEF Held
<1>3. ASSUME count' = count, holds' \subseteq holds
      PROVE  Held'
  BY <1>3 DEF Held
<1>4. ASSUME Dispatch \/ Settle \/ UNCHANGED vars
      PROVE  Held'
  BY <1>3, <1>4 DEF Dispatch, Settle, vars
<1>5. ASSUME NEW p \in Parts, ChangeInPlace(p)
      PROVE  Held'
  BY <1>3, <1>5 DEF ChangeInPlace
<1>6. ASSUME NEW j \in Attempts, NEW name, NEW value, NEW rewrite, EditHeader(j, name, value, rewrite)
      PROVE  Held'
  BY <1>3, <1>6 DEF EditHeader, Edit
<1>7. ASSUME NEW j \in Attempts, NEW data, EditData(j, data)
      PROVE  Held'
  BY <1>3, <1>7 DEF EditData, Edit
<1>8. ASSUME NEW name, NEW value, EditOptions(name, value)
      PROVE  Held'
  BY <1>3, <1>8 DEF EditOptions
<1> QED BY <1>1, <1>2, <1>4, <1>5, <1>6, <1>7, <1>8 DEF Next

LEMMA AlwaysHeld == Spec => []Held
<1>1. Init => Held
  BY DEF Init, Held
<1> QED BY <1>1, HeldStep, AlwaysTyped, PTL DEF Spec

\* A change in place is a change to the configs that refer to what is changed.
LEMMA InPlace ==
  ASSUME NEW p \in Parts, ChangeInPlace(p)
  PROVE  /\ UNCHANGED <<request, count, phase, config, heap, options, wire, from, named, spent>>
         /\ UNCHANGED <<holds, since, told>>
         /\ edited' = edited \cup {j \in Attempts : <<j, p>> \in holds}
         /\ edited \subseteq edited' /\ (Held => \A n \in edited' : n \in edited \/ n <= count)
  BY DEF ChangeInPlace, Held

LEMMA InvInit == Init => Inv
<1> SUFFICES ASSUME Init PROVE Inv
  OBVIOUS
<1>1. \A n \in Attempts : n # 0 /\ ~(n < 0) /\ ~(n <= 0) /\ ~HasConfig(n) /\ wire[n] = NotSent
  BY BoundsAssumption DEF Init, Attempts, HasConfig
<1>2. Order
  BY <1>1 DEF Init, Order, HasConfig
<1>3. Streams
  BY <1>1 DEF Init, Streams, StreamOnly, Nothing, Datum, HasConfig
<1>4. Prepared /\ Told /\ Replaying
  BY DEF Init, Prepared, Told, Replaying
<1>5. Shows /\ Replayed
  BY <1>1 DEF Init, Shows, Settled, Replayed, Replays
<1> QED BY <1>2, <1>3, <1>4, <1>5 DEF Inv

\* What an attempt starts from; it may be a config that was settled and that
\* nobody touched, and then nothing is left to do.
LEMMA Starting ==
  ASSUME TypeOK, Inv, NEW source \in Sources, phase \in {"idle", "settled"}
  PROVE  LET in == Input(source)
             merged == MergeHeaders(request.defaults, in.headers)
         IN  /\ in \in Inputs /\ merged \in HeaderMaps
             /\ Merged(merged) /\ OneShot(in.data)
             /\ in.transform = request.transform
             /\ request.auth = "url" => in.auth = "url"
             /\ source # 0 =>
                  /\ source \in Attempts /\ source <= count /\ Settled(source)
                  /\ in.data = config[source].data /\ in.auth = config[source].auth
                  /\ in.headers = ToJSON(heap[source])
                  /\ source \notin edited =>
                       /\ in.headers = heap[source] /\ NoOff(heap[source])
                       /\ Basic(merged, in.auth) /\ Basic(merged, UrlAuth)
<1> DEFINE in == Input(source)
           merged == MergeHeaders(request.defaults, in.headers)
<1> USE DEF Inv
<1>1. in \in Inputs /\ (source # 0 => source \in Attempts)
  BY InputType
<1>2. merged \in HeaderMaps
  BY <1>1, DefaultsTyped, HeadersType DEF Inputs
<1>3. CASE source = 0
  <2>1. in = Given
    BY <1>3 DEF Input
  <2>2. OneShot(in.data)
    BY <2>1, StreamsAssumption DEF Given, BuildFormRequestConfig, OneShot, Datum, TypeOK
  <2>3. Merged(merged)
    BY <2>1, MergeIsMerged, DefaultsTyped DEF Given
  <2> QED BY <1>1, <1>2, <1>3, <2>1, <2>2, <2>3 DEF Given
<1>4. CASE source # 0
  <2>1. source \in Attempts /\ HasConfig(source) /\ source <= count
    BY <1>1, <1>4 DEF Sources, HasConfig, TypeOK
  <2>2. config[source].headers = source /\ config[source] \in Configs
        /\ config[source].transform = request.transform
        /\ (request.auth = "url" => config[source].auth = "url") /\ OneShot(config[source].data)
    BY <2>1 DEF Order, Streams, TypeOK, HasConfig
  <2>3. in = [config[source] EXCEPT !.headers = ToJSON(heap[source])]
    BY <1>4, <2>2 DEF Input, Shown
  <2>4. /\ in.data = config[source].data /\ in.auth = config[source].auth
        /\ in.transform = config[source].transform /\ in.headers = ToJSON(heap[source])
    BY <2>2, <2>3 DEF Configs
  <2>5. heap[source] \in HeaderMaps
    BY <2>1 DEF TypeOK
  <2>6. Settled(source)
    BY <2>1 DEF Settled, Order, TypeOK, Attempts
  <2>7. Merged(merged)
    BY <1>1, <2>4, <2>5, ToJSONNoOff, MergeIsMerged DEF Inputs
  <2>8. ASSUME source \notin edited
        PROVE  /\ in.headers = heap[source] /\ NoOff(heap[source])
               /\ Basic(merged, in.auth) /\ Basic(merged, UrlAuth)
    <3>1. Merged(heap[source]) /\ Basic(heap[source], config[source].auth)
          /\ Basic(heap[source], UrlAuth)
      BY <2>1, <2>6, <2>8 DEF Shows, Whole
    <3>2. in.headers = heap[source] /\ NoOff(heap[source])
      BY <2>4, <2>5, <3>1, ToJSONNoOff DEF Merged
    <3>3. heap[source][Authorization] = Value("basic") => merged[Authorization] = Value("basic")
      BY <3>2 DEF MergeHeaders, Names, Value, Absent, Off
    <3> QED BY <3>1, <3>2, <3>3, <2>4 DEF Basic
  <2> QED BY <1>1, <1>2, <1>4, <2>1, <2>2, <2>4, <2>6, <2>7, <2>8
<1> QED BY <1>3, <1>4

\* The bookkeeping of a next attempt.
LEMMA Subscribing ==
  ASSUME TypeOK, Inv, NEW source \in Sources, Subscribe(source)
  PROVE  /\ phase \in {"idle", "settled"} /\ UNCHANGED <<request, wire, edited, spent, edits>>
         /\ count + 1 \in Attempts /\ count' = count + 1 /\ count \in Nat
         /\ count + 1 \notin edited /\ ~HasConfig(count + 1) /\ wire[count + 1] = NotSent
         /\ \A n \in Attempts : n < count + 1 => HasConfig(n) /\ Settled(n)
         /\ \A n \in Attempts : wire[n] # NotSent <=> n < count + 1
         /\ from' = [from EXCEPT ![count + 1] = source] /\ from'[count + 1] = source
         /\ source < count + 1 /\ (source # 0 => source \in Attempts)
<1>1. count + 1 \in Attempts /\ count' = count + 1 /\ count \in Nat
  BY BoundsAssumption DEF Subscribe, TypeOK, Attempts
<1>2. \A n \in Attempts : n \in Nat /\ n # 0
  BY DEF Attempts
<1>3. phase = "settled" => count # 0 /\ HasConfig(count)
  BY BoundsAssumption DEF TypeOK, HasConfig
<1>4. \A n \in Attempts : n < count + 1 => HasConfig(n) /\ Settled(n)
  BY <1>1, <1>2, <1>3 DEF Inv, Order, Subscribe, Settled
<1>5. \A n \in Attempts : wire[n] # NotSent <=> n < count + 1
  BY <1>1, <1>2 DEF Inv, Order, Subscribe
<1>6. count + 1 \notin edited /\ ~HasConfig(count + 1) /\ wire[count + 1] = NotSent
  BY <1>1, <1>5 DEF Inv, Order
<1>7. source < count + 1
  BY <1>1 DEF Sources
<1>8. from' = [from EXCEPT ![count + 1] = source] /\ from'[count + 1] = source
  BY <1>1 DEF Subscribe, TypeOK
<1>9. source # 0 => source \in Attempts
  BY InputType
<1> QED BY <1>1, <1>4, <1>5, <1>6, <1>7, <1>8, <1>9 DEF Subscribe

\* Both routes keep the order of the attempts.
LEMMA OrderStep ==
  ASSUME TypeOK, TypeOK', Held, Inv, [Next]_vars
  PROVE  Order'
<1>1. ASSUME NEW source \in Sources, BuildAxiosConfig(source)
      PROVE  Order'
  <2> DEFINE n == count + 1
             new == [Input(source) EXCEPT !.headers = n]
  <2>1. Subscribe(source) /\ phase' = "intercepting" /\ phase \in {"idle", "settled"}
    BY <1>1 DEF BuildAxiosConfig, Subscribe
  <2>2. config' = [config EXCEPT ![n] = new]
    BY <1>1 DEF BuildAxiosConfig, HeadersObject
  <2>3. /\ new.headers = n /\ new.transform = request.transform
        /\ request.auth = "url" => new.auth = "url"
        /\ new # NoConfig
    <3>1. Input(source) \in Inputs /\ Input(source).transform = request.transform
          /\ (request.auth = "url" => Input(source).auth = "url")
      BY <2>1, Starting
    <3> QED BY <3>1 DEF Inputs, NoConfig
  <2>4. config'[n] = new /\ \A j \in Attempts : j # n => config'[j] = config[j]
    BY <2>1, <2>2, Subscribing DEF TypeOK
  <2>5. \A j \in Attempts : j # n => from'[j] = from[j]
    BY <2>1, Subscribing DEF TypeOK
  <2>6. \A j \in Attempts : j \in Nat
    BY DEF Attempts
  <2> HIDE DEF new
  <2>7. /\ n \in Attempts /\ count' = n /\ count \in Nat /\ UNCHANGED <<request, wire, edited>>
        /\ \A j \in Attempts : j < n => HasConfig(j)
        /\ \A j \in Attempts : wire[j] # NotSent <=> j < n
        /\ from'[n] = source /\ source < n
    BY <2>1, Subscribing
  <2> HIDE DEF n
  <2>8. \A j \in Attempts : HasConfig(j)' =>
          /\ j <= count' /\ config'[j].headers = j /\ config'[j].transform = request'.transform
          /\ request'.auth = "url" => config'[j].auth = "url"
    <3>1. \A j \in Attempts : j # n /\ HasConfig(j) => j < n
      BY <2>6, <2>7 DEF Inv, Order, n
    <3>2. ASSUME NEW j \in Attempts, HasConfig(j)', j # n
          PROVE  /\ j <= n /\ config'[j].headers = j /\ config'[j].transform = request.transform
                 /\ request.auth = "url" => config'[j].auth = "url"
      <4>1. HasConfig(j) /\ config'[j] = config[j]
        BY <2>4, <3>2 DEF HasConfig
      <4>2. j <= n
        BY <2>6, <2>7, <3>1, <4>1, <3>2
      <4> QED BY <4>1, <4>2 DEF Inv, Order
    <3>3. n <= n
      BY <2>6, <2>7
    <3> QED BY <2>3, <2>4, <2>7, <3>2, <3>3
  <2>9. \A j \in Attempts : j < count' => HasConfig(j)'
    BY <2>4, <2>6, <2>7 DEF HasConfig
  <2>10. \A j \in edited' : j <= count'
    BY <2>7 DEF Inv, Order, n, TypeOK, Attempts
  <2>11. \A j \in Attempts : j <= count' => from'[j] < j
    <3>1. \A j \in Attempts : j <= count => from[j] < j
      BY DEF Inv, Order
    <3>2. \A j \in Attempts : j <= n => j = n \/ j <= count
      BY <2>6, <2>7 DEF n
    <3> QED BY <2>5, <2>7, <3>1, <3>2
  <2>12. \A j \in Attempts :
          wire'[j] # NotSent <=> j < count' \/ (j = count' /\ phase' \in {"sent", "settled"})
    BY <2>1, <2>7
  <2>13. phase' \notin {"ready", "sent", "idle"}
    BY <2>1
  <2> QED BY <2>8, <2>9, <2>10, <2>11, <2>12, <2>13 DEF Order
<1>2. ASSUME NEW source \in Sources, NormalizeAxiosRequest(source)
      PROVE  Order'
  <2>1. Subscribe(source) /\ phase' = "ready" /\ UNCHANGED config /\ ~Input(source).transform
    BY <1>2 DEF NormalizeAxiosRequest
  <2>2. phase \in {"idle", "settled"}
    BY <2>1, Subscribing
  <2>3. ~request.transform
    BY <2>1, <2>2, Starting
  <2>4. \A j \in Attempts : j # count + 1 => from'[j] = from[j]
    BY <2>1, Subscribing DEF TypeOK
  <2>5. \A j \in Attempts : j \in Nat
    BY DEF Attempts
  <2>6. /\ count + 1 \in Attempts /\ count' = count + 1 /\ count \in Nat
        /\ UNCHANGED <<request, wire, edited>>
        /\ \A j \in Attempts : j < count + 1 => HasConfig(j)
        /\ \A j \in Attempts : wire[j] # NotSent <=> j < count + 1
        /\ from'[count + 1] = source /\ source < count + 1
    BY <2>1, Subscribing
  <2>7. \A j \in Attempts : HasConfig(j)' =>
          /\ j <= count' /\ config'[j].headers = j /\ config'[j].transform = request'.transform
          /\ request'.auth = "url" => config'[j].auth = "url"
    BY <2>1, <2>5, <2>6 DEF Inv, Order, HasConfig
  <2>8. \A j \in Attempts : j < count' => HasConfig(j)'
    BY <2>1, <2>6 DEF HasConfig
  <2>9. \A j \in edited' : j <= count'
    BY <2>6 DEF Inv, Order, TypeOK, Attempts
  <2>10. \A j \in Attempts : j <= count' => from'[j] < j
    BY <2>4, <2>5, <2>6 DEF Inv, Order
  <2>11. \A j \in Attempts :
          wire'[j] # NotSent <=> j < count' \/ (j = count' /\ phase' \in {"sent", "settled"})
    BY <2>1, <2>6
  <2>12. phase' # "idle" /\ ~request'.transform
    BY <2>1, <2>3, <2>6
  <2> QED BY <2>7, <2>8, <2>9, <2>10, <2>11, <2>12 DEF Order
<1>3. ASSUME SerializeAxiosConfig
      PROVE  Order'
  <2>1. PICK data : config' = [config EXCEPT ![count].data = data]
    BY <1>3 DEF SerializeAxiosConfig
  <2>2. count \in Attempts /\ HasConfig(count) /\ config[count] \in Configs
    BY <1>3, BoundsAssumption DEF SerializeAxiosConfig, TypeOK, Attempts, HasConfig
  <2>3. phase = "intercepting" /\ phase' = "ready" /\ UNCHANGED <<request, count, wire, from, edited>>
    BY <1>3 DEF SerializeAxiosConfig
  <2>4. \A j \in Attempts : j # count => config'[j] = config[j]
    BY <2>1, <2>2 DEF TypeOK
  <2>5. config'[count] = [config[count] EXCEPT !.data = data]
    BY <2>1, <2>2 DEF TypeOK
  <2>6. /\ config'[count] # NoConfig /\ config'[count].headers = config[count].headers
        /\ config'[count].transform = config[count].transform
        /\ config'[count].auth = config[count].auth
    BY <2>2, <2>5 DEF Configs, NoConfig
  <2> QED BY <2>2, <2>3, <2>4, <2>6 DEF Order, HasConfig, Inv
<1>4. ASSUME Dispatch
      PROVE  Order'
  <2> DEFINE message == [headers |-> Sent(options.headers, options.body), body |-> options.body,
                         fresh |-> options.body.stream \notin spent]
  <2>1. wire' = [wire EXCEPT ![count] = message]
    BY <1>4 DEF Dispatch
  <2>2. count \in Attempts /\ phase = "ready" /\ phase' = "sent"
        /\ UNCHANGED <<request, count, config, from, edited>>
    BY <1>4, BoundsAssumption DEF Dispatch, TypeOK, Attempts
  <2>3. message # NotSent
    BY DEF NotSent
  <2> HIDE DEF message
  <2>4. \A j \in Attempts : wire'[j] # NotSent <=> wire[j] # NotSent \/ j = count
    BY <2>1, <2>2, <2>3 DEF TypeOK
  <2> QED BY <2>2, <2>4 DEF Order, HasConfig, Inv, Attempts
<1>5. ASSUME Settle
      PROVE  Order'
  <2>1. count \in Attempts /\ phase = "sent" /\ phase' = "settled"
        /\ UNCHANGED <<request, count, wire, from, edited>>
    BY <1>5, BoundsAssumption DEF Settle, TypeOK, Attempts
  <2>2. CASE HasConfig(count)
    BY <1>5, <2>1, <2>2 DEF Settle, Order, HasConfig, Inv
  <2>3. CASE ~HasConfig(count)
    <3> DEFINE new == [headers |-> count, data |-> options.body, transform |-> FALSE,
                       auth |-> IF request.auth = "url" THEN "url" ELSE "none"]
    <3>1. config' = [config EXCEPT ![count] = new]
      BY <1>5, <2>3 DEF Settle, HasConfig
    <3>2. config'[count] = new /\ \A j \in Attempts : j # count => config'[j] = config[j]
      BY <2>1, <3>1 DEF TypeOK
    <3>3. new # NoConfig /\ new.headers = count /\ new.transform = FALSE
          /\ (request.auth = "url" => new.auth = "url")
      BY DEF NoConfig
    <3>4. request.transform = FALSE
      BY <2>1, <2>3, RequestsAssumption DEF Inv, Order, TypeOK
    <3> HIDE DEF new
    <3>5. \A j \in Attempts : j \in Nat
      BY DEF Attempts
    <3>6. \A j \in Attempts : HasConfig(j)' =>
            /\ j <= count' /\ config'[j].headers = j /\ config'[j].transform = request'.transform
            /\ request'.auth = "url" => config'[j].auth = "url"
      <4>1. ASSUME NEW j \in Attempts, HasConfig(j)', j # count
            PROVE  /\ j <= count' /\ config'[j].headers = j /\ config'[j].transform = request'.transform
                   /\ request'.auth = "url" => config'[j].auth = "url"
        BY <2>1, <3>2, <4>1 DEF Inv, Order, HasConfig
      <4>2. count <= count'
        BY <2>1, <3>5
      <4> QED BY <2>1, <3>2, <3>3, <3>4, <4>1, <4>2
    <3>7. \A j \in Attempts : j < count' => HasConfig(j)'
      BY <2>1, <3>2, <3>3 DEF Inv, Order, HasConfig
    <3> QED BY <2>1, <3>6, <3>7 DEF Order, Inv
  <2> QED BY <2>2, <2>3
<1>6. ASSUME NEW j \in Attempts, NEW name \in Names, NEW value \in NewValues \cup {Absent, Off},
             NEW rewrite \in BOOLEAN, EditHeader(j, name, value, rewrite)
      PROVE  Order'
  <2>1. HasConfig(j) /\ edited' = edited \cup {j}
        /\ UNCHANGED <<request, count, phase, wire, from, config>>
    BY <1>6 DEF EditHeader, Edit, HasConfig
  <2> QED BY <2>1 DEF Order, HasConfig, Inv
<1>7. ASSUME NEW j \in Attempts, NEW data \in NewData, EditData(j, data)
      PROVE  Order'
  <2>1. HasConfig(j) /\ edited' = edited \cup {j}
        /\ UNCHANGED <<request, count, phase, wire, from>>
        /\ config' = [config EXCEPT ![j].data = data]
    BY <1>7 DEF EditData, Edit, HasConfig
  <2>2. config[j] \in Configs
    BY <2>1 DEF TypeOK, HasConfig
  <2>3. /\ config'[j] # NoConfig /\ config'[j].headers = config[j].headers
        /\ config'[j].transform = config[j].transform /\ config'[j].auth = config[j].auth
    <3>1. config'[j] = [config[j] EXCEPT !.data = data]
      BY <2>1 DEF TypeOK
    <3> QED BY <2>2, <3>1 DEF Configs, NoConfig
  <2>4. \A k \in Attempts : k # j => config'[k] = config[k]
    BY <2>1 DEF TypeOK
  <2> QED BY <2>1, <2>3, <2>4 DEF Order, HasConfig, Inv
<1>8. ASSUME NEW name \in Names, NEW value \in NewValues, EditOptions(name, value)
      PROVE  Order'
  <2>1. /\ UNCHANGED <<request, count, phase, config, wire, from>>
        /\ edited' \subseteq edited \cup {count} /\ count \in Nat
    BY <1>8 DEF EditOptions, TypeOK
  <2> QED BY <2>1 DEF Order, HasConfig, Inv
<1>9. ASSUME UNCHANGED vars
      PROVE  Order'
  BY <1>9 DEF vars, Order, HasConfig, Inv
<1>10. ASSUME NEW p \in Parts, ChangeInPlace(p)
       PROVE  Order'
  BY <1>10, InPlace DEF Order, HasConfig, Inv
<1> QED BY <1>10, <1>1, <1>2, <1>3, <1>4, <1>5, <1>6, <1>7, <1>8, <1>9 DEF Next

\* What serializeAxiosConfig makes of the config of the last attempt.
Serial ==
  LET h == WithCredentials(heap[count], config[count].auth)
  IN  IF request.transform THEN [body |-> Transformed(config[count].data), headers |-> h]
      ELSE SerializeRequestData(h, config[count].data, count)

LEMMA Serialising ==
  ASSUME TypeOK, Inv, SerializeAxiosConfig
  PROVE  /\ count \in Attempts /\ HasConfig(count) /\ config[count] \in Configs
         /\ phase = "intercepting" /\ phase' = "ready"
         /\ config' = [config EXCEPT ![count] = [config[count] EXCEPT !.data = Serial.body]]
         /\ heap' = [heap EXCEPT ![count] = Serial.headers]
         /\ options' = [headers |-> ToJSON(Serial.headers), body |-> Serial.body]
         /\ UNCHANGED <<request, count, wire, from, edited, spent>>
         /\ Serial.body \in Data /\ Serial.headers \in HeaderMaps /\ StreamOnly(Serial.body)
         /\ Basic(Serial.headers, config[count].auth)
         /\ Merged(heap[count]) => /\ Whole(Serial.headers, Serial.body)
                                  /\ ToJSON(Serial.headers) = Serial.headers
<1> DEFINE c == config[count]
           h == WithCredentials(heap[count], c.auth)
<1>1. count \in Attempts /\ HasConfig(count) /\ c \in Configs /\ count \in Nat
  BY BoundsAssumption DEF SerializeAxiosConfig, TypeOK, Attempts, HasConfig
<1>2. /\ c.headers = count /\ c.transform = request.transform /\ OneShot(c.data)
      /\ request.auth = "url" => c.auth = "url"
  BY <1>1 DEF Inv, Order, Streams
<1>3. h \in HeaderMaps /\ heap[count] \in HeaderMaps /\ c.data \in Data
  BY <1>1, HeadersType DEF TypeOK, Configs
<1>4. Basic(h, c.auth) /\ (Merged(heap[count]) => Merged(h))
  BY <1>3, CredentialsKept
<1>5. Basic(h, UrlAuth)
  BY <1>2, <1>4 DEF Basic, UrlAuth
<1> DEFINE Facts ==
       /\ Serial.body \in Data /\ Serial.headers \in HeaderMaps /\ StreamOnly(Serial.body)
       /\ Basic(Serial.headers, c.auth)
       /\ Merged(heap[count]) => Whole(Serial.headers, Serial.body)
<1>6. ASSUME request.transform
      PROVE  Facts
  <2>1. Serial = [body |-> Transformed(c.data), headers |-> h]
    BY <1>6 DEF Serial
  <2>2. Serial.body \in Data /\ StreamOnly(Serial.body)
    BY <1>2, <1>3, <2>1, EncodedType, EncodedStream
  <2>3. Basic(Serial.headers, c.auth) /\ Serial.headers \in HeaderMaps
        /\ (Merged(heap[count]) => Whole(Serial.headers, Serial.body))
    BY <1>3, <1>4, <1>5, <1>6, <2>1 DEF Whole
  <2> QED BY <2>2, <2>3
<1>7. ASSUME ~request.transform
      PROVE  Facts
  <2>1. Serial = SerializeRequestData(h, c.data, count)
    BY <1>7 DEF Serial
  <2>2. /\ Serial.body \in Data /\ Serial.headers \in HeaderMaps /\ StreamOnly(Serial.body)
        /\ Merged(h) => Merged(Serial.headers)
        /\ Final(Serial.body) /\ Dressed(Serial.headers, Serial.body)
        /\ Basic(Serial.headers, c.auth) /\ Basic(Serial.headers, UrlAuth)
    BY <1>1, <1>2, <1>3, <1>4, <1>5, <2>1, Serialised
  <2> QED BY <1>4, <2>2 DEF Whole
<1> HIDE DEF c, h
<1>8. Merged(heap[count]) => ToJSON(Serial.headers) = Serial.headers
  BY <1>6, <1>7, ToJSONNoOff DEF Whole, Merged
<1>9. /\ config' = [config EXCEPT ![count] = [c EXCEPT !.data = Serial.body]]
      /\ heap' = [heap EXCEPT ![count] = Serial.headers]
      /\ options' = [headers |-> ToJSON(Serial.headers), body |-> Serial.body]
  BY <1>2 DEF SerializeAxiosConfig, Serial, c
<1> QED BY <1>1, <1>6, <1>7, <1>8, <1>9 DEF SerializeAxiosConfig, c

\* What normalizeAxiosRequest makes of a config.
Normal(source) ==
  LET in == Input(source)
  IN  SerializeRequestData(WithCredentials(MergeHeaders(request.defaults, in.headers), in.auth),
                           in.data, count + 1)

LEMMA Normalising ==
  ASSUME TypeOK, Inv, NEW source \in Sources, NormalizeAxiosRequest(source)
  PROVE  /\ Subscribe(source) /\ phase' = "ready" /\ UNCHANGED <<config, heap>>
         /\ options' = [headers |-> Normal(source).headers, body |-> Normal(source).body]
         /\ ~request.transform
         /\ Whole(Normal(source).headers, Normal(source).body) /\ StreamOnly(Normal(source).body)
<1> DEFINE in == Input(source)
           merged == MergeHeaders(request.defaults, in.headers)
           h == WithCredentials(merged, in.auth)
<1>1. /\ Subscribe(source) /\ phase' = "ready" /\ UNCHANGED <<config, heap>>
      /\ options' = Normal(source) /\ ~in.transform
  BY DEF NormalizeAxiosRequest, Normal
<1>2. phase \in {"idle", "settled"} /\ count + 1 \in Nat
  BY <1>1, Subscribing DEF Attempts
<1>3. /\ in \in Inputs /\ merged \in HeaderMaps /\ Merged(merged) /\ OneShot(in.data)
      /\ ~request.transform /\ (request.auth = "url" => in.auth = "url")
  BY <1>1, <1>2, Starting
<1>4. h \in HeaderMaps /\ in.data \in Data
  BY <1>3, HeadersType DEF Inputs
<1>5. Merged(h) /\ Basic(h, in.auth)
  BY <1>3, CredentialsKept
<1>6. Basic(h, UrlAuth)
  BY <1>3, <1>5 DEF Basic, UrlAuth
<1>7. Normal(source) = SerializeRequestData(h, in.data, count + 1)
  BY DEF Normal
<1> HIDE DEF h, in
<1> QED BY <1>1, <1>2, <1>3, <1>4, <1>5, <1>6, <1>7, Serialised DEF Whole

\* Streams are only read once.
LEMMA StreamsStep ==
  ASSUME TypeOK, TypeOK', Inv, [Next]_vars
  PROVE  Streams'
<1>1. ASSUME NEW source \in Sources, BuildAxiosConfig(source)
      PROVE  Streams'
  <2>1. Subscribe(source) /\ UNCHANGED options
    BY <1>1 DEF BuildAxiosConfig
  <2>2. config' = [config EXCEPT ![count + 1] = [Input(source) EXCEPT !.headers = count + 1]]
    BY <1>1 DEF BuildAxiosConfig, HeadersObject
  <2>3. Input(source) \in Inputs /\ OneShot(Input(source).data)
    BY <2>1, Subscribing, Starting
  <2>4. config'[count + 1].data = Input(source).data
    BY <2>1, <2>2, <2>3, Subscribing DEF TypeOK, Inputs
  <2>5. \A j \in Attempts : j # count + 1 => config'[j] = config[j]
    BY <2>2 DEF TypeOK
  <2> QED BY <2>1, <2>3, <2>4, <2>5, Subscribing DEF Streams, Inv, HasConfig
<1>2. ASSUME NEW source \in Sources, NormalizeAxiosRequest(source)
      PROVE  Streams'
  BY <1>2, Normalising, Subscribing DEF Streams, Inv, HasConfig
<1>3. ASSUME SerializeAxiosConfig
      PROVE  Streams'
  <2>1. config'[count].data = Serial.body /\ \A j \in Attempts : j # count => config'[j] = config[j]
    BY <1>3, Serialising DEF TypeOK, Configs
  <2>2. OneShot(Serial.body) /\ StreamOnly(options'.body)
    BY <1>3, Serialising DEF OneShot, StreamOnly
  <2> QED BY <1>3, <2>1, <2>2, Serialising DEF Streams, Inv, HasConfig
<1>4. ASSUME Dispatch
      PROVE  Streams'
  <2> DEFINE message == [headers |-> Sent(options.headers, options.body), body |-> options.body,
                         fresh |-> options.body.stream \notin spent]
  <2>1. wire' = [wire EXCEPT ![count] = message] /\ UNCHANGED <<config, options>>
    BY <1>4 DEF Dispatch
  <2>2. message.body.kind # "stream" => message.fresh
    BY DEF Inv, Streams, StreamOnly
  <2>3. 0 \notin spent'
    BY <1>4 DEF Dispatch, Inv, Streams
  <2> HIDE DEF message
  <2>4. \A n \in Attempts : wire'[n] = wire[n] \/ wire'[n] = message
    BY <2>1 DEF TypeOK
  <2> QED BY <2>1, <2>2, <2>3, <2>4 DEF Streams, Inv, HasConfig
<1>5. ASSUME Settle
      PROVE  Streams'
  <2>1. UNCHANGED <<wire, options, spent>>
    BY <1>5 DEF Settle
  <2>2. \A n \in Attempts : config'[n] = config[n] \/ config'[n].data = options.body
    BY <1>5 DEF Settle, TypeOK
  <2> QED BY <2>1, <2>2 DEF Streams, Inv, HasConfig, StreamOnly, OneShot
<1>6. ASSUME NEW j \in Attempts, NEW name \in Names, NEW value \in NewValues \cup {Absent, Off},
             NEW rewrite \in BOOLEAN, EditHeader(j, name, value, rewrite)
      PROVE  Streams'
  BY <1>6 DEF EditHeader, Edit, Streams, Inv, HasConfig
<1>7. ASSUME NEW j \in Attempts, NEW data \in NewData, EditData(j, data)
      PROVE  Streams'
  <2>1. config' = [config EXCEPT ![j] = [config[j] EXCEPT !.data = data]]
        /\ UNCHANGED <<wire, options, spent>> /\ HasConfig(j)
    BY <1>7 DEF EditData, Edit, HasConfig
  <2>2. config[j] \in Configs /\ OneShot(data)
    BY <2>1, StreamsAssumption DEF TypeOK, HasConfig, OneShot
  <2>3. config'[j].data = data /\ \A k \in Attempts : k # j => config'[k] = config[k]
    BY <2>1, <2>2 DEF TypeOK, Configs
  <2> QED BY <2>1, <2>2, <2>3 DEF Streams, Inv, HasConfig
<1>8. ASSUME NEW name \in Names, NEW value \in NewValues, EditOptions(name, value)
      PROVE  Streams'
  <2>1. options'.body = options.body /\ UNCHANGED <<wire, config, spent>>
    BY <1>8 DEF EditOptions, TypeOK
  <2> QED BY <2>1 DEF Streams, Inv, HasConfig
<1>9. ASSUME UNCHANGED vars
      PROVE  Streams'
  BY <1>9 DEF vars, Streams, HasConfig, Inv
<1>10. ASSUME NEW p \in Parts, ChangeInPlace(p)
       PROVE  Streams'
  BY <1>10, InPlace DEF Streams, HasConfig, Inv
<1> QED BY <1>10, <1>1, <1>2, <1>3, <1>4, <1>5, <1>6, <1>7, <1>8, <1>9 DEF Next

\* Until somebody touches it, the last attempt is made ready as it should be,
\* and sent as it was made ready.
LEMMA PreparedStep ==
  ASSUME TypeOK, TypeOK', Inv, [Next]_vars
  PROVE  Prepared' /\ Told'
<1> USE DEF Inv
<1>1. ASSUME NEW source \in Sources, BuildAxiosConfig(source)
      PROVE  Prepared' /\ Told'
  <2> DEFINE in == Input(source)
             merged == MergeHeaders(request.defaults, in.headers)
             object == WithCredentials(merged, IF in.auth = "config" THEN "config" ELSE "none")
  <2>1. Subscribe(source) /\ phase' = "intercepting" /\ heap' = [heap EXCEPT ![count + 1] = object]
    BY <1>1 DEF BuildAxiosConfig, HeadersObject
  <2>2. merged \in HeaderMaps /\ Merged(merged)
    BY <2>1, Subscribing, Starting
  <2>3. Merged(object)
    BY <2>2, CredentialsKept
  <2>4. heap'[count + 1] = object /\ count' = count + 1
    BY <2>1, Subscribing DEF TypeOK
  <2>5. UNCHANGED request
    BY <2>1, Subscribing
  <2> HIDE DEF object
  <2> QED BY <2>1, <2>3, <2>4, <2>5 DEF Prepared, Told, Merged, NoOff
<1>2. ASSUME NEW source \in Sources, NormalizeAxiosRequest(source)
      PROVE  Prepared' /\ Told'
  <2>1. ~HasConfig(count + 1) /\ count' = count + 1 /\ UNCHANGED <<request, config>>
    BY <1>2, Normalising, Subscribing
  <2>2. Whole(options'.headers, options'.body) /\ phase' = "ready"
    BY <1>2, Normalising
  <2> QED BY <2>1, <2>2 DEF Prepared, Told, Whole, Merged, NoOff, Basic, UrlAuth, Dressed, HasConfig
<1>3. ASSUME SerializeAxiosConfig
      PROVE  Prepared' /\ Told'
  <2>1. Told' /\ phase' = "ready" /\ UNCHANGED <<request, count, edited>>
    BY <1>3, Serialising DEF Told
  <2>2. config'[count] = [config[count] EXCEPT !.data = Serial.body]
        /\ heap'[count] = Serial.headers
        /\ options' = [headers |-> ToJSON(Serial.headers), body |-> Serial.body]
    BY <1>3, Serialising DEF TypeOK
  <2>3. config'[count].data = Serial.body /\ config'[count].auth = config[count].auth
    BY <1>3, <2>2, Serialising DEF Configs
  <2>4. count # 0 /\ count \notin edited =>
          /\ Whole(Serial.headers, Serial.body) /\ ToJSON(Serial.headers) = Serial.headers
          /\ Basic(Serial.headers, config[count].auth)
    BY <1>3, Serialising DEF Prepared
  <2> QED BY <2>1, <2>2, <2>3, <2>4 DEF Prepared, Whole, Merged, NoOff, Basic, UrlAuth, Dressed
<1>4. ASSUME Dispatch
      PROVE  Prepared' /\ Told'
  <2>1. count \in Attempts /\ phase = "ready" /\ phase' = "sent"
        /\ UNCHANGED <<request, count, config, heap, options, edited>>
    BY <1>4, BoundsAssumption DEF Dispatch, TypeOK, Attempts
  <2>2. wire'[count] = [headers |-> Sent(options.headers, options.body), body |-> options.body,
                        fresh |-> options.body.stream \notin spent]
    BY <1>4, <2>1 DEF Dispatch, TypeOK
  <2> QED BY <2>1, <2>2 DEF Prepared, Told, Whole, Merged, NoOff, Basic, UrlAuth, Dressed, HasConfig
<1>5. ASSUME Settle
      PROVE  Prepared' /\ Told'
  BY <1>5 DEF Settle, Prepared, Told
<1>6. ASSUME NEW j \in Attempts, NEW name \in Names, NEW value \in NewValues \cup {Absent, Off},
             NEW rewrite \in BOOLEAN, EditHeader(j, name, value, rewrite)
      PROVE  Prepared' /\ Told'
  <2>1. edited' = edited \cup {j} /\ UNCHANGED <<request, count, phase, wire, config, options>>
    BY <1>6 DEF EditHeader, Edit
  <2>2. config[j].headers = j
    BY <1>6 DEF EditHeader, Order, HasConfig
  <2>3. \A k \in Attempts : k # j => heap'[k] = heap[k]
    BY <1>6, <2>2 DEF EditHeader, TypeOK
  <2>4. count # 0 /\ count \notin edited' => heap'[count] = heap[count] /\ count \notin edited
    BY <2>1, <2>3, BoundsAssumption DEF TypeOK, Attempts
  <2> QED BY <2>1, <2>4 DEF Prepared, Told, Whole, Merged, NoOff, Basic, UrlAuth, Dressed, HasConfig
<1>7. ASSUME NEW j \in Attempts, NEW data \in NewData, EditData(j, data)
      PROVE  Prepared' /\ Told'
  <2>1. edited' = edited \cup {j} /\ UNCHANGED <<request, count, phase, wire, heap, options>>
        /\ config' = [config EXCEPT ![j].data = data]
    BY <1>7 DEF EditData, Edit
  <2>2. count # 0 /\ count \notin edited' => config'[count] = config[count] /\ count \notin edited
    BY <2>1, BoundsAssumption DEF TypeOK, Attempts
  <2> QED BY <2>1, <2>2 DEF Prepared, Told, Whole, Merged, NoOff, Basic, UrlAuth, Dressed, HasConfig
<1>8. ASSUME NEW name \in Names, NEW value \in NewValues, EditOptions(name, value)
      PROVE  Prepared' /\ Told'
  <2>1. (phase' = "ready" /\ count' \in edited') \/ phase' = "settled"
    BY <1>8 DEF EditOptions
  <2> QED BY <2>1 DEF Prepared, Told
<1>9. ASSUME UNCHANGED vars
      PROVE  Prepared' /\ Told'
  BY <1>9 DEF vars, Prepared, Told, Whole, Merged, NoOff, Basic, UrlAuth, Dressed, HasConfig
<1>10. ASSUME NEW p \in Parts, ChangeInPlace(p)
       PROVE  Prepared' /\ Told'
  BY <1>10, InPlace DEF Prepared, Told, Whole, Merged, NoOff, Basic, UrlAuth, Dressed, HasConfig
<1> QED BY <1>10, <1>1, <1>2, <1>3, <1>4, <1>5, <1>6, <1>7, <1>8, <1>9 DEF Next

\* What nobody touches in a step is shown as before it.
LEMMA ShownStill ==
  ASSUME UNCHANGED request, NEW n \in Attempts, wire'[n] = wire[n], heap'[n] = heap[n],
         config'[n] = config[n], Settled(n), n \notin edited, Shows
  PROVE  /\ wire'[n].body = config'[n].data
         /\ wire'[n].headers = Sent(heap'[n], config'[n].data)
         /\ (Whole(heap[n], config[n].data) /\ Basic(heap[n], config[n].auth))'
  BY DEF Shows, Whole, Merged, NoOff, Basic, UrlAuth, Dressed

LEMMA ShowsStep ==
  ASSUME TypeOK, TypeOK', Inv, [Next]_vars
  PROVE  Shows'
<1> USE DEF Inv
<1>1. ASSUME NEW source \in Sources, BuildAxiosConfig(source) \/ NormalizeAxiosRequest(source)
      PROVE  Shows'
  <2>1. Subscribe(source) /\ phase' # "settled"
        /\ \A n \in Attempts : n # count + 1 => config'[n] = config[n] /\ heap'[n] = heap[n]
    BY <1>1 DEF BuildAxiosConfig, NormalizeAxiosRequest, HeadersObject, TypeOK
  <2>2. \A n \in Attempts : Settled(n)' => n < count + 1
    BY <2>1, Subscribing DEF Settled
  <2>3. \A n \in Attempts : n < count + 1 =>
          wire'[n] = wire[n] /\ config'[n] = config[n] /\ heap'[n] = heap[n] /\ Settled(n)
    BY <2>1, Subscribing DEF Attempts
  <2>4. UNCHANGED <<request, edited>>
    BY <2>1, Subscribing
  <2> QED BY <2>2, <2>3, <2>4, ShownStill DEF Shows
<1>2. ASSUME SerializeAxiosConfig \/ Dispatch
      PROVE  Shows'
  <2>1. /\ count \in Attempts /\ phase' # "settled" /\ UNCHANGED <<request, count, edited>>
        /\ \A n \in Attempts : n # count =>
             config'[n] = config[n] /\ heap'[n] = heap[n] /\ wire'[n] = wire[n]
    <3>1. CASE SerializeAxiosConfig
      BY <3>1, Serialising DEF TypeOK
    <3>2. CASE Dispatch
      BY <3>2, BoundsAssumption DEF Dispatch, TypeOK, Attempts
    <3> QED BY <1>2, <3>1, <3>2
  <2>2. \A n \in Attempts : Settled(n)' => n # count /\ Settled(n)
    BY <2>1 DEF Settled, Attempts
  <2> QED BY <2>1, <2>2, ShownStill DEF Shows
<1>3. ASSUME Settle
      PROVE  Shows'
  <2>1. count \in Attempts /\ phase = "sent" /\ phase' = "settled"
        /\ UNCHANGED <<request, count, options, wire, edited>>
    BY <1>3, BoundsAssumption DEF Settle, TypeOK, Attempts
  <2>2. \A n \in Attempts : n # count => config'[n] = config[n] /\ heap'[n] = heap[n]
    BY <1>3 DEF Settle, TypeOK
  <2>3. \A n \in Attempts : Settled(n)' /\ n # count => Settled(n)
    BY <2>1 DEF Settled
  <2>4. ASSUME count \notin edited
        PROVE  /\ config'[count].data = options.body /\ heap'[count] = options.headers
               /\ Basic(options.headers, config'[count].auth)
    <3>1. Whole(options.headers, options.body)
      BY <2>1, <2>4 DEF Prepared, Attempts
    <3>2. CASE HasConfig(count)
      BY <1>3, <2>1, <2>4, <3>2 DEF Settle, Prepared, HasConfig, Attempts
    <3>3. CASE ~HasConfig(count)
      <4>1. /\ config'[count] = [headers |-> count, data |-> options.body, transform |-> FALSE,
                                 auth |-> UrlAuth]
            /\ heap'[count] = options.headers
        BY <1>3, <2>1, <3>3 DEF Settle, HasConfig, TypeOK, UrlAuth
      <4> QED BY <3>1, <4>1 DEF Whole
    <3> QED BY <3>2, <3>3
  <2>5. count \notin edited => Whole(options.headers, options.body)
    BY <2>1 DEF Prepared, Attempts
  <2>6. wire[count].body = options.body /\ wire[count].headers = Sent(options.headers, options.body)
    BY <2>1 DEF Told
  <2>7. ASSUME count \notin edited
        PROVE  /\ wire'[count].body = config'[count].data
               /\ wire'[count].headers = Sent(heap'[count], config'[count].data)
               /\ (Whole(heap[count], config[count].data) /\ Basic(heap[count], config[count].auth))'
    BY <2>1, <2>4, <2>5, <2>6, <2>7 DEF Whole, Merged, NoOff, Basic, UrlAuth, Dressed
  <2>8. ASSUME NEW n \in Attempts, Settled(n)', n \notin edited', n # count
        PROVE  /\ wire'[n].body = config'[n].data
               /\ wire'[n].headers = Sent(heap'[n], config'[n].data)
               /\ (Whole(heap[n], config[n].data) /\ Basic(heap[n], config[n].auth))'
    BY <2>1, <2>2, <2>3, <2>8, ShownStill
  <2> QED BY <2>1, <2>7, <2>8 DEF Shows
<1>4. ASSUME NEW j \in Attempts, NEW name \in Names, NEW value \in NewValues \cup {Absent, Off},
             NEW rewrite \in BOOLEAN, EditHeader(j, name, value, rewrite)
      PROVE  Shows'
  <2>1. edited' = edited \cup {j} /\ UNCHANGED <<request, count, phase, wire, config>>
    BY <1>4 DEF EditHeader, Edit
  <2>2. config[j].headers = j
    BY <1>4 DEF EditHeader, Order, HasConfig
  <2>3. \A k \in Attempts : k # j => heap'[k] = heap[k]
    BY <1>4, <2>2 DEF EditHeader, TypeOK
  <2> QED BY <2>1, <2>3, ShownStill DEF Shows, Settled
<1>5. ASSUME NEW j \in Attempts, NEW data \in NewData, EditData(j, data)
      PROVE  Shows'
  <2>1. edited' = edited \cup {j} /\ UNCHANGED <<request, count, phase, wire, heap>>
        /\ \A k \in Attempts : k # j => config'[k] = config[k]
    BY <1>5 DEF EditData, Edit, TypeOK
  <2> QED BY <2>1, ShownStill DEF Shows, Settled
<1>6. ASSUME NEW name \in Names, NEW value \in NewValues, EditOptions(name, value)
      PROVE  Shows'
  <2>1. edited \subseteq edited' /\ UNCHANGED <<request, count, phase, wire, heap, config>>
    BY <1>6 DEF EditOptions
  <2> QED BY <2>1, ShownStill DEF Shows, Settled
<1>7. ASSUME UNCHANGED vars
      PROVE  Shows'
  BY <1>7, ShownStill DEF vars, Shows, Settled
<1>8. ASSUME NEW p \in Parts, ChangeInPlace(p)
      PROVE  Shows'
  BY <1>8, InPlace, ShownStill DEF Shows, Settled
<1> QED BY <1>8, <1>1, <1>2, <1>3, <1>4, <1>5, <1>6, <1>7 DEF Next

\* A replay by the route without a config finds nothing left to do.
LEMMA NormalReplay ==
  ASSUME TypeOK, Inv, NEW source \in Sources, source # 0, source \notin edited,
         ~request.transform, NormalizeAxiosRequest(source)
  PROVE  /\ Normal(source).body = config[source].data
         /\ Normal(source).headers = MergeHeaders(request.defaults, heap[source])
<1> DEFINE in == Input(source)
           merged == MergeHeaders(request.defaults, in.headers)
<1>1. phase \in {"idle", "settled"} /\ count + 1 \in Nat
  BY Normalising, Subscribing DEF Attempts
<1>2. /\ source \in Attempts /\ Settled(source) /\ merged \in HeaderMaps
      /\ in.data = config[source].data /\ in.headers = heap[source] /\ NoOff(heap[source])
      /\ Basic(merged, in.auth) /\ in \in Inputs
  BY <1>1, Starting
<1>3. WithCredentials(merged, in.auth) = merged
  BY <1>2, CredentialsKept
<1>4. Final(in.data) /\ Dressed(heap[source], in.data)
  BY <1>2 DEF Inv, Shows, Whole
<1>5. in.data \in Data /\ heap[source] \in HeaderMaps
  BY <1>2 DEF Inputs, TypeOK
<1>6. SerializeRequestData(MergeHeaders(request.defaults, heap[source]), in.data, count + 1)
        = [body |-> in.data, headers |-> MergeHeaders(request.defaults, heap[source])]
  BY <1>1, <1>2, <1>4, <1>5, DressedOnce
<1>7. Normal(source) = SerializeRequestData(WithCredentials(merged, in.auth), in.data, count + 1)
  BY DEF Normal
<1> QED BY <1>2, <1>3, <1>6, <1>7

\* And so does a replay by the other route, if no interceptor touches it.
LEMMA SerialReplay ==
  ASSUME TypeOK, Inv, SerializeAxiosConfig, from[count] # 0, ~request.transform,
         {count, from[count]} \cap edited = {}
  PROVE  LET merged == MergeHeaders(request.defaults, heap[from[count]])
         IN  /\ from[count] \in Attempts /\ from[count] # count
             /\ Serial.body = config[from[count]].data
             /\ Serial.headers = merged /\ ToJSON(merged) = merged
<1> DEFINE k == from[count]
           merged == MergeHeaders(request.defaults, heap[k])
<1>1. count \in Attempts /\ phase = "intercepting"
  BY Serialising
<1>2. k \in Attempts /\ k < count
  <2>1. k \in 0 .. MaxAttempts
    BY <1>1 DEF TypeOK
  <2>2. count <= count /\ k # 0
    BY <1>1 DEF Attempts
  <2> QED BY <1>1, <2>1, <2>2, BoundsAssumption DEF Inv, Order, Attempts
<1>3. Settled(k) /\ k # count
  BY <1>1, <1>2 DEF Settled, Attempts
<1>4. /\ config[count].data = config[k].data /\ config[count].auth = config[k].auth
      /\ heap[count] = merged
  BY <1>1 DEF Inv, Replaying, Attempts
<1>5. Whole(heap[k], config[k].data) /\ Basic(heap[k], config[k].auth)
  BY <1>2, <1>3 DEF Inv, Shows
<1>6. NoOff(heap[k]) /\ Final(config[k].data) /\ Dressed(heap[k], config[k].data)
  BY <1>5 DEF Whole, Merged
<1>7. merged \in HeaderMaps /\ heap[k] \in HeaderMaps
  BY <1>2, DefaultsTyped, HeadersType DEF TypeOK
<1>8. config[k] \in Configs
  BY <1>2, <1>3 DEF Settled, Inv, Order, TypeOK, HasConfig
<1>9. config[k].data \in Data
  BY <1>8 DEF Configs
<1>10. Basic(merged, config[k].auth)
  BY <1>5, <1>6 DEF MergeHeaders, NoOff, Basic, Names, Value, Absent, Off
<1>11. WithCredentials(heap[count], config[count].auth) = merged
  BY <1>4, <1>7, <1>10, CredentialsKept
<1>12. SerializeRequestData(merged, config[k].data, count) = [body |-> config[k].data, headers |-> merged]
  BY <1>1, <1>6, <1>7, <1>9, DressedOnce DEF Attempts
<1>13. Serial = SerializeRequestData(merged, config[k].data, count)
  BY <1>4, <1>11 DEF Serial
<1>14. Merged(heap[count])
  BY <1>1 DEF Inv, Prepared, Attempts
<1>15. ToJSON(merged) = merged
  BY <1>4, <1>7, <1>14, ToJSONNoOff DEF Merged
<1> QED BY <1>2, <1>3, <1>12, <1>13, <1>15

LEMMA ReplayingStep ==
  ASSUME TypeOK, TypeOK', Inv, [Next]_vars
  PROVE  Replaying'
<1>1. ASSUME NEW source \in Sources, BuildAxiosConfig(source)
      PROVE  Replaying'
  <2> DEFINE in == Input(source)
             merged == MergeHeaders(request.defaults, in.headers)
             auth == IF in.auth = "config" THEN "config" ELSE "none"
             n == count + 1
  <2>1. /\ Subscribe(source) /\ phase' = "intercepting"
        /\ heap' = [heap EXCEPT ![n] = WithCredentials(merged, auth)]
        /\ config' = [config EXCEPT ![n] = [in EXCEPT !.headers = n]]
    BY <1>1 DEF BuildAxiosConfig, HeadersObject
  <2>2. /\ n \in Attempts /\ count' = n /\ from'[n] = source /\ source < n /\ n \in Nat
        /\ UNCHANGED <<request, edited>> /\ phase \in {"idle", "settled"}
    BY <2>1, Subscribing DEF Attempts
  <2>3. SUFFICES ASSUME source # 0, source \notin edited
                 PROVE  /\ config'[n].data = config'[source].data
                        /\ config'[n].auth = config'[source].auth
                        /\ heap'[n] = MergeHeaders(request.defaults, heap'[source])
    BY <2>1, <2>2 DEF Replaying
  <2>4. /\ in \in Inputs /\ merged \in HeaderMaps /\ source \in Attempts
        /\ in.data = config[source].data /\ in.auth = config[source].auth
        /\ in.headers = heap[source] /\ Basic(merged, in.auth)
    BY <2>2, <2>3, Starting
  <2>5. Basic(merged, auth)
    BY <2>4 DEF Basic
  <2>6. WithCredentials(merged, auth) = merged
    BY <2>4, <2>5, CredentialsKept
  <2>7. source # n /\ config'[source] = config[source] /\ heap'[source] = heap[source]
    BY <2>1, <2>2, <2>4 DEF TypeOK, Attempts
  <2>8. heap'[n] = merged
    BY <2>1, <2>2, <2>6 DEF TypeOK
  <2>9. config'[n].data = in.data /\ config'[n].auth = in.auth
    BY <2>1, <2>2, <2>4 DEF TypeOK, Inputs
  <2> QED BY <2>4, <2>7, <2>8, <2>9
<1>2. ASSUME NEW source \in Sources, NormalizeAxiosRequest(source)
      PROVE  Replaying'
  <2>1. /\ count' = count + 1 /\ from'[count'] = source /\ phase' = "ready" /\ ~request.transform
        /\ UNCHANGED <<request, edited, config, heap>>
        /\ options' = [headers |-> Normal(source).headers, body |-> Normal(source).body]
    BY <1>2, Normalising, Subscribing
  <2>2. source # 0 /\ source \notin edited =>
          /\ Normal(source).body = config[source].data
          /\ Normal(source).headers = MergeHeaders(request.defaults, heap[source])
    BY <1>2, <2>1, NormalReplay
  <2> QED BY <2>1, <2>2 DEF Replaying
<1>3. ASSUME SerializeAxiosConfig
      PROVE  Replaying'
  <2>1. SUFFICES ASSUME from[count] # 0, ~request.transform, {count, from[count]} \cap edited = {}
                 PROVE  /\ options'.body = config'[from[count]].data
                        /\ options'.headers = MergeHeaders(request.defaults, heap'[from[count]])
    BY <1>3, Serialising DEF Replaying
  <2>2. /\ from[count] \in Attempts /\ from[count] # count
        /\ Serial.body = config[from[count]].data
        /\ Serial.headers = MergeHeaders(request.defaults, heap[from[count]])
        /\ ToJSON(Serial.headers) = Serial.headers
    BY <1>3, <2>1, SerialReplay
  <2>3. config'[from[count]] = config[from[count]] /\ heap'[from[count]] = heap[from[count]]
    BY <1>3, <2>2, Serialising DEF TypeOK
  <2>4. options'.body = Serial.body /\ options'.headers = ToJSON(Serial.headers)
    BY <1>3, Serialising
  <2> QED BY <2>2, <2>3, <2>4
<1>4. ASSUME Dispatch
      PROVE  Replaying'
  BY <1>4 DEF Dispatch, Inv, Replaying
<1>5. ASSUME Settle
      PROVE  Replaying'
  BY <1>5 DEF Settle, Replaying
<1>6. ASSUME NEW j \in Attempts, NEW name \in Names, NEW value \in NewValues \cup {Absent, Off},
             NEW rewrite \in BOOLEAN, EditHeader(j, name, value, rewrite)
      PROVE  Replaying'
  <2>1. edited' = edited \cup {j} /\ UNCHANGED <<request, count, phase, from, config, options>>
    BY <1>6 DEF EditHeader, Edit
  <2>2. config[j].headers = j
    BY <1>6 DEF EditHeader, Inv, Order, HasConfig
  <2>3. \A k \in Attempts : k # j => heap'[k] = heap[k]
    BY <1>6, <2>2 DEF EditHeader, TypeOK
  <2>4. count # 0 => count \in Attempts /\ from[count] \in Attempts \cup {0}
    BY BoundsAssumption DEF TypeOK, Attempts
  <2> QED BY <2>1, <2>3, <2>4 DEF Inv, Replaying
<1>7. ASSUME NEW j \in Attempts, NEW data \in NewData, EditData(j, data)
      PROVE  Replaying'
  <2>1. edited' = edited \cup {j} /\ UNCHANGED <<request, count, phase, from, heap, options>>
        /\ \A k \in Attempts : k # j => config'[k] = config[k]
    BY <1>7 DEF EditData, Edit, TypeOK
  <2>2. count # 0 => count \in Attempts /\ from[count] \in Attempts \cup {0}
    BY BoundsAssumption DEF TypeOK, Attempts
  <2> QED BY <2>1, <2>2 DEF Inv, Replaying
<1>8. ASSUME NEW name \in Names, NEW value \in NewValues, EditOptions(name, value)
      PROVE  Replaying'
  <2>1. (phase' = "ready" /\ count' \in edited') \/ phase' = "settled"
    BY <1>8 DEF EditOptions
  <2> QED BY <2>1 DEF Replaying
<1>9. ASSUME UNCHANGED vars
      PROVE  Replaying'
  BY <1>9 DEF vars, Inv, Replaying
<1>10. ASSUME NEW p \in Parts, ChangeInPlace(p)
       PROVE  Replaying'
  BY <1>10, InPlace DEF Inv, Replaying
<1> QED BY <1>10, <1>1, <1>2, <1>3, <1>4, <1>5, <1>6, <1>7, <1>8, <1>9 DEF Next

\* What was replayed stays replayed; sending the last attempt replays one more.
LEMMA ReplayedStep ==
  ASSUME TypeOK, TypeOK', Inv, [Next]_vars
  PROVE  Replayed'
<1>1. ASSUME UNCHANGED <<request, wire>>, edited \subseteq edited',
             \A n \in Attempts : wire[n] # NotSent => from'[n] = from[n]
      PROVE  Replayed'
  BY <1>1 DEF Inv, Replayed, Replays
<1>2. ASSUME NEW source \in Sources, BuildAxiosConfig(source) \/ NormalizeAxiosRequest(source)
      PROVE  Replayed'
  <2>1. Subscribe(source)
    BY <1>2 DEF BuildAxiosConfig, NormalizeAxiosRequest
  <2>2. \A n \in Attempts : wire[n] # NotSent => from'[n] = from[n]
    BY <2>1, Subscribing DEF TypeOK
  <2> QED BY <1>1, <2>1, <2>2, Subscribing
<1>3. ASSUME Dispatch
      PROVE  Replayed'
  <2> DEFINE k == from[count]
             merged == MergeHeaders(request.defaults, heap[k])
  <2>1. /\ count \in Attempts /\ phase = "ready" /\ phase' = "sent"
        /\ UNCHANGED <<request, count, from, edited>>
        /\ \A n \in Attempts : n # count => wire'[n] = wire[n]
    BY <1>3, BoundsAssumption DEF Dispatch, TypeOK, Attempts
  <2>2. wire'[count].body = options.body
        /\ wire'[count].headers = Sent(options.headers, options.body)
    BY <1>3, <2>1 DEF Dispatch, TypeOK
  <2>3. ASSUME k \in Attempts, {count, k} \cap edited = {}, ~request.transform
        PROVE  /\ wire'[count].body = wire'[k].body
               /\ \A name \in Names : request.headers[name] # Off =>
                    wire'[count].headers[name] = wire'[k].headers[name]
    <3>1. k < count /\ k # count /\ wire'[k] = wire[k] /\ Settled(k) /\ k # 0
      BY <2>1, <2>3 DEF Inv, Order, Settled, Attempts
    <3>2. options.body = config[k].data /\ options.headers = merged
      BY <2>1, <2>3, <3>1 DEF Inv, Replaying, Attempts
    <3>3. /\ wire[k].body = config[k].data /\ wire[k].headers = Sent(heap[k], config[k].data)
          /\ Merged(heap[k])
      BY <2>3, <3>1 DEF Inv, Shows, Whole
    <3>4. merged \in HeaderMaps /\ heap[k] \in HeaderMaps /\ options.body \in Data
      BY <2>3, DefaultsTyped, HeadersType DEF TypeOK
    <3>5. ASSUME NEW name \in Names, request.headers[name] # Off
          PROVE  merged[name] = heap[k][name]
      BY <3>3, <3>5 DEF MergeHeaders, Merged, NoOff
    <3>6. ASSUME NEW name \in Names, request.headers[name] # Off
          PROVE  Sent(merged, options.body)[name] = Sent(heap[k], options.body)[name]
      BY <3>4, <3>5, <3>6 DEF Sent, SetHeaderIfMissing, SetIn, HeaderMaps, Names
    <3> QED BY <2>2, <3>1, <3>2, <3>3, <3>6
  <2>4. ASSUME NEW n \in Attempts, NEW m \in Attempts, Replays(n, m)', ~request'.transform
        PROVE  /\ wire'[n].body = wire'[m].body
               /\ \A name \in Names : request'.headers[name] # Off =>
                    wire'[n].headers[name] = wire'[m].headers[name]
    <3>1. CASE n = count
      BY <2>1, <2>3, <2>4, <3>1 DEF Replays
    <3>2. CASE n # count
      <4>1. wire[n] # NotSent /\ from[n] = m
        BY <2>1, <2>4, <3>2 DEF Replays
      <4>2. n < count /\ m < n
        BY <2>1, <3>2, <4>1 DEF Inv, Order, Attempts
      <4>3. m # count /\ Replays(n, m)
        BY <2>1, <2>4, <4>1, <4>2 DEF Replays, Attempts
      <4> QED BY <2>1, <2>4, <3>2, <4>3 DEF Inv, Replayed
    <3> QED BY <3>1, <3>2
  <2> QED BY <2>4 DEF Replayed
<1>4. ASSUME SerializeAxiosConfig \/ Settle
      PROVE  Replayed'
  BY <1>1, <1>4 DEF SerializeAxiosConfig, Settle
<1>5. ASSUME NEW j \in Attempts, Edit(j), UNCHANGED <<request, wire, from>>
      PROVE  Replayed'
  BY <1>1, <1>5 DEF Edit
<1>6. ASSUME NEW name \in Names, NEW value \in NewValues, EditOptions(name, value)
      PROVE  Replayed'
  BY <1>1, <1>6 DEF EditOptions
<1>7. ASSUME UNCHANGED vars
      PROVE  Replayed'
  BY <1>1, <1>7 DEF vars
<1>8. ASSUME NEW j \in Attempts, NEW name \in Names, NEW value \in NewValues \cup {Absent, Off},
             NEW rewrite \in BOOLEAN, EditHeader(j, name, value, rewrite)
      PROVE  Replayed'
  BY <1>5, <1>8 DEF EditHeader, Edit
<1>9. ASSUME NEW j \in Attempts, NEW data \in NewData, EditData(j, data)
      PROVE  Replayed'
  BY <1>5, <1>9 DEF EditData, Edit
<1>10. ASSUME NEW p \in Parts, ChangeInPlace(p)
       PROVE  Replayed'
  BY <1>1, <1>10, InPlace
<1> QED BY <1>10, <1>2, <1>3, <1>4, <1>6, <1>7, <1>8, <1>9 DEF Next

LEMMA InvStep == TypeOK /\ TypeOK' /\ Held /\ Inv /\ [Next]_vars => Inv'
  BY OrderStep, StreamsStep, PreparedStep, ShowsStep, ReplayingStep, ReplayedStep DEF Inv

\* What is sent of the call's data and params: what was in them at the
\* subscription, or what the attempt it replays sent, unless they were changed
\* in place since, and so the config with them.
Shared ==
  /\ \A n \in Attempts, p \in Parts :
       n \notin edited /\ <<n, p>> \in holds => told[n][p] = contents[p]
  /\ \A n \in Attempts \ edited : n <= count /\ from[n] = 0 => told[n] = since[n]
  /\ \A n \in Attempts \ edited : n <= count /\ from[n] # 0 /\ from[n] \notin edited =>
       told[n] = told[from[n]]

\* What is still held has the contents it had: telling them tells nothing new.
LEMMA TellsTheSame ==
  ASSUME ContentsOK, Shared, NEW parts, NEW n \in Attempts, n \notin edited
  PROVE  Tell(parts)[n] = told[n]
<1> DEFINE new == [p \in Parts |-> IF p \in parts /\ <<count, p>> \in holds THEN contents[p]
                                  ELSE told[count][p]]
<1>1. Tell(parts) = [told EXCEPT ![count] = new]
  BY DEF Tell
<1>2. ASSUME n = count
      PROVE  new = told[count]
  <2>1. \A p \in Parts : new[p] = told[count][p]
    BY <1>2 DEF Shared
  <2>2. told[count] \in [Parts -> Nat]
    BY <1>2 DEF ContentsOK
  <2> QED BY <2>1, <2>2
<1> HIDE DEF new
<1> QED BY <1>1, <1>2 DEF ContentsOK

LEMMA SharedStep ==
  ASSUME TypeOK, TypeOK', Held, Inv, Shared, [Next]_vars
  PROVE  Shared'
<1> USE DEF ContentsOK
<1>0. ContentsOK /\ count \in Nat /\ \A n \in Attempts : n \in Nat
  BY DEF TypeOK, Attempts
<1>1. ASSUME NEW source \in Sources, BuildAxiosConfig(source) \/ NormalizeAxiosRequest(source)
      PROVE  Shared'
  <2> DEFINE n == count + 1
             new == [p \in Parts |-> IF source = 0 \/ p \in Kept(source) THEN contents[p]
                                    ELSE told[source][p]]
  <2>1. Subscribe(source)
    BY <1>1 DEF BuildAxiosConfig, NormalizeAxiosRequest
  <2>2. /\ n \in Attempts /\ count' = n /\ UNCHANGED <<edited, contents>>
        /\ from'[n] = source /\ source < n /\ (source # 0 => source \in Attempts)
    BY <2>1, Subscribing DEF Subscribe
  <2>3. \A j \in Attempts : j # n => from'[j] = from[j] /\ told'[j] = told[j] /\ since'[j] = since[j]
    BY <1>0, <2>1 DEF Subscribe, TypeOK
  <2>4. told'[n] = new /\ since'[n] = contents
    BY <1>0, <2>1, <2>2 DEF Subscribe
  <2>5. \A j \in Attempts, p \in Parts : <<j, p>> \in holds' =>
          (<<j, p>> \in holds /\ j # n) \/ (j = n /\ p \in Kept(source))
    BY <1>0, <1>1, <2>2 DEF BuildAxiosConfig, NormalizeAxiosRequest, Encoding, Held
  <2>6. ASSUME NEW p \in Kept(source)
        PROVE  new[p] = contents[p]
    BY <2>6 DEF Kept
  <2>7. ASSUME source = 0
        PROVE  new = contents
    BY <1>0, <2>7
  <2>8. ASSUME source # 0, source \notin edited
        PROVE  new = told[source]
    <3>1. \A p \in Kept(source) : p \in Parts /\ <<source, p>> \in holds
      BY <2>8 DEF Kept
    <3>2. \A p \in Parts : new[p] = told[source][p]
      BY <2>2, <2>8, <3>1 DEF Shared
    <3>3. told[source] \in [Parts -> Nat]
      BY <1>0, <2>2, <2>8
    <3> QED BY <3>2, <3>3
  <2> HIDE DEF new
  <2>9. \A j \in Attempts, p \in Parts :
          j \notin edited' /\ <<j, p>> \in holds' => told'[j][p] = contents'[p]
    BY <2>2, <2>3, <2>4, <2>5, <2>6 DEF Shared
  <2>10. \A j \in Attempts \ edited' : j <= count' /\ from'[j] = 0 => told'[j] = since'[j]
    BY <1>0, <2>2, <2>3, <2>4, <2>7 DEF Shared
  <2>11. ASSUME NEW j \in Attempts \ edited', j <= count', from'[j] # 0, from'[j] \notin edited'
         PROVE  told'[j] = told'[from'[j]]
    <3>1. CASE j = n
      BY <1>0, <2>2, <2>3, <2>4, <2>8, <2>11, <3>1
    <3>2. CASE j # n
      <4>1. j <= count /\ from'[j] = from[j] /\ j \notin edited
        BY <1>0, <2>2, <2>3, <2>11, <3>2
      <4>2. from[j] < j /\ from[j] \in Attempts
        <5>1. from[j] < j /\ from[j] # 0
          BY <2>11, <4>1 DEF Inv, Order
        <5>2. from[j] \in 0 .. MaxAttempts
          BY DEF TypeOK
        <5> QED BY <5>1, <5>2, BoundsAssumption DEF Attempts
      <4>3. from[j] # n
        BY <1>0, <4>1, <4>2
      <4> QED BY <2>2, <2>3, <2>11, <3>2, <4>1, <4>2, <4>3 DEF Shared
    <3> QED BY <3>1, <3>2
  <2> QED BY <2>9, <2>10, <2>11 DEF Shared
<1>2. ASSUME UNCHANGED <<count, contents, since, from, edited>>, NEW parts, told' = Tell(parts),
             \A n \in Attempts \ {count}, p \in Parts : <<n, p>> \in holds' => <<n, p>> \in holds,
             \A p \in Parts : <<count, p>> \in holds' => <<count, p>> \in holds
      PROVE  Shared'
  <2>1. \A n \in Attempts \ edited : told'[n] = told[n]
    BY <1>0, <1>2, TellsTheSame
  <2>2. \A n \in Attempts : n <= count /\ from[n] # 0 => from[n] \in Attempts
    BY <1>0, BoundsAssumption DEF TypeOK, Attempts
  <2> QED BY <1>2, <2>1, <2>2 DEF Shared
<1>3. ASSUME SerializeAxiosConfig
      PROVE  Shared'
  BY <1>2, <1>3 DEF SerializeAxiosConfig, Encoding
<1>4. ASSUME Dispatch
      PROVE  Shared'
  BY <1>2, <1>4 DEF Dispatch
<1>5. ASSUME UNCHANGED <<count, since, told, from>>, edited \subseteq edited',
             holds' \subseteq holds,
             \A n \in Attempts, p \in Parts :
               n \notin edited' /\ <<n, p>> \in holds' => contents'[p] = contents[p]
      PROVE  Shared'
  BY <1>5 DEF Shared
<1>6. ASSUME Settle \/ UNCHANGED vars
      PROVE  Shared'
  BY <1>5, <1>6 DEF Settle, vars
<1>7. ASSUME NEW p \in Parts, ChangeInPlace(p)
      PROVE  Shared'
  <2>1. \A q \in Parts : q # p => contents'[q] = contents[q]
    BY <1>0, <1>7 DEF ChangeInPlace
  <2> QED BY <1>5, <1>7, <2>1, InPlace
<1>8. ASSUME NEW j \in Attempts, NEW name, NEW value, NEW rewrite, EditHeader(j, name, value, rewrite)
      PROVE  Shared'
  BY <1>5, <1>8 DEF EditHeader, Edit
<1>9. ASSUME NEW j \in Attempts, NEW data, EditData(j, data)
      PROVE  Shared'
  BY <1>5, <1>9 DEF EditData, Edit
<1>10. ASSUME NEW name, NEW value, EditOptions(name, value)
       PROVE  Shared'
  BY <1>5, <1>10 DEF EditOptions
<1> QED BY <1>1, <1>3, <1>4, <1>6, <1>7, <1>8, <1>9, <1>10 DEF Next

\* The invariant is what the two properties say, and more.
LEMMA InvImplies ==
  ASSUME TypeOK, Inv, Shared
  PROVE  ConfigShowsWhatWasSent /\ ReplayRepeatsTheRequest
<1>1. ASSUME NEW n \in Attempts, Settled(n), n \notin edited
      PROVE  /\ config[n].data = wire[n].body
             /\ wire[n].headers = Sent(ToJSON(heap[config[n].headers]), wire[n].body)
  <2>1. HasConfig(n)
    BY <1>1 DEF Settled, Inv, Order, TypeOK, HasConfig
  <2>2. config[n].headers = n
    BY <2>1 DEF Inv, Order
  <2>3. wire[n].body = config[n].data /\ wire[n].headers = Sent(heap[n], config[n].data)
        /\ NoOff(heap[n])
    BY <1>1 DEF Inv, Shows, Whole, Merged
  <2>4. ToJSON(heap[n]) = heap[n]
    BY <2>3, ToJSONNoOff DEF TypeOK
  <2> QED BY <2>2, <2>3, <2>4
<1>2. ASSUME NEW n \in Attempts, NEW k \in Attempts, Replays(n, k), wire[n].body.kind # "stream"
      PROVE  wire[n].fresh
  BY <1>2 DEF Inv, Streams, Replays
<1>3. ASSUME NEW n \in Attempts, NEW k \in Attempts, Replays(n, k)
      PROVE  told[n] = told[k]
  <2>1. n <= count
    BY <1>3 DEF Replays, Inv, Order, TypeOK, Attempts
  <2> QED BY <1>3, <2>1 DEF Replays, Shared
<1>4. ReplayRepeatsTheRequest
  BY <1>2, <1>3 DEF ReplayRepeatsTheRequest, Inv, Replayed
<1> QED BY <1>1, <1>4 DEF ConfigShowsWhatWasSent

LEMMA Invariance == Spec => []Inv
<1>1. Init => Inv
  BY InvInit
<1>2. TypeOK /\ TypeOK' /\ Held /\ Inv /\ [Next]_vars => Inv'
  BY InvStep
<1> QED BY <1>1, <1>2, AlwaysTyped, AlwaysHeld, PTL DEF Spec

LEMMA AlwaysShared == Spec => []Shared
<1>1. Init => Shared
  BY BoundsAssumption DEF Init, Shared, Attempts
<1>2. TypeOK /\ TypeOK' /\ Held /\ Inv /\ Shared /\ [Next]_vars => Shared'
  BY SharedStep
<1> QED BY <1>1, <1>2, AlwaysTyped, AlwaysHeld, Invariance, PTL DEF Spec

\* THEOREM: a config nobody changed shows what its own attempt was sent with,
\* however often the request is sent, by either route, and whatever is done to
\* other configs (serializeAxiosConfig, captureLazyConfigSeed).
THEOREM ConfigAlwaysShows == Spec => []ConfigShowsWhatWasSent
<1>1. TypeOK /\ Inv /\ Shared => ConfigShowsWhatWasSent
  BY InvImplies
<1> QED BY <1>1, AlwaysTyped, Invariance, AlwaysShared, PTL

\* THEOREM: a replay of a config nobody changed sends the same body, and the
\* same headers but for those the caller withheld, over any number of replays
\* of replays.
THEOREM ReplaysRepeat == Spec => []ReplayRepeatsTheRequest
<1>1. TypeOK /\ Inv /\ Shared => ReplayRepeatsTheRequest
  BY InvImplies
<1> QED BY <1>1, AlwaysTyped, Invariance, AlwaysShared, PTL

-----------------------------------------------------------------------------
(***************************************************************************)
(* Labels.                                                                 *)
(***************************************************************************)

\* Data of the application's, and what data is encoded to.
Raw(data) ==
  /\ data.kind \in {"package", "undici"} => data.as = "multipart"
  /\ data.kind \in {"text", "blob", "emptyBlob", "bytes", "stream"} => data.as = "raw"
Coded(body) ==
  /\ Final(body)
  /\ body.kind = "undici" => body.as = "multipart"
  /\ body.kind = "blob" => body.as = "raw"

\* A Content-Type nobody chose, and data it may stand by in a config: none yet,
\* or the one the data was given when it was encoded.
Fits(v, data) ==
  \/ v = Absent /\ Raw(data)
  \/ v = LabelOf(data) /\ Coded(data)

\* In a request: the data's own, unless undici will see to it.
Fitted(v, body) ==
  /\ Coded(body)
  /\ v = LabelOf(body) \/ (body.kind = "undici" /\ v = Absent)

LEMMA LabelsDiffer ==
  /\ \A type \in Types \ {"absent"} : Value(type) # Absent
  /\ \A type \in Types \ {"off"} : Value(type) # Off
  /\ \A b : Multipart(b) # Absent /\ Multipart(b) # Off
  /\ \A body : LabelOf(body) # Off
  /\ Absent # Off
<1>1. /\ \A type \in Types \ {"absent"} : Value(type) # Absent
      /\ \A type \in Types \ {"off"} : Value(type) # Off
      /\ \A b : Multipart(b) # Absent /\ Multipart(b) # Off
      /\ Absent # Off
  BY DEF Types, Value, Absent, Off, Multipart
<1>2. \A body : LabelOf(body) # Off
  BY <1>1 DEF LabelOf, Types
<1> QED BY <1>1, <1>2

LEMMA SetContentType ==
  ASSUME NEW h \in HeaderMaps, NEW v \in Values
  PROVE  /\ SetHeaderIfMissing(h, ContentType, v) \in HeaderMaps
         /\ SetHeaderIfMissing(h, ContentType, v)[ContentType]
              = IF h[ContentType] = Absent THEN v ELSE h[ContentType]
         /\ SetIn(h, ContentType, v, TRUE) \in HeaderMaps
         /\ SetIn(h, ContentType, v, TRUE)[ContentType] = v
<1>1. SetHeaderIfMissing(h, ContentType, v)
        = IF h[ContentType] = Absent THEN [h EXCEPT ![ContentType] = v] ELSE h
  BY DEF SetHeaderIfMissing, SetIn
<1>2. SetIn(h, ContentType, v, TRUE) = [h EXCEPT ![ContentType] = v]
  BY DEF SetIn
<1>3. [h EXCEPT ![ContentType] = v] \in HeaderMaps /\ [h EXCEPT ![ContentType] = v][ContentType] = v
  BY ValueType DEF Names, HeaderMaps
<1> QED BY <1>1, <1>2, <1>3

\* Nothing but data sees to the Content-Type.
LEMMA ContentTypeKept ==
  ASSUME NEW h \in HeaderMaps
  PROVE  /\ \A auth : WithCredentials(h, auth)[ContentType] = h[ContentType]
         /\ h[ContentType] # Off => ToJSON(h)[ContentType] = h[ContentType]
  BY DEF WithCredentials, SetIn, HeaderMaps, Names, ContentType, Authorization, ToJSON

\* Encoding and labelling leave a Content-Type that fits.
LEMMA LabelFits ==
  ASSUME TypeOK, ~request.transform, NEW h \in HeaderMaps, NEW data \in Data,
         Fits(h[ContentType], data), NEW n \in Nat
  PROVE  LET made == SerializeRequestData(h, data, n)
         IN  Fitted(made.headers[ContentType], made.body)
<1> DEFINE type == h[ContentType].type
           body == Encoded(data, type, n)
           w == Labelled(h, data, body, request.method, n)
           Last(own) == IF request.method = "post" /\ body.kind # "undici"
                        THEN SetHeaderIfMissing(own, ContentType, Value("urlencoded")) ELSE own
           Said(v) == IF request.method = "post" /\ body.kind # "undici" /\ v = Absent
                      THEN Value("urlencoded") ELSE v
<1> SUFFICES Fitted(w[ContentType], body)
  BY DEF SerializeRequestData
<1>1. ASSUME NEW own \in HeaderMaps, w = Last(own)
      PROVE  w[ContentType] = Said(own[ContentType])
  <2>1. Value("urlencoded") \in Values
    BY ValueType DEF Types
  <2> HIDE DEF w, body
  <2> QED BY <1>1, <2>1, SetContentType
<1>2. \A v \in Values : SetHeaderIfMissing(h, ContentType, v) \in HeaderMaps
                        /\ SetIn(h, ContentType, v, TRUE) \in HeaderMaps
  BY SetContentType
<1>3. /\ \A t \in {"json", "urlencoded", "blob"} : Value(t) \in Values /\ Value(t) # Absent
      /\ \A b \in Nat : Multipart(b) \in Values /\ Multipart(b) # Absent
      /\ data.boundary \in Nat
  BY ValueType, LabelsDiffer DEF Types, Data
<1>4. CASE h[ContentType] = Absent /\ Raw(data)
  <2>1. type = "absent"
    BY <1>4 DEF Absent, Value
  <2>2. \A v \in Values : SetHeaderIfMissing(h, ContentType, v)[ContentType] = v
                          /\ SetIn(h, ContentType, v, TRUE)[ContentType] = v
    BY <1>4, SetContentType
  <2>3. CASE data.kind \in {"none", "falsy"}
    <3>1. body = Nothing
      BY <2>3 DEF Encoded, IsForm
    <3>2. w = Last(h)
      BY <2>1, <2>3 DEF Labelled, IsForm
    <3>3. w[ContentType] = Said(Absent)
      BY <1>1, <1>4, <3>2
    <3>4. Coded(body) /\ body.kind = "none" /\ body.as = "nothing"
      BY <3>1 DEF Coded, Final, Nothing, Datum
    <3> HIDE DEF body, w
    <3> QED BY <3>3, <3>4 DEF Fitted, LabelOf
  <2>4. CASE data.kind = "form"
    <3>1. body = Datum("stream", "multipart", n, n)
      BY <2>1, <2>4 DEF Encoded, IsForm
    <3>2. Coded(body) /\ body.kind = "stream" /\ body.as = "multipart" /\ body.boundary = n
      BY <3>1 DEF Coded, Final, Datum
    <3>3. w = Last(FormLabel(h, n))
      BY <2>4, <3>2 DEF Labelled, IsForm
    <3>4. FormLabel(h, n) \in HeaderMaps /\ FormLabel(h, n)[ContentType] = Multipart(n)
      <4>1. h[ContentType].boundary = 0
        BY <1>4 DEF Absent, Value
      <4>2. FormLabel(h, n) = SetIn(h, ContentType, Multipart(n), TRUE)
        BY <4>1 DEF FormLabel, SetIn
      <4> QED BY <1>2, <1>3, <2>2, <4>2
    <3>5. w[ContentType] = Multipart(n)
      BY <1>1, <1>3, <3>3, <3>4
    <3> HIDE DEF body, w
    <3> QED BY <3>2, <3>5 DEF Fitted, LabelOf
  <2>5. CASE data.kind = "package"
    <3>1. body = [data EXCEPT !.kind = "stream"]
      BY <2>1, <2>5 DEF Encoded, IsForm
    <3>2. body.kind = "stream" /\ body.as = "multipart" /\ body.boundary = data.boundary
      BY <1>4, <2>5, <3>1 DEF Raw, Data
    <3>3. w = Last(SetHeaderIfMissing(h, ContentType, Multipart(data.boundary)))
      BY <2>5, <3>2 DEF Labelled, IsForm
    <3>4. w[ContentType] = Multipart(data.boundary)
      BY <1>1, <1>2, <1>3, <2>2, <3>3
    <3> HIDE DEF body, w
    <3> QED BY <3>2, <3>4 DEF Fitted, LabelOf, Coded, Final
  <2>6. CASE data.kind = "params"
    <3>1. body = Text("urlencoded")
      BY <2>1, <2>6 DEF Encoded, IsForm
    <3>2. body.kind = "text" /\ body.as = "urlencoded"
      BY <3>1 DEF Text, Datum
    <3>3. w = Last(SetHeaderIfMissing(h, ContentType, Value("urlencoded")))
      BY <2>6, <3>2 DEF Labelled, IsForm
    <3>4. w[ContentType] = Value("urlencoded")
      BY <1>1, <1>2, <1>3, <2>2, <3>3
    <3> HIDE DEF body, w
    <3> QED BY <3>2, <3>4 DEF Fitted, LabelOf, Coded, Final
  <2>7. CASE data.kind = "object"
    <3>1. body = Text("json")
      BY <2>1, <2>7 DEF Encoded, IsForm
    <3>2. body.kind = "text" /\ body.as = "json"
      BY <3>1 DEF Text, Datum
    <3>3. w = Last(SetHeaderIfMissing(h, ContentType, Value("json")))
      BY <2>1, <2>7, <3>2 DEF Labelled, IsForm
    <3>4. w[ContentType] = Value("json")
      BY <1>1, <1>2, <1>3, <2>2, <3>3
    <3> HIDE DEF body, w
    <3> QED BY <3>2, <3>4 DEF Fitted, LabelOf, Coded, Final
  <2>8. CASE data.kind = "blob"
    <3>1. body = data
      BY <2>1, <2>8 DEF Encoded, IsForm
    <3>2. body.kind = "blob" /\ body.as = "raw"
      BY <1>4, <2>8, <3>1 DEF Raw
    <3>3. w = Last(SetIn(h, ContentType, Value("blob"), TRUE))
      BY <2>8 DEF Labelled, IsForm
    <3>4. w[ContentType] = Value("blob")
      BY <1>1, <1>2, <1>3, <2>2, <3>3
    <3> HIDE DEF body, w
    <3> QED BY <3>2, <3>4 DEF Fitted, LabelOf, Coded, Final
  <2>9. CASE data.kind \in {"text", "undici", "emptyBlob", "bytes", "stream"}
    <3>1. body = data
      BY <2>1, <2>9 DEF Encoded, IsForm
    <3>2. /\ body.kind = data.kind
          /\ body.kind = "undici" => body.as = "multipart"
          /\ body.kind # "undici" => body.as = "raw"
      BY <1>4, <2>9, <3>1 DEF Raw
    <3>3. w = Last(h)
      BY <2>1, <2>9 DEF Labelled, IsForm
    <3>4. w[ContentType] = Said(Absent)
      BY <1>1, <1>4, <3>3
    <3> HIDE DEF body, w
    <3> QED BY <2>9, <3>2, <3>4 DEF Fitted, LabelOf, Coded, Final
  <2> QED BY <2>3, <2>4, <2>5, <2>6, <2>7, <2>8, <2>9 DEF Data, Kinds
<1>5. CASE h[ContentType] = LabelOf(data) /\ Coded(data)
  <2>1. body = data
    BY <1>5, EncodedOnce DEF Coded
  <2>2. CASE data.kind = "blob"
    <3>1. w = Last(SetIn(h, ContentType, Value("blob"), TRUE))
      BY <2>2 DEF Labelled, IsForm
    <3>2. /\ SetIn(h, ContentType, Value("blob"), TRUE) \in HeaderMaps
          /\ SetIn(h, ContentType, Value("blob"), TRUE)[ContentType] = Value("blob")
      <4>1. Value("blob") \in Values
        BY <1>3
      <4> HIDE DEF type, body, w
      <4> QED BY <4>1, SetContentType
    <3> HIDE DEF body, w
    <3>3. w[ContentType] = Value("blob")
      BY <1>1, <1>3, <3>1, <3>2
    <3> QED BY <1>5, <2>1, <2>2, <3>3 DEF Fitted, LabelOf, Coded
  <2>3. CASE data.kind # "blob"
    <3>1. data.kind \notin {"form", "object", "package", "params"}
      BY <1>5 DEF Coded, Final
    <3>2. w = Last(h)
      BY <2>3, <3>1 DEF Labelled, IsForm
    <3>3. w[ContentType] = Said(LabelOf(data))
      BY <1>1, <1>5, <3>2
    <3>4. request.method = "post" => LabelOf(data) # Absent
      BY LabelsDiffer DEF LabelOf, Types
    <3> HIDE DEF body, w
    <3> QED BY <1>5, <2>1, <3>3, <3>4 DEF Fitted
  <2> QED BY <2>2, <2>3
<1> QED BY <1>4, <1>5 DEF Fits

\* What fits is sent with its label, and stands by its data in a config.
LEMMA FittedIsLabelled ==
  ASSUME TypeOK, NEW h \in HeaderMaps, NEW body \in Data, Fitted(h[ContentType], body)
  PROVE  /\ Sent(h, body)[ContentType] = LabelOf(body)
         /\ Fits(h[ContentType], body)
<1>1. Fits(h[ContentType], body)
  BY DEF Fitted, Fits, Raw, Coded
<1>2. CASE body.kind = "undici"
  <2>1. LabelOf(body) = Multipart(body.boundary)
    BY <1>2 DEF Fitted, Coded, LabelOf
  <2>2. Multipart(body.boundary) \in Values
    BY ValueType DEF Data
  <2> QED BY <1>1, <1>2, <2>1, <2>2, SetContentType DEF Sent, Fitted
<1>3. CASE body.kind # "undici"
  BY <1>1, <1>3 DEF Sent, Fitted
<1> QED BY <1>2, <1>3

\* The label of each config, and of the request being made, unless somebody
\* chose it; of a transformed body there is none.
ConfigsLabelled ==
  \A n \in Attempts \ named : HasConfig(n) =>
    /\ request.transform => heap[n][ContentType] = Absent
    /\ ~request.transform => Fits(heap[n][ContentType], config[n].data)
OptionsLabelled ==
  phase \in {"ready", "sent"} /\ count \notin named =>
    /\ request.transform => /\ options.headers[ContentType] = Absent
                            /\ options.body.kind = "text" /\ options.body.as = "transformed"
    /\ ~request.transform => Fitted(options.headers[ContentType], options.body)
LabelInv == ConfigsLabelled /\ OptionsLabelled /\ BodyKeepsItsLabel

\* Nobody chooses a Content-Type for an attempt that takes none from defaults,
\* from its headers or from the config it replays: what it starts from fits.
LEMMA StartsLabelled ==
  ASSUME TypeOK, Inv, ConfigsLabelled, NEW source \in Sources, Subscribe(source),
         count + 1 \notin named'
  PROVE  LET in == Input(source)
             v == MergeHeaders(request.defaults, in.headers)[ContentType]
         IN  /\ request.transform => v = Absent
             /\ ~request.transform => Fits(v, in.data)
<1> DEFINE in == Input(source)
           v == MergeHeaders(request.defaults, in.headers)[ContentType]
<1>0. ContentType \in Names
  BY DEF Names
<1>1. CASE source = 0
  <2>1. in = Given /\ v = Absent
    BY <1>1 DEF Input, Subscribe, Given
  <2>2. Raw(in.data)
    <3>1. Raw(request.data) /\ Raw(Datum("form", "fields", 0, 0))
      BY ContentsAssumption DEF TypeOK, Raw, Datum
    <3> QED BY <2>1, <3>1 DEF Given, BuildFormRequestConfig
  <2> QED BY <2>1, <2>2 DEF Fits
<1>2. CASE source # 0
  <2>1. /\ source \in Attempts /\ in.data = config[source].data
        /\ in.headers = ToJSON(heap[source]) /\ heap[source] \in HeaderMaps
    BY <1>2, Subscribing, Starting DEF TypeOK
  <2>2. HasConfig(source)
    BY <1>2 DEF Sources, HasConfig
  <2>3. source \notin named /\ request.defaults[ContentType] = Absent
    BY <1>2 DEF Subscribe
  <2>4. /\ request.transform => heap[source][ContentType] = Absent
        /\ ~request.transform => Fits(heap[source][ContentType], config[source].data)
    BY <2>1, <2>2, <2>3 DEF ConfigsLabelled
  <2>5. heap[source][ContentType] # Off
    BY <2>4, LabelsDiffer DEF Fits
  <2>6. in.headers[ContentType] = heap[source][ContentType]
    BY <2>1, <2>5, ContentTypeKept
  <2>7. v = heap[source][ContentType]
    BY <1>0, <2>3, <2>5, <2>6 DEF MergeHeaders
  <2> QED BY <2>1, <2>4, <2>7
<1> QED BY <1>1, <1>2

LEMMA LabelInit == Init => LabelInv
  BY DEF Init, LabelInv, ConfigsLabelled, OptionsLabelled, BodyKeepsItsLabel, HasConfig

\* Labels stay, through both routes, replays and changes.
LEMMA LabelStep ==
  ASSUME TypeOK, TypeOK', Inv, Inv', LabelInv, [Next]_vars
  PROVE  LabelInv'
<1> USE DEF LabelInv
<1>0. /\ ContentType \in Names /\ Absent # Off
      /\ \A g \in HeaderMaps : \A auth : WithCredentials(g, auth)[ContentType] = g[ContentType]
  BY ContentTypeKept, LabelsDiffer DEF Names
<1>1. ASSUME NEW source \in Sources, BuildAxiosConfig(source)
      PROVE  LabelInv'
  <2> DEFINE in == Input(source)
             n == count + 1
             merged == MergeHeaders(request.defaults, in.headers)
             h == WithCredentials(merged, IF in.auth = "config" THEN "config" ELSE "none")
  <2>1. /\ Subscribe(source) /\ phase' = "intercepting" /\ phase \in {"idle", "settled"}
        /\ config' = [config EXCEPT ![n] = [in EXCEPT !.headers = n]]
        /\ heap' = [heap EXCEPT ![n] = h]
    BY <1>1 DEF BuildAxiosConfig, HeadersObject, Subscribe
  <2>2. /\ n \in Attempts /\ count' = n /\ UNCHANGED <<request, wire>> /\ wire[n] = NotSent
    BY <2>1, Subscribing
  <2>3. in \in Inputs /\ merged \in HeaderMaps
    BY <2>1, Starting
  <2>4. config'[n].data = in.data /\ heap'[n][ContentType] = merged[ContentType]
    BY <1>0, <2>1, <2>2, <2>3 DEF TypeOK, Inputs
  <2>5. n \notin named' => /\ request.transform => merged[ContentType] = Absent
                           /\ ~request.transform => Fits(merged[ContentType], in.data)
    BY <2>1, StartsLabelled
  <2>6. named \subseteq named'
    BY <2>1 DEF Subscribe
  <2>7. \A j \in Attempts : j # n => config'[j] = config[j] /\ heap'[j] = heap[j]
    BY <2>1 DEF TypeOK
  <2> HIDE DEF in, n, merged
  <2>8. ASSUME NEW j \in Attempts \ named', HasConfig(j)'
        PROVE  /\ request'.transform => heap'[j][ContentType] = Absent
               /\ ~request'.transform => Fits(heap[j][ContentType], config[j].data)'
    <3>1. CASE j = n
      <4>1. heap'[j][ContentType] = merged[ContentType] /\ config'[j].data = in.data
        BY <2>4, <3>1
      <4>2. n \notin named'
        BY <2>8, <3>1
      <4>3. /\ request.transform => heap'[j][ContentType] = Absent
            /\ ~request.transform => Fits(heap'[j][ContentType], config'[j].data)
        BY <2>5, <4>1, <4>2
      <4> QED BY <2>2, <4>3 DEF Fits, LabelOf
    <3>2. CASE j # n
      <4>1. HasConfig(j) /\ j \notin named
        BY <2>6, <2>7, <2>8, <3>2 DEF HasConfig
      <4> QED BY <2>2, <2>7, <2>8, <3>2, <4>1 DEF ConfigsLabelled, Fits, LabelOf
    <3> QED BY <3>1, <3>2
  <2>9. BodyKeepsItsLabel'
    BY <2>2, <2>6 DEF BodyKeepsItsLabel, LabelOf
  <2> QED BY <2>1, <2>8, <2>9 DEF OptionsLabelled, ConfigsLabelled
<1>2. ASSUME NEW source \in Sources, NormalizeAxiosRequest(source)
      PROVE  LabelInv'
  <2> DEFINE in == Input(source)
             n == count + 1
             merged == MergeHeaders(request.defaults, in.headers)
             h == WithCredentials(merged, in.auth)
             made == SerializeRequestData(h, in.data, n)
  <2>1. /\ Subscribe(source) /\ phase' = "ready" /\ UNCHANGED <<config, heap>>
        /\ options' = made /\ ~request.transform /\ phase \in {"idle", "settled"}
    BY <1>2, Normalising DEF NormalizeAxiosRequest, Subscribe
  <2>2. /\ n \in Attempts /\ n \in Nat /\ count' = n /\ UNCHANGED <<request, wire>> /\ ~HasConfig(n)
    BY <2>1, Subscribing DEF Attempts
  <2>3. in \in Inputs /\ merged \in HeaderMaps
    BY <2>1, Starting
  <2>4. h \in HeaderMaps /\ h[ContentType] = merged[ContentType] /\ in.data \in Data
    BY <1>0, <2>3, HeadersType DEF Inputs
  <2>5. n \notin named' => Fits(h[ContentType], in.data)
    BY <2>1, <2>4, StartsLabelled
  <2>6. named \subseteq named'
    BY <2>1 DEF Subscribe
  <2> HIDE DEF in, n, merged, h
  <2>7. n \notin named' => Fitted(made.headers[ContentType], made.body)
    BY <2>1, <2>2, <2>4, <2>5, LabelFits
  <2> HIDE DEF made
  <2>8. OptionsLabelled'
    BY <2>1, <2>2, <2>7 DEF OptionsLabelled, Fitted, LabelOf
  <2>9. ConfigsLabelled' /\ BodyKeepsItsLabel'
    BY <2>1, <2>2, <2>6 DEF ConfigsLabelled, BodyKeepsItsLabel, HasConfig, Fits, LabelOf
  <2> QED BY <2>8, <2>9
<1>3. ASSUME SerializeAxiosConfig
      PROVE  LabelInv'
  <2> DEFINE c == config[count]
             h == WithCredentials(heap[count], c.auth)
  <2>1. /\ count \in Attempts /\ HasConfig(count) /\ c \in Configs
        /\ phase = "intercepting" /\ phase' = "ready"
        /\ config' = [config EXCEPT ![count] = [c EXCEPT !.data = Serial.body]]
        /\ heap' = [heap EXCEPT ![count] = Serial.headers]
        /\ options' = [headers |-> ToJSON(Serial.headers), body |-> Serial.body]
        /\ UNCHANGED <<request, count, wire>> /\ Serial.body \in Data /\ Serial.headers \in HeaderMaps
    BY <1>3, Serialising
  <2>2. UNCHANGED named
    BY <1>3 DEF SerializeAxiosConfig
  <2>3. /\ c.data \in Data /\ count \in Nat
        /\ heap[count] \in HeaderMaps /\ h \in HeaderMaps
        /\ h[ContentType] = heap[count][ContentType]
    <3>1. heap[count] \in HeaderMaps /\ count \in Nat
      BY <2>1 DEF TypeOK
    <3>2. c.data \in Data
      BY <2>1 DEF Configs
    <3> HIDE DEF c
    <3> QED BY <1>0, <3>1, <3>2, HeadersType
  <2>4. ASSUME count \notin named, request.transform
        PROVE  /\ Serial.headers[ContentType] = Absent
               /\ Serial.body.kind = "text" /\ Serial.body.as = "transformed"
    <3>1. Serial = [body |-> Transformed(c.data), headers |-> h]
      BY <2>4 DEF Serial
    <3>2. h[ContentType] = Absent
      BY <2>1, <2>3, <2>4 DEF ConfigsLabelled
    <3> QED BY <3>1, <3>2 DEF Transformed, Datum
  <2>5. ASSUME count \notin named, ~request.transform
        PROVE  Fitted(Serial.headers[ContentType], Serial.body)
    <3>1. Serial = SerializeRequestData(h, c.data, count)
      BY <2>5 DEF Serial
    <3>2. Fits(h[ContentType], c.data)
      BY <2>1, <2>3, <2>5 DEF ConfigsLabelled
    <3> HIDE DEF h, c
    <3> QED BY <2>3, <2>5, <3>1, <3>2, LabelFits
  <2>6. count \notin named => Serial.headers[ContentType] # Off
    BY <2>4, <2>5, <1>0, LabelsDiffer DEF Fitted
  <2>7. count \notin named => options'.headers[ContentType] = Serial.headers[ContentType]
    BY <2>1, <2>6, ContentTypeKept
  <2>8. config'[count].data = Serial.body /\ heap'[count] = Serial.headers /\ options'.body = Serial.body
    BY <2>1 DEF TypeOK, Configs
  <2>9. \A j \in Attempts : j # count => config'[j] = config[j] /\ heap'[j] = heap[j]
    BY <2>1 DEF TypeOK
  <2> HIDE DEF c, h
  <2>10. count \notin named /\ ~request.transform => Fits(Serial.headers[ContentType], Serial.body)
    BY <2>1, <2>5, FittedIsLabelled
  <2>11. OptionsLabelled'
    BY <2>1, <2>2, <2>4, <2>5, <2>7, <2>8 DEF OptionsLabelled, Fitted, LabelOf
  <2>12. ConfigsLabelled'
    BY <2>1, <2>2, <2>4, <2>8, <2>9, <2>10 DEF ConfigsLabelled, HasConfig, Fits, LabelOf
  <2>13. BodyKeepsItsLabel'
    BY <2>1, <2>2 DEF BodyKeepsItsLabel, LabelOf
  <2> QED BY <2>11, <2>12, <2>13
<1>4. ASSUME Dispatch
      PROVE  LabelInv'
  <2>1. /\ count \in Attempts /\ phase = "ready" /\ phase' = "sent"
        /\ UNCHANGED <<request, count, config, heap, options, named>>
        /\ wire' = [wire EXCEPT ![count] =
                      [headers |-> Sent(options.headers, options.body), body |-> options.body,
                       fresh |-> options.body.stream \notin spent]]
    BY <1>4, BoundsAssumption DEF Dispatch, TypeOK, Attempts
  <2>2. /\ wire'[count].headers = Sent(options.headers, options.body)
        /\ wire'[count].body = options.body
        /\ \A j \in Attempts : j # count => wire'[j] = wire[j]
    BY <2>1 DEF TypeOK
  <2>3. options.headers \in HeaderMaps /\ options.body \in Data
    BY DEF TypeOK
  <2>4. count \notin named => Sent(options.headers, options.body)[ContentType] = LabelOf(options.body)
    <3>1. CASE request.transform
      BY <2>1, <3>1 DEF OptionsLabelled, Sent, LabelOf
    <3>2. CASE ~request.transform
      BY <2>1, <2>3, <3>2, FittedIsLabelled DEF OptionsLabelled
    <3> QED BY <3>1, <3>2
  <2>5. BodyKeepsItsLabel'
    BY <2>1, <2>2, <2>4 DEF BodyKeepsItsLabel, LabelOf
  <2> QED BY <2>1, <2>5 DEF ConfigsLabelled, OptionsLabelled, HasConfig, Fits, Fitted, LabelOf
<1>5. ASSUME Settle
      PROVE  LabelInv'
  <2>1. phase = "sent" /\ phase' = "settled" /\ UNCHANGED <<request, count, wire, named>>
        /\ count \in Attempts
    BY <1>5, BoundsAssumption DEF Settle, TypeOK, Attempts
  <2>2. CASE HasConfig(count)
    BY <1>5, <2>1, <2>2 DEF Settle, HasConfig, ConfigsLabelled, OptionsLabelled, BodyKeepsItsLabel, Fits, LabelOf
  <2>3. CASE ~HasConfig(count)
    <3>1. /\ config'[count].data = options.body /\ heap'[count] = options.headers
          /\ \A j \in Attempts : j # count => config'[j] = config[j] /\ heap'[j] = heap[j]
      BY <1>5, <2>1, <2>3 DEF Settle, HasConfig, TypeOK
    <3>2. ~request.transform
      BY <2>1, <2>3 DEF Inv, Order
    <3>3. count \notin named => Fits(options.headers[ContentType], options.body)
      BY <2>1, <3>2, FittedIsLabelled DEF OptionsLabelled, TypeOK
    <3>4. ConfigsLabelled'
      BY <2>1, <3>1, <3>2, <3>3 DEF ConfigsLabelled, HasConfig, Fits, LabelOf
    <3> QED BY <2>1, <3>4 DEF OptionsLabelled, BodyKeepsItsLabel, LabelOf
  <2> QED BY <2>2, <2>3
<1>6. ASSUME NEW j \in Attempts, NEW name \in Names, NEW value \in NewValues \cup {Absent, Off},
             NEW rewrite \in BOOLEAN, EditHeader(j, name, value, rewrite)
      PROVE  LabelInv'
  <2>1. /\ UNCHANGED <<request, count, phase, wire, config, options>> /\ named \subseteq named'
        /\ name = ContentType => j \in named'
        /\ HasConfig(j)
    BY <1>6 DEF EditHeader, Edit, HasConfig
  <2>2. heap' = [heap EXCEPT ![j] = SetIn(heap[j], name, value, rewrite)]
    BY <1>6, <2>1 DEF EditHeader, Inv, Order
  <2>3. name # ContentType => SetIn(heap[j], name, value, rewrite)[ContentType] = heap[j][ContentType]
    BY <1>0 DEF SetIn, TypeOK, HeaderMaps
  <2>4. \A k \in Attempts \ named' : heap'[k][ContentType] = heap[k][ContentType]
    BY <2>1, <2>2, <2>3 DEF TypeOK
  <2>5. ConfigsLabelled'
    BY <2>1, <2>4 DEF ConfigsLabelled, HasConfig, Fits, LabelOf
  <2> QED BY <2>1, <2>5 DEF OptionsLabelled, BodyKeepsItsLabel, Fitted, LabelOf
<1>7. ASSUME NEW j \in Attempts, NEW data \in NewData, EditData(j, data)
      PROVE  LabelInv'
  <2>1. /\ UNCHANGED <<request, count, phase, wire, heap, options>> /\ named \subseteq named'
        /\ HasConfig(j) /\ config' = [config EXCEPT ![j] = [config[j] EXCEPT !.data = data]]
    BY <1>7 DEF EditData, Edit, HasConfig
  <2>2. config[j].headers = j /\ config[j] \in Configs
    BY <2>1 DEF Inv, Order, TypeOK, HasConfig
  <2>3. heap[j][ContentType] = Absent \/ j \in named'
    BY <1>7, <2>2 DEF EditData
  <2>4. Raw(data)
    BY ContentsAssumption DEF Raw
  <2>5. config'[j].data = data /\ \A k \in Attempts : k # j => config'[k] = config[k]
    BY <2>1, <2>2 DEF TypeOK, Configs
  <2>6. ConfigsLabelled'
    BY <2>1, <2>3, <2>4, <2>5 DEF ConfigsLabelled, HasConfig, Fits, LabelOf
  <2> QED BY <2>1, <2>6 DEF OptionsLabelled, BodyKeepsItsLabel, Fitted, LabelOf
<1>8. ASSUME NEW name \in Names, NEW value \in NewValues, EditOptions(name, value)
      PROVE  LabelInv'
  <2>1. /\ UNCHANGED <<request, count, phase, config, heap, wire>> /\ named \subseteq named'
        /\ options' = [options EXCEPT !.headers[name] = value]
        /\ phase = "ready" /\ name = ContentType => count \in named'
        /\ phase \in {"ready", "settled"}
    BY <1>8 DEF EditOptions
  <2>2. options'.body = options.body
        /\ (name # ContentType => options'.headers[ContentType] = options.headers[ContentType])
    BY <2>1 DEF TypeOK, HeaderMaps
  <2>3. OptionsLabelled'
    BY <2>1, <2>2 DEF OptionsLabelled, Fitted, LabelOf
  <2> QED BY <2>1, <2>3 DEF ConfigsLabelled, BodyKeepsItsLabel, HasConfig, Fits, LabelOf
<1>9. ASSUME UNCHANGED vars
      PROVE  LabelInv'
  BY <1>9 DEF vars, ConfigsLabelled, OptionsLabelled, BodyKeepsItsLabel, HasConfig, Fits, Fitted, LabelOf
<1>10. ASSUME NEW p \in Parts, ChangeInPlace(p)
       PROVE  LabelInv'
  BY <1>10, InPlace DEF ConfigsLabelled, OptionsLabelled, BodyKeepsItsLabel, HasConfig, Fits, Fitted, LabelOf
<1> QED BY <1>10, <1>1, <1>2, <1>3, <1>4, <1>5, <1>6, <1>7, <1>8, <1>9 DEF Next

\* THEOREM: a body goes with its own Content-Type where nobody chose one, over
\* any number of replays of replays (setHeaderIfMissing, serializeRequestData).
THEOREM LabelsAreKept == Spec => []BodyKeepsItsLabel
<1>1. Init => LabelInv
  BY LabelInit
<1>2. TypeOK /\ TypeOK' /\ Inv /\ Inv' /\ LabelInv /\ [Next]_vars => LabelInv'
  BY LabelStep
<1>3. LabelInv => BodyKeepsItsLabel
  BY DEF LabelInv
<1> QED BY <1>1, <1>2, <1>3, AlwaysTyped, Invariance, PTL DEF Spec

-----------------------------------------------------------------------------
(***************************************************************************)
(* Resubscriptions.                                                        *)
(***************************************************************************)

\* What the nth attempt is, if it is one at the call itself.
Merge0 == MergeHeaders(request.defaults, request.headers)
Built0 == WithCredentials(Merge0, IF request.auth = "config" THEN "config" ELSE "none")
Dressed0 == WithCredentials(Merge0, request.auth)
Ideal(n) ==
  IF request.transform THEN [body |-> Transformed(Given.data), headers |-> Dressed0]
  ELSE SerializeRequestData(Dressed0, Given.data, n)

\* It is built and serialised as it is normalised.
LEMMA CredentialsTwice ==
  ASSUME TypeOK
  PROVE  /\ Merge0 \in HeaderMaps /\ Built0 \in HeaderMaps /\ Dressed0 \in HeaderMaps
         /\ WithCredentials(Built0, request.auth) = Dressed0
<1>1. Merge0 \in HeaderMaps
  BY DefaultsTyped, HeadersType DEF Merge0
<1>2. Built0 \in HeaderMaps /\ Dressed0 \in HeaderMaps
  BY <1>1, HeadersType DEF Built0, Dressed0
<1>3. CASE request.auth = "config"
  <2>1. Built0 = WithCredentials(Merge0, "config") /\ Dressed0 = Built0
    BY <1>3 DEF Built0, Dressed0
  <2>2. Basic(Built0, "config")
    BY <1>1, <2>1, CredentialsKept
  <2> QED BY <1>1, <1>2, <1>3, <2>1, <2>2, CredentialsKept
<1>4. CASE request.auth # "config"
  <2>1. Built0 = Merge0
    BY <1>4 DEF Built0, WithCredentials
  <2> QED BY <1>1, <1>2, <2>1 DEF Dressed0
<1> QED BY <1>3, <1>4

\* Only a boundary tells one attempt at the call from another.
LEMMA SerialAlike ==
  ASSUME NEW h \in HeaderMaps, NEW data \in Data, NEW n \in Nat, NEW k \in Nat
  PROVE  LET a == SerializeRequestData(h, data, n)
             b == SerializeRequestData(h, data, k)
         IN  /\ a.body.kind = b.body.kind /\ a.body.as = b.body.as
             /\ a.body.kind # "stream" => a = b
             /\ \A name \in Names : a.headers[name].type = b.headers[name].type
             /\ a.body.stream \in {0, n, data.stream}
<1> DEFINE type == h[ContentType].type
           A == Encoded(data, type, n)
           B == Encoded(data, type, k)
           LA == Labelled(h, data, A, request.method, n)
           LB == Labelled(h, data, B, request.method, k)
<1>1. SUFFICES /\ A.kind = B.kind /\ A.as = B.as
               /\ A.kind # "stream" => A = B /\ LA = LB
               /\ \A name \in Names : LA[name].type = LB[name].type
               /\ A.stream \in {0, n, data.stream}
  BY DEF SerializeRequestData
<1>2. CASE IsForm(data, type) /\ type # "json"
  <2>1. A = Datum("stream", "multipart", n, n) /\ B = Datum("stream", "multipart", k, k)
    BY <1>2 DEF Encoded, IsForm
  <2>2. /\ A.kind = "stream" /\ B.kind = "stream" /\ A.stream = n
        /\ A.as = "multipart" /\ B.as = "multipart"
    BY <2>1 DEF Datum
  <2> DEFINE Last(own) == IF request.method = "post"
                          THEN SetHeaderIfMissing(own, ContentType, Value("urlencoded")) ELSE own
  <2>3. LA = Last(FormLabel(h, n)) /\ LB = Last(FormLabel(h, k))
    <3> HIDE DEF A, B
    <3> QED BY <1>2, <2>2 DEF Labelled, IsForm
  <2>4. ASSUME NEW j \in Nat
        PROVE  Last(FormLabel(h, j)) = IF h[ContentType].boundary = 0 \/ h[ContentType] = Absent
                                       THEN [h EXCEPT ![ContentType] = Multipart(j)] ELSE h
    <3>1. FormLabel(h, j) = IF h[ContentType].boundary = 0 \/ h[ContentType] = Absent
                            THEN [h EXCEPT ![ContentType] = Multipart(j)] ELSE h
      BY DEF FormLabel, SetIn
    <3>2. FormLabel(h, j)[ContentType] # Absent
      BY <3>1, LabelsDiffer DEF HeaderMaps, Names
    <3> QED BY <3>1, <3>2 DEF SetHeaderIfMissing, SetIn
  <2>5. \A name \in Names : LA[name].type = LB[name].type
    <3>1. Multipart(n).type = Multipart(k).type
      BY DEF Multipart
    <3> HIDE DEF LA, LB, Last
    <3> QED BY <2>3, <2>4, <3>1 DEF HeaderMaps
  <2> HIDE DEF A, B, LA, LB
  <2> QED BY <2>2, <2>5
<1>3. CASE ~(IsForm(data, type) /\ type # "json")
  <2>1. A = B
    BY <1>3 DEF Encoded, IsForm
  <2>2. IsForm(data, type) => A.kind # "stream"
    BY <1>3 DEF Encoded, IsForm, Text, Datum
  <2>3. LA = LB
    <3>1. ~(IsForm(data, type) /\ A.kind = "stream")
      BY <2>2
    <3> HIDE DEF A, B
    <3> QED BY <2>1, <3>1 DEF Labelled
  <2>4. A.stream \in {0, data.stream}
    <3>1. Nothing.stream = 0 /\ (\A as : Text(as).stream = 0)
          /\ [data EXCEPT !.kind = "stream"].stream = data.stream
      BY DEF Nothing, Text, Datum, Data
    <3> QED BY <1>3, <3>1 DEF Encoded, IsForm
  <2> HIDE DEF A, B, LA, LB
  <2> QED BY <2>1, <2>3, <2>4
<1> QED BY <1>2, <1>3

LEMMA GivenData ==
  ASSUME TypeOK
  PROVE  /\ Given.data \in Data /\ Given \in Inputs
         /\ request.data.stream = 0 => Given.data.stream = 0
         /\ Given.data.stream = 0 \/ Given.data.stream > MaxAttempts
<1>1. Given.data \in Data /\ Given \in Inputs
  <2>1. 0 \in Sources /\ Input(0) = Given
    BY DEF Sources, Input
  <2> QED BY <2>1, InputType DEF Inputs
<1>2. Given.data = request.data \/ Given.data = Datum("form", "fields", 0, 0)
  BY DEF Given, BuildFormRequestConfig
<1>3. request.data.stream = 0 \/ request.data.stream > MaxAttempts
  BY StreamsAssumption DEF TypeOK
<1> QED BY <1>1, <1>2, <1>3 DEF Datum

\* Two attempts at the call are sent alike.
LEMMA IdealsAlike ==
  ASSUME TypeOK, NEW n \in Nat, NEW k \in Nat,
         NEW a \in Messages, NEW b \in Messages,
         a.body = Ideal(n).body, a.headers = Sent(Ideal(n).headers, Ideal(n).body),
         b.body = Ideal(k).body, b.headers = Sent(Ideal(k).headers, Ideal(k).body)
  PROVE  Alike(a, b)
<1> DEFINE A == Ideal(n)
           B == Ideal(k)
<1>1. /\ A.body.kind = B.body.kind /\ A.body.as = B.body.as
      /\ A.body.kind # "stream" => A = B
      /\ \A name \in Names : A.headers[name].type = B.headers[name].type
  <2>1. CASE request.transform
    BY <2>1 DEF Ideal
  <2>2. CASE ~request.transform
    <3>1. A = SerializeRequestData(Dressed0, Given.data, n)
          /\ B = SerializeRequestData(Dressed0, Given.data, k)
      BY <2>2 DEF Ideal
    <3> HIDE DEF A, B
    <3> QED BY <3>1, CredentialsTwice, GivenData, SerialAlike
  <2> QED BY <2>1, <2>2
<1> HIDE DEF A, B
<1>2. \A name \in Names : Sent(A.headers, A.body)[name].type = Sent(B.headers, B.body)[name].type
  <2>1. CASE A.body.kind = "undici"
    BY <1>1, <2>1
  <2>2. CASE A.body.kind # "undici"
    BY <1>1, <2>2 DEF Sent
  <2> QED BY <2>1, <2>2
<1> QED BY <1>1, <1>2 DEF Alike, A, B

\* A stream made of a FormData has the number of an attempt there has been, and
\* is not read before that attempt is sent.
Known(stream, n) == stream <= n \/ stream > MaxAttempts
Minted ==
  /\ \A n \in Attempts : HasConfig(n) => Known(config[n].data.stream, count)
  /\ Known(options.body.stream, count)
  /\ \A stream \in spent : \/ stream > MaxAttempts \/ stream < count
                           \/ stream = count /\ phase \in {"sent", "settled"}

\* The last attempt, if it is one at the call and nobody touched it.
Anew ==
  count # 0 /\ from[count] = 0 /\ count \notin edited =>
    /\ phase = "intercepting" =>
         /\ heap[count] = Built0
         /\ config[count].data = Given.data /\ config[count].auth = request.auth
    /\ phase \in {"ready", "sent"} =>
         options.body = Ideal(count).body /\ options.headers = Ideal(count).headers

\* All that were.
SentAnew ==
  \A n \in Attempts : wire[n] # NotSent /\ from[n] = 0 /\ n \notin edited =>
    /\ wire[n].body = Ideal(n).body
    /\ wire[n].headers = Sent(Ideal(n).headers, Ideal(n).body)
    /\ request.data.stream = 0 => wire[n].fresh

LEMMA FreshInit == Init => Minted /\ Anew /\ SentAnew
<1> SUFFICES ASSUME Init PROVE Minted /\ Anew /\ SentAnew
  OBVIOUS
<1>1. options.body.stream = 0 /\ count = 0 /\ spent = {}
  BY DEF Init, Nothing, Datum
<1>2. \A n \in Attempts : ~HasConfig(n) /\ wire[n] = NotSent
  BY DEF Init, HasConfig
<1> QED BY <1>1, <1>2 DEF Minted, Known, Anew, SentAnew

\* What data is encoded to is read from a stream that is known by then.
LEMMA EncodedKnown ==
  ASSUME NEW h \in HeaderMaps, NEW data \in Data, NEW n \in Nat,
         data.stream <= n \/ data.stream > MaxAttempts
  PROVE  LET stream == SerializeRequestData(h, data, n).body.stream
         IN  stream <= n \/ stream > MaxAttempts
  BY SerialAlike DEF Data

LEMMA MintedStep ==
  ASSUME TypeOK, TypeOK', Inv, Minted, [Next]_vars
  PROVE  Minted'
<1>0. count \in Nat /\ count <= MaxAttempts /\ MaxAttempts \in Nat /\ spent \subseteq Nat
  BY BoundsAssumption DEF TypeOK
<1>1. ASSUME NEW source \in Sources, Subscribe(source), NEW in, in = Input(source)
      PROVE  /\ in.data \in Data /\ in \in Inputs
             /\ in.data.stream <= count' \/ in.data.stream > MaxAttempts
             /\ count' = count + 1 /\ count' \in Nat /\ count' \in Attempts /\ spent' = spent
             /\ \A stream \in spent' : stream > MaxAttempts \/ stream < count'
             /\ \A stream \in Nat : Known(stream, count) => Known(stream, count')
             /\ MergeHeaders(request.defaults, in.headers) \in HeaderMaps
  <2>1. in \in Inputs /\ in.data \in Data /\ MergeHeaders(request.defaults, in.headers) \in HeaderMaps
    BY <1>1, Subscribing, Starting DEF Inputs
  <2>2. count' = count + 1 /\ count' \in Attempts /\ spent' = spent
    BY <1>1, Subscribing
  <2>3. ASSUME NEW stream \in spent' PROVE stream > MaxAttempts \/ stream < count'
    <3>1. stream \in Nat /\ (stream > MaxAttempts \/ stream <= count)
      BY <1>0, <2>2 DEF Minted
    <3> QED BY <1>0, <2>2, <3>1
  <2>4. \A stream \in Nat : Known(stream, count) => Known(stream, count')
    BY <1>0, <2>2 DEF Known
  <2>5. in.data.stream <= count' \/ in.data.stream > MaxAttempts
    <3>1. CASE source = 0
      <4>1. in = Given
        BY <1>1, <3>1 DEF Input
      <4> QED BY <1>0, <2>2, <4>1, GivenData
    <3>2. CASE source # 0
      <4>1. source \in Attempts /\ in.data = config[source].data /\ HasConfig(source)
        BY <1>1, <3>2, Subscribing, Starting DEF Sources, HasConfig
      <4>2. Known(in.data.stream, count) /\ in.data.stream \in Nat
        BY <2>1, <4>1 DEF Minted, Data
      <4> QED BY <2>4, <4>2, <1>0, <2>2 DEF Known
    <3> QED BY <3>1, <3>2
  <2>6. count' \in Nat
    BY <1>0, <2>2
  <2> QED BY <2>1, <2>2, <2>3, <2>4, <2>5, <2>6
<1>2. \A n \in Attempts : HasConfig(n) => config[n].data.stream \in Nat /\ config[n] \in Configs
  BY DEF HasConfig, TypeOK, Configs, Data
<1>3. options.body.stream \in Nat
  BY DEF TypeOK, Data
<1>4. ASSUME NEW source \in Sources, BuildAxiosConfig(source)
      PROVE  Minted'
  <2> DEFINE in == Input(source)
  <2>1. Subscribe(source) /\ UNCHANGED options
        /\ config' = [config EXCEPT ![count + 1] = [in EXCEPT !.headers = count + 1]]
    BY <1>4 DEF BuildAxiosConfig, HeadersObject
  <2>2. /\ in.data.stream <= count' \/ in.data.stream > MaxAttempts
        /\ in \in Inputs /\ count' = count + 1
        /\ \A stream \in spent' : stream > MaxAttempts \/ stream < count'
        /\ \A stream \in Nat : Known(stream, count) => Known(stream, count')
    BY <1>1, <2>1
  <2>3. \A n \in Attempts : config'[n] = config[n] \/ config'[n].data = in.data
    BY <2>1, <2>2 DEF TypeOK, Inputs
  <2> HIDE DEF in
  <2>4. ASSUME NEW n \in Attempts, HasConfig(n)'
        PROVE  Known(config'[n].data.stream, count')
    BY <1>2, <2>2, <2>3, <2>4 DEF Minted, HasConfig, Known
  <2>5. Known(options'.body.stream, count')
    BY <1>3, <2>1, <2>2 DEF Minted
  <2> QED BY <2>2, <2>4, <2>5 DEF Minted
<1>5. ASSUME NEW source \in Sources, NormalizeAxiosRequest(source)
      PROVE  Minted'
  <2> DEFINE in == Input(source)
             h == WithCredentials(MergeHeaders(request.defaults, in.headers), in.auth)
             made == SerializeRequestData(h, in.data, count + 1)
  <2>1. Subscribe(source) /\ UNCHANGED config /\ options' = made
    BY <1>5 DEF NormalizeAxiosRequest
  <2>2. /\ in.data.stream <= count' \/ in.data.stream > MaxAttempts
        /\ in.data \in Data /\ count' = count + 1 /\ count' \in Nat
        /\ \A stream \in spent' : stream > MaxAttempts \/ stream < count'
        /\ \A stream \in Nat : Known(stream, count) => Known(stream, count')
        /\ MergeHeaders(request.defaults, in.headers) \in HeaderMaps
    BY <1>1, <2>1
  <2>3. h \in HeaderMaps
    BY <2>2, HeadersType
  <2> HIDE DEF in, h
  <2>4. made.body.stream <= count' \/ made.body.stream > MaxAttempts
    BY <2>2, <2>3, EncodedKnown
  <2> HIDE DEF made
  <2>5. Known(options'.body.stream, count')
    BY <2>1, <2>4 DEF Known
  <2>6. \A n \in Attempts : HasConfig(n)' => Known(config'[n].data.stream, count')
    BY <1>2, <2>1, <2>2 DEF Minted, HasConfig
  <2> QED BY <2>2, <2>5, <2>6 DEF Minted
<1>6. ASSUME SerializeAxiosConfig
      PROVE  Minted'
  <2>1. /\ count \in Attempts /\ HasConfig(count) /\ config[count] \in Configs
        /\ phase = "intercepting" /\ phase' = "ready" /\ UNCHANGED <<count, spent>>
        /\ config' = [config EXCEPT ![count] = [config[count] EXCEPT !.data = Serial.body]]
        /\ options'.body = Serial.body
    BY <1>6, Serialising
  <2>2. Known(Serial.body.stream, count)
    <3>1. CASE request.transform
      BY <1>0, <3>1 DEF Serial, Transformed, Datum, Known
    <3>2. CASE ~request.transform
      <4> DEFINE h == WithCredentials(heap[count], config[count].auth)
      <4>1. Serial = SerializeRequestData(h, config[count].data, count)
        BY <3>2 DEF Serial
      <4>2. h \in HeaderMaps /\ config[count].data \in Data
        BY <2>1, HeadersType DEF TypeOK, Configs
      <4>3. Known(config[count].data.stream, count)
        BY <2>1 DEF Minted
      <4> HIDE DEF h
      <4> QED BY <1>0, <4>1, <4>2, <4>3, EncodedKnown DEF Known
    <3> QED BY <3>1, <3>2
  <2>3. \A n \in Attempts : config'[n] = config[n] \/ config'[n].data = Serial.body
    BY <2>1 DEF TypeOK, Configs
  <2>4. \A n \in Attempts : HasConfig(n)' => Known(config'[n].data.stream, count)
    BY <2>2, <2>3 DEF Minted, HasConfig
  <2>5. \A stream \in spent : stream > MaxAttempts \/ stream < count
    BY <2>1 DEF Minted
  <2> QED BY <2>1, <2>2, <2>4, <2>5 DEF Minted, Known
<1>7. ASSUME Dispatch
      PROVE  Minted'
  <2>1. /\ phase = "ready" /\ phase' = "sent" /\ UNCHANGED <<count, config, options>>
        /\ \A stream \in spent' : stream \in spent \/ stream = options.body.stream
    BY <1>7 DEF Dispatch
  <2>2. ASSUME NEW stream \in spent'
        PROVE  stream > MaxAttempts \/ stream < count \/ stream = count
    <3>1. CASE stream \in spent
      BY <3>1 DEF Minted
    <3>2. CASE stream = options.body.stream
      BY <1>0, <1>3, <3>2 DEF Minted, Known
    <3> QED BY <2>1, <3>1, <3>2
  <2> QED BY <2>1, <2>2 DEF Minted, Known, HasConfig
<1>8. ASSUME Settle
      PROVE  Minted'
  <2>1. /\ phase = "sent" /\ phase' = "settled" /\ UNCHANGED <<count, options, spent>>
    BY <1>8 DEF Settle
  <2>2. \A n \in Attempts : config'[n] = config[n] \/ config'[n].data = options.body
    BY <1>8 DEF Settle, TypeOK
  <2> QED BY <2>1, <2>2 DEF Minted, Known, HasConfig
<1>9. ASSUME NEW j \in Attempts, NEW data \in NewData, EditData(j, data)
      PROVE  Minted'
  <2>1. /\ UNCHANGED <<count, phase, options, spent>> /\ HasConfig(j)
        /\ config' = [config EXCEPT ![j] = [config[j] EXCEPT !.data = data]]
    BY <1>9 DEF EditData, Edit, HasConfig
  <2>2. \A n \in Attempts : config'[n] = config[n] \/ config'[n].data = data
    BY <1>2, <2>1 DEF TypeOK, Configs
  <2>3. Known(data.stream, count)
    <3>1. data.stream = 0 \/ data.stream > MaxAttempts
      BY StreamsAssumption
    <3> QED BY <1>0, <3>1 DEF Known
  <2> QED BY <2>1, <2>2, <2>3 DEF Minted, Known, HasConfig
<1>10. CASE UNCHANGED <<count, phase, config, spent>> /\ options'.body = options.body
  BY <1>10 DEF Minted, Known, HasConfig
<1>11. ASSUME NEW name \in Names, NEW value \in NewValues, EditOptions(name, value)
       PROVE  Minted'
  <2>1. options'.body = options.body
    BY <1>11 DEF EditOptions, TypeOK
  <2> QED BY <1>10, <1>11, <2>1 DEF EditOptions
<1>12. ASSUME NEW j \in Attempts, NEW name \in Names, NEW value \in NewValues \cup {Absent, Off},
              NEW rewrite \in BOOLEAN, EditHeader(j, name, value, rewrite)
       PROVE  Minted'
  BY <1>10, <1>12 DEF EditHeader, Edit
<1>13. CASE UNCHANGED vars
  BY <1>10, <1>13 DEF vars
<1>14. ASSUME NEW p \in Parts, ChangeInPlace(p)
       PROVE  Minted'
  BY <1>10, <1>14, InPlace
<1> QED BY <1>14, <1>4, <1>5, <1>6, <1>7, <1>8, <1>9, <1>11, <1>12, <1>13 DEF Next

LEMMA AnewStep ==
  ASSUME TypeOK, TypeOK', Inv, Anew, [Next]_vars
  PROVE  Anew'
<1>0. UNCHANGED request => /\ UNCHANGED <<Merge0, Built0, Dressed0, Given>>
                           /\ \A n : Ideal(n)' = Ideal(n)
  BY DEF Merge0, Built0, Dressed0, Given, BuildFormRequestConfig, Ideal, SerializeRequestData
<1>1. UNCHANGED request
  BY DEF Next, vars, BuildAxiosConfig, NormalizeAxiosRequest, Subscribe, SerializeAxiosConfig,
     Dispatch, Settle, EditHeader, EditData, Edit, EditOptions, ChangeInPlace
<1>2. ASSUME NEW source \in Sources, BuildAxiosConfig(source)
      PROVE  Anew'
  <2> DEFINE n == count + 1
  <2>1. /\ Subscribe(source) /\ phase' = "intercepting"
        /\ config' = [config EXCEPT ![n] = [Input(source) EXCEPT !.headers = n]]
        /\ heap' = [heap EXCEPT ![n] =
                      WithCredentials(MergeHeaders(request.defaults, Input(source).headers),
                                      IF Input(source).auth = "config" THEN "config" ELSE "none")]
    BY <1>2 DEF BuildAxiosConfig, HeadersObject
  <2>2. n \in Attempts /\ count' = n /\ from'[n] = source
    BY <2>1, Subscribing
  <2>3. ASSUME source = 0
        PROVE  heap'[n] = Built0 /\ config'[n].data = Given.data /\ config'[n].auth = request.auth
    <3>1. Input(source) = Given /\ Given.headers = request.headers /\ Given.auth = request.auth
      BY <2>3 DEF Input, Given
    <3>2. heap'[n] = Built0
      BY <2>1, <2>2, <3>1 DEF Built0, Merge0, TypeOK
    <3>3. config'[n] = [Given EXCEPT !.headers = n]
      BY <2>1, <2>2, <3>1 DEF TypeOK
    <3> QED BY <3>1, <3>2, <3>3, GivenData DEF Inputs
  <2> HIDE DEF n
  <2> QED BY <1>0, <1>1, <2>1, <2>2, <2>3 DEF Anew
<1>3. ASSUME NEW source \in Sources, NormalizeAxiosRequest(source)
      PROVE  Anew'
  <2> DEFINE n == count + 1
  <2>1. /\ Subscribe(source) /\ phase' = "ready" /\ ~request.transform
        /\ options' = [headers |-> Normal(source).headers, body |-> Normal(source).body]
    BY <1>3, Normalising
  <2>2. n \in Attempts /\ count' = n /\ from'[n] = source
    BY <2>1, Subscribing
  <2>3. ASSUME source = 0
        PROVE  Normal(source) = Ideal(n)
    <3>1. Input(source) = Given /\ Given.headers = request.headers /\ Given.auth = request.auth
      BY <2>3 DEF Input, Given
    <3> QED BY <2>1, <3>1 DEF Normal, Ideal, Dressed0, Merge0
  <2> HIDE DEF n
  <2> QED BY <1>0, <1>1, <2>1, <2>2, <2>3 DEF Anew
<1>4. ASSUME SerializeAxiosConfig
      PROVE  Anew'
  <2>1. /\ count \in Attempts /\ phase = "intercepting" /\ phase' = "ready"
        /\ options' = [headers |-> ToJSON(Serial.headers), body |-> Serial.body]
        /\ UNCHANGED <<count, from, edited>>
        /\ Merged(heap[count]) => ToJSON(Serial.headers) = Serial.headers
    BY <1>4, Serialising
  <2>2. ASSUME from[count] = 0, count \notin edited, count # 0
        PROVE  options'.body = Ideal(count).body /\ options'.headers = Ideal(count).headers
    <3>1. Merged(heap[count])
      BY <2>1, <2>2 DEF Inv, Prepared
    <3>2. heap[count] = Built0 /\ config[count].data = Given.data /\ config[count].auth = request.auth
      BY <2>1, <2>2 DEF Anew
    <3>3. Serial = Ideal(count)
      BY <3>2, CredentialsTwice DEF Serial, Ideal
    <3> QED BY <2>1, <3>1, <3>3
  <2> QED BY <1>0, <1>1, <2>1, <2>2 DEF Anew
<1>5. ASSUME Dispatch
      PROVE  Anew'
  BY <1>0, <1>1, <1>5 DEF Dispatch, Anew
<1>6. ASSUME Settle
      PROVE  Anew'
  BY <1>0, <1>1, <1>6 DEF Settle, Anew
<1>7. ASSUME NEW j \in Attempts, NEW name \in Names, NEW value \in NewValues \cup {Absent, Off},
             NEW rewrite \in BOOLEAN, EditHeader(j, name, value, rewrite)
      PROVE  Anew'
  <2>1. /\ UNCHANGED <<count, phase, from, options, config>> /\ edited' = edited \cup {j}
        /\ heap' = [heap EXCEPT ![j] = SetIn(heap[j], name, value, rewrite)]
    BY <1>7 DEF EditHeader, Edit, Inv, Order, HasConfig
  <2>2. count # j => heap'[count] = heap[count]
    BY <2>1 DEF TypeOK
  <2> QED BY <1>0, <1>1, <2>1, <2>2 DEF Anew
<1>8. ASSUME NEW j \in Attempts, NEW data \in NewData, EditData(j, data)
      PROVE  Anew'
  <2>1. /\ UNCHANGED <<count, phase, from, options, heap>> /\ edited' = edited \cup {j}
        /\ config' = [config EXCEPT ![j].data = data]
    BY <1>8 DEF EditData, Edit
  <2>2. count # j => config'[count] = config[count]
    BY <2>1 DEF TypeOK
  <2> QED BY <1>0, <1>1, <2>1, <2>2 DEF Anew
<1>9. ASSUME NEW name \in Names, NEW value \in NewValues, EditOptions(name, value)
      PROVE  Anew'
  BY <1>0, <1>1, <1>9 DEF EditOptions, Anew
<1>10. ASSUME UNCHANGED vars
       PROVE  Anew'
  BY <1>0, <1>1, <1>10 DEF vars, Anew
<1>11. ASSUME NEW p \in Parts, ChangeInPlace(p)
       PROVE  Anew'
  BY <1>0, <1>1, <1>11, InPlace DEF Anew
<1> QED BY <1>11, <1>2, <1>3, <1>4, <1>5, <1>6, <1>7, <1>8, <1>9, <1>10 DEF Next

LEMMA SentAnewStep ==
  ASSUME TypeOK, TypeOK', Inv, Minted, Anew, SentAnew, [Next]_vars
  PROVE  SentAnew'
<1>0. UNCHANGED request => \A n : Ideal(n)' = Ideal(n)
  BY DEF Merge0, Dressed0, Given, BuildFormRequestConfig, Ideal, SerializeRequestData
<1>1. CASE /\ UNCHANGED <<request, wire>> /\ edited \subseteq edited'
           /\ \A n \in Attempts : wire[n] # NotSent => from'[n] = from[n]
  BY <1>0, <1>1 DEF SentAnew, Sent, SetHeaderIfMissing, SetIn
<1>2. ASSUME NEW source \in Sources, BuildAxiosConfig(source) \/ NormalizeAxiosRequest(source)
      PROVE  SentAnew'
  <2>1. Subscribe(source)
    BY <1>2 DEF BuildAxiosConfig, NormalizeAxiosRequest
  <2>2. \A n \in Attempts : wire[n] # NotSent => from'[n] = from[n]
    BY <2>1, Subscribing DEF TypeOK
  <2> QED BY <1>1, <2>1, <2>2, Subscribing
<1>3. ASSUME Dispatch
      PROVE  SentAnew'
  <2>1. /\ count \in Attempts /\ phase = "ready" /\ phase' = "sent"
        /\ UNCHANGED <<request, count, from, edited>>
        /\ wire' = [wire EXCEPT ![count] =
                      [headers |-> Sent(options.headers, options.body), body |-> options.body,
                       fresh |-> options.body.stream \notin spent]]
    BY <1>3, BoundsAssumption DEF Dispatch, TypeOK, Attempts
  <2>2. /\ wire'[count].headers = Sent(options.headers, options.body)
        /\ wire'[count].body = options.body
        /\ wire'[count].fresh = (options.body.stream \notin spent)
        /\ \A n \in Attempts : n # count => wire'[n] = wire[n]
    BY <2>1 DEF TypeOK
  <2>3. ASSUME from[count] = 0, count \notin edited
        PROVE  /\ wire'[count].body = Ideal(count).body
               /\ wire'[count].headers = Sent(Ideal(count).headers, Ideal(count).body)
               /\ request.data.stream = 0 => wire'[count].fresh
    <3>1. options.body = Ideal(count).body /\ options.headers = Ideal(count).headers
      BY <2>1, <2>3 DEF Anew, Attempts
    <3>2. ASSUME request.data.stream = 0
          PROVE  Ideal(count).body.stream \in {0, count}
      <4>1. CASE request.transform
        BY <4>1 DEF Ideal, Transformed, Datum
      <4>2. CASE ~request.transform
        <5>1. Ideal(count) = SerializeRequestData(Dressed0, Given.data, count)
          BY <4>2 DEF Ideal
        <5>2. count \in Nat /\ Given.data.stream = 0
          BY <3>2, GivenData DEF TypeOK
        <5> QED BY <5>1, <5>2, CredentialsTwice, GivenData, SerialAlike
      <4> QED BY <4>1, <4>2
    <3>3. 0 \notin spent
      BY DEF Inv, Streams
    <3>4. count \notin spent
      BY <2>1, BoundsAssumption DEF Minted, Attempts
    <3> QED BY <2>2, <3>1, <3>2, <3>3, <3>4
  <2>4. ASSUME NEW n \in Attempts, wire'[n] # NotSent, from'[n] = 0, n \notin edited'
        PROVE  /\ wire'[n].body = Ideal(n).body
               /\ wire'[n].headers = Sent(Ideal(n).headers, Ideal(n).body)
               /\ request.data.stream = 0 => wire'[n].fresh
    <3>1. CASE n = count
      BY <2>1, <2>3, <2>4, <3>1
    <3>2. CASE n # count
      BY <2>1, <2>2, <2>4, <3>2 DEF SentAnew
    <3> QED BY <3>1, <3>2
  <2> QED BY <1>0, <2>1, <2>4 DEF SentAnew, Sent, SetHeaderIfMissing, SetIn
<1>4. ASSUME SerializeAxiosConfig \/ Settle
      PROVE  SentAnew'
  BY <1>1, <1>4 DEF SerializeAxiosConfig, Settle
<1>5. ASSUME NEW j \in Attempts, NEW name \in Names, NEW value \in NewValues \cup {Absent, Off},
             NEW rewrite \in BOOLEAN, EditHeader(j, name, value, rewrite)
      PROVE  SentAnew'
  BY <1>1, <1>5 DEF EditHeader, Edit
<1>6. ASSUME NEW j \in Attempts, NEW data \in NewData, EditData(j, data)
      PROVE  SentAnew'
  BY <1>1, <1>6 DEF EditData, Edit
<1>7. ASSUME NEW name \in Names, NEW value \in NewValues, EditOptions(name, value)
      PROVE  SentAnew'
  BY <1>1, <1>7 DEF EditOptions
<1>8. ASSUME UNCHANGED vars
      PROVE  SentAnew'
  BY <1>1, <1>8 DEF vars
<1>9. ASSUME NEW p \in Parts, ChangeInPlace(p)
      PROVE  SentAnew'
  BY <1>1, <1>9, InPlace
<1> QED BY <1>9, <1>2, <1>3, <1>4, <1>5, <1>6, <1>7, <1>8 DEF Next

\* THEOREM: each subscription sends what the first one sent, with a body that
\* is there to be read, over any number of attempts, replays and changes of
\* other configs; of the data and params that all of them share, changed in
\* place as they may be, it sends the contents there were when it began
\* (buildAxiosConfig, serializeRequestData).
THEOREM ResubscriptionsStartFresh == Spec => []ResubscriptionStartsFresh
<1> DEFINE FreshInv == Minted /\ Anew /\ SentAnew
<1>1. Init => FreshInv
  BY FreshInit
<1>2. TypeOK /\ TypeOK' /\ Inv /\ FreshInv /\ [Next]_vars => FreshInv'
  BY MintedStep, AnewStep, SentAnewStep
<1>3. TypeOK /\ Inv /\ Shared /\ FreshInv => ResubscriptionStartsFresh
  <2> SUFFICES ASSUME TypeOK, Inv, Shared, SentAnew, NEW n \in Attempts, NEW k \in Attempts,
                      wire[n] # NotSent, wire[k] # NotSent, from[n] = 0, from[k] = 0,
                      {n, k} \cap edited = {}
               PROVE  /\ Alike(wire[n], wire[k]) /\ (request.data.stream = 0 => wire[n].fresh)
                      /\ told[n] = since[n]
    BY DEF ResubscriptionStartsFresh
  <2>1. wire[n] \in Messages /\ wire[k] \in Messages /\ n \in Nat /\ k \in Nat
    <3>1. wire[n] \in Messages /\ wire[k] \in Messages
      BY DEF TypeOK
    <3> QED BY <3>1 DEF Attempts
  <2>2. n <= count
    BY <2>1 DEF Inv, Order, TypeOK
  <2>3. told[n] = since[n]
    BY <2>2 DEF Shared
  <2> QED BY <2>1, <2>3, IdealsAlike DEF SentAnew
<1> HIDE DEF FreshInv
<1> QED BY <1>1, <1>2, <1>3, AlwaysTyped, Invariance, AlwaysShared, PTL DEF Spec
=============================================================================
