---------------------------- MODULE RequestDefaults ----------------------------
(***************************************************************************)
(* Where the headers and options of a request come from: the options given *)
(* to register(), the defaults of an axiosRef instance, those of the       *)
(* instances create() derives from it, and the per-method cache of merged  *)
(* default headers. Everything here is an object some application code     *)
(* holds and may change in place between two requests.                     *)
(***************************************************************************)
EXTENDS Naturals, Sequences

CONSTANTS
  Instances,      \* axiosRef and what create() makes of it
  Root,           \* axiosRef itself
  Methods,        \* lower-case methods with a header bucket of their own
  Names,          \* header names and query parameters, as they are written
  Lower(_),       \* toLowerCase
  Values,         \* header and option values that are strings, say
  ModuleConfigs,  \* the options register() may be given
  AcceptEncoding, \* the built-in headers: sent when decompressing,
  Accept,         \* and sent always
  Overrides,      \* bound: the options create() is given
  EditedNames,    \* bound: the names whose entries are changed
  EditedValues,   \* bound: the strings they, and options, are changed to
  MaxEdits        \* bound: changes the application makes

\* What a header or an option may be set to: "object" is a non-array object
\* whose String() is the current value of `object`.
Absent == "absent"
Undefined == "undefined"
Null == "null"
Object == "object"
HeaderValues == Values \cup {Undefined, Null, Object}

ASSUME RootAssumption == Root \in Instances
ASSUME OwnersAssumption == {"module", "caller"} \cap Instances = {}
ASSUME MethodsAssumption == Methods \cap {"common", "flat", "params"} = {}
ASSUME ValuesAssumption == {Absent, Undefined, Null, Object} \cap Values = {}

\* The method buckets of a headers object, its own keys, and the params.
HeaderBuckets == {"common", "flat"} \cup Methods
Buckets == HeaderBuckets \cup {"params"}

\* One option of each kind the code resolves in its own way: maxRedirects also
\* stands for baseURL, auth and allowAbsoluteUrls; maxContentLength for
\* maxBodyLength, decompress, socketPath, beforeRedirect, timeout and
\* timeoutErrorMessage; responseType for sensitiveHeaders; onUploadProgress for
\* onDownloadProgress, maxRate, parseReviver, formSerializer and transitional.
Options == {"maxRedirects", "maxContentLength", "validateStatus", "responseType",
            "onUploadProgress"}

\* No key stands twice in a JavaScript object.
KeysOnce(entries) ==
  \A j, k \in DOMAIN entries : entries[j][1] = entries[k][1] => j = k

ASSUME ConfigsAssumption ==
  \A c \in ModuleConfigs :
    /\ c.options \in [Options -> Values \cup {Absent}]
    /\ c.objects \in [Buckets -> Seq(Names \X HeaderValues)]
    /\ \A b \in Buckets : KeysOnce(c.objects[b])
    /\ c.object \in Values
ASSUME BuiltInAssumption ==
  {Accept, AcceptEncoding} \subseteq Names \X Values /\ Accept[1] # AcceptEncoding[1]
ASSUME EditsAssumption == MaxEdits \in Nat
ASSUME OverridesAssumption == Overrides \subseteq [Options -> Values \cup {Undefined}]
ASSUME EditedAssumption == EditedNames \subseteq Names /\ EditedValues \subseteq Values

\* "module" owns what register() was given, "caller" an object of the
\* application's own, which it passes to create() or puts into defaults.
Owners == Instances \cup {"module", "caller"}
Refs == Owners \X Buckets

VARIABLES
  live,     \* the instances there are
  heap,     \* Refs -> the entries of an object, in insertion order
  at,       \* instance -> bucket -> the object its defaults refer to
  object,   \* what a value that is an object is sent as: its String(), its contents
  opt,      \* instance -> option -> its value in defaults
  module,   \* option -> its value in instanceOptions
  cache,    \* instance -> method -> the header base remembered, or none
  edits     \* changes made so far

vars == <<live, heap, at, object, opt, module, cache, edits>>

NoCache == [none |-> TRUE]

\* a ?? b
Or(a, b) == IF a \in {Absent, Undefined, Null} THEN b ELSE a

-----------------------------------------------------------------------------
(***************************************************************************)
(* mergeHeaders and the header base.                                       *)
(***************************************************************************)

Same(a, b) == Lower(a) = Lower(b)

\* A nullish value removes the name.
Removes(e) == e[2] \in {Undefined, Null}

\* The entries of an object, with String() of its values.
AsStrings(entries) ==
  [k \in DOMAIN entries |->
     <<entries[k][1], IF entries[k][2] = Object THEN object ELSE entries[k][2]>>]

\* The entries of s that stand at some of its places, in the same order.
Kept(s, places) ==
  LET upTo[k \in 0 .. Len(s)] ==
        IF k = 0 THEN <<>> ELSE IF k \in places THEN Append(upTo[k - 1], s[k]) ELSE upTo[k - 1]
  IN  upTo[Len(s)]

\* Mutant of MergeEntry: a name that is there already is added once more.
MergeEntryTwice(merged, e) ==
  IF Removes(e) THEN Kept(merged, {k \in DOMAIN merged : ~Same(merged[k][1], e[1])})
  ELSE Append(merged, e)

\* One entry more in the Map of mergeHeaders.
MergeEntry(merged, e) ==
  LET slots == {k \in DOMAIN merged : Same(merged[k][1], e[1])}
  IN  IF Removes(e) THEN Kept(merged, DOMAIN merged \ slots)
      ELSE IF slots = {} THEN Append(merged, e)
      ELSE [k \in DOMAIN merged |-> IF k \in slots THEN e ELSE merged[k]]

MergeHeaders(entries) ==
  LET upTo[k \in 0 .. Len(entries)] ==
        IF k = 0 THEN <<>> ELSE MergeEntry(upTo[k - 1], entries[k])
  IN  upTo[Len(entries)]

\* flatDefaultHeaders: own keys, without those set to undefined; if any.
HasFlat(own) == \E k \in DOMAIN own : own[k][2] # Undefined
FlatDefaultHeaders(own) ==
  IF HasFlat(own) THEN Kept(own, {k \in DOMAIN own : own[k][2] # Undefined}) ELSE <<>>

\* The six sources, lowest priority first; register()'s object is read live.
Sources(i, m) ==
  << heap[<<"module", "common">>], heap[<<"module", m>>], heap[<<"module", "flat">>],
     heap[at[i]["common"]], heap[at[i][m]], heap[at[i]["flat"]] >>

\* Mutant of MergeSources: the module's headers win over the defaults.
MergeSourcesModuleWins(s) ==
  MergeHeaders(AsStrings(s[4] \o s[5] \o FlatDefaultHeaders(s[6]))
               \o AsStrings(s[1] \o s[2] \o FlatDefaultHeaders(s[3])))

MergeSources(s) ==
  LET told == [k \in 1 .. 6 |-> AsStrings(s[k])]
  IN  MergeHeaders(told[1] \o told[2] \o FlatDefaultHeaders(told[3])
                   \o told[4] \o told[5] \o FlatDefaultHeaders(told[6]))

FreshBase(i, m) == MergeSources(Sources(i, m))

\* headersHaveWork, for sources s.
HaveWork(s) ==
  \/ s[4] # <<>> \/ s[5] # <<>> \/ HasFlat(s[6])
  \/ s[1] # <<>> \/ s[2] # <<>> \/ s[3] # <<>>

\* The buckets a headers object refers to.
HeadersAt(i) == [b \in HeaderBuckets |-> at[i][b]]

\* Mutant of SnapshotMatches: the values are not looked at again.
SnapshotMatchesNames(c, i, m) ==
  /\ c # NoCache
  /\ c.at = HeadersAt(i)
  /\ \A k \in 1 .. 6 :
       /\ Len(c.sources[k]) = Len(Sources(i, m)[k])
       /\ \A e \in DOMAIN c.sources[k] : c.sources[k][e][1] = Sources(i, m)[k][e][1]

\* The same objects, with the same keys in the same order and the same values.
SnapshotMatches(c, i, m) ==
  c # NoCache /\ c.at = HeadersAt(i) /\ c.sources = Sources(i, m)

\* A value that is an object can change while keys and values stay the same.
Cacheable(s) == \A k \in 1 .. 6 : \A e \in DOMAIN s[k] : s[k][e][2] # Object

\* The default and module headers a request by i starts from.
HeaderBase(i, m) ==
  IF SnapshotMatches(cache[i][m], i, m) THEN cache[i][m].base ELSE FreshBase(i, m)

-----------------------------------------------------------------------------
(***************************************************************************)
(* What an option comes to, by the ways a request can take: q is the       *)
(* request's own value, Absent when it has no such key.                    *)
(***************************************************************************)

\* Mutant of PipelineOption: a limit comes from the request or the module.
PipelineOptionModule(i, k, q) ==
  IF k = "maxContentLength" THEN Or(q, module[k]) ELSE Or(q, Or(opt[i][k], module[k]))

\* buildAxiosConfig; serializeAxiosConfig copies what is not undefined.
PipelineOption(i, k, q) ==
  LET config == IF k = "validateStatus" /\ q # Absent THEN q
                ELSE IF k = "onUploadProgress" THEN Or(q, opt[i][k])
                ELSE Or(q, Or(opt[i][k], module[k]))
  IN  IF config = Undefined THEN Absent ELSE config

\* normalizeAxiosRequest, over dispatchBaseOptions where it sets nothing.
FastOption(i, k, q) ==
  LET given == IF k = "validateStatus" THEN q # Absent ELSE q \notin {Absent, Undefined}
      default == IF k = "maxContentLength" THEN Or(opt[i][k], module[k]) ELSE opt[i][k]
  IN  IF k = "maxRedirects" THEN Or(q, Or(opt[i][k], module[k]))
      ELSE IF given THEN q
      ELSE IF default # Undefined THEN default
      ELSE IF q = Absent THEN module[k] ELSE Undefined

\* Whether normalizeAxiosRequest has anything to do for a request whose only
\* option is q for k: its own maxRedirects, a default it leaves open, headers.
NeedsWork(i, m, k, q) ==
  LET asked(j) == IF j = k THEN q ELSE Absent
      open(j) == IF j = "validateStatus" THEN asked(j) = Absent
                 ELSE asked(j) \in {Absent, Undefined}
  IN  \/ HaveWork(Sources(i, m))
      \/ ~open("maxRedirects")
      \/ \E j \in {"maxRedirects", "maxContentLength"} :
           open(j) /\ Or(opt[i][j], module[j]) \notin {Absent, Undefined}
      \/ \E j \in {"validateStatus", "responseType", "onUploadProgress"} :
           open(j) /\ opt[i][j] # Undefined

\* Undefined is as good as no key, except for validateStatus.
InEffect(k, v) == IF v = Undefined /\ k # "validateStatus" THEN Absent ELSE v

-----------------------------------------------------------------------------
(***************************************************************************)
(* Defaults: seeded from register()'s options, derived by create().        *)
(***************************************************************************)

\* mergeHeaderDefaults: each bucket is copied and the override's merged into
\* it; the override's own keys go to "common". No own key is carried over.
MergeHeaderDefaults(base, override) ==
  LET merged == [b \in Methods \cup {"common"} |->
                   IF override[b] = <<>> THEN base[b] ELSE MergeHeaders(AsStrings(base[b] \o override[b]))]
  IN  [b \in HeaderBuckets |->
         IF b = "flat" THEN <<>>
         ELSE IF b = "common" /\ HasFlat(override["flat"])
         THEN MergeHeaders(AsStrings(merged["common"] \o FlatDefaultHeaders(override["flat"])))
         ELSE merged[b]]

\* createAxiosRefDefaults' own headers.
BuiltIn(decompress) ==
  [b \in HeaderBuckets |->
     IF b # "common" THEN <<>>
     ELSE IF decompress THEN <<Accept, AcceptEncoding>> ELSE <<Accept>>]

\* Heap h with instance i's own objects made: headers and params.
Fill(h, i, headers, params) ==
  [r \in Refs |-> IF r[1] # i THEN h[r] ELSE IF r[2] = "params" THEN params ELSE headers[r[2]]]

OwnObjects(i) == [b \in Buckets |-> <<i, b>>]

\* register() and the constructor of HttpService.
Init ==
  \E c \in ModuleConfigs :
    LET given == [r \in Refs |-> IF r[1] = "module" THEN c.objects[r[2]] ELSE <<>>]
    IN  /\ object = c.object
        /\ heap = Fill(given, Root, MergeHeaderDefaults(BuiltIn(c.decompress), c.objects),
                       c.objects["params"])
        /\ live = {Root}
        /\ at = [i \in Instances |-> OwnObjects(i)]
        /\ module = c.options
        /\ opt = [i \in Instances |->
                    [k \in Options |-> IF i # Root \/ c.options[k] = Absent
                                       THEN Undefined ELSE c.options[k]]]
        /\ cache = [i \in Instances |-> [m \in Methods |-> NoCache]]
        /\ edits = 0

\* Mutant of ChildObjects: the parent's params are handed on as they are.
ChildObjectsShared(i, p) == [OwnObjects(i) EXCEPT !["params"] = at[p]["params"]]

\* What the defaults of i, made by p, refer to: copies of its own.
ChildObjects(i, p) == OwnObjects(i)

\* p.create(config): config's headers and params are the caller's objects,
\* its other options o.
Create(i, p, overridden, o) ==
  LET override == [b \in Buckets |-> IF overridden THEN heap[<<"caller", b>>] ELSE <<>>]
      parent == [b \in Buckets |-> heap[at[p][b]]]
  IN  /\ p \in live /\ i \notin live
      /\ live' = live \cup {i}
      /\ heap' = Fill(heap, i, MergeHeaderDefaults(parent, override),
                      IF override["params"] # <<>> THEN override["params"] ELSE parent["params"])
      /\ at' = [at EXCEPT ![i] = ChildObjects(i, p)]
      /\ opt' = [opt EXCEPT ![i] =
                   [k \in Options |-> IF o[k] # Undefined THEN o[k] ELSE opt[p][k]]]
      /\ UNCHANGED <<object, module, cache, edits>>

-----------------------------------------------------------------------------
(***************************************************************************)
(* Requests, and changes by whoever holds the objects.                     *)
(***************************************************************************)

\* The entry a request leaves. The request itself goes on with a copy of the
\* base, so what it adds to its headers does not get here.
Remembered(i, m) ==
  [at |-> HeadersAt(i), sources |-> Sources(i, m), base |-> FreshBase(i, m)]

\* Either path asks getHeaderBase for the headers to start from.
Request(i, m) ==
  /\ i \in live
  /\ ~SnapshotMatches(cache[i][m], i, m)
  /\ cache' = [cache EXCEPT ![i][m] =
                 IF Cacheable(Sources(i, m)) THEN Remembered(i, m) ELSE NoCache]
  /\ UNCHANGED <<live, heap, at, object, opt, module, edits>>

Edit ==
  /\ edits < MaxEdits
  /\ edits' = edits + 1
  /\ UNCHANGED <<live, module, cache>>

Edited == EditedValues \cup {Undefined, Null, Object}
Held == {r \in Refs : r[1] \in live \cup {"module", "caller"}}

\* held[name] = value: a key that is there keeps its place.
SetEntry(r, name, value) ==
  LET known == {k \in DOMAIN heap[r] : heap[r][k][1] = name}
  IN  /\ Edit
      /\ heap' = [heap EXCEPT ![r] =
                    IF known = {} THEN Append(@, <<name, value>>)
                    ELSE [k \in DOMAIN @ |-> IF k \in known THEN <<name, value>> ELSE @[k]]]
      /\ UNCHANGED <<at, object, opt>>

\* delete held[name]
DeleteEntry(r, name) ==
  /\ Edit
  /\ \E k \in DOMAIN heap[r] : heap[r][k][1] = name
  /\ heap' = [heap EXCEPT ![r] = Kept(@, {k \in DOMAIN @ : @[k][1] # name})]
  /\ UNCHANGED <<at, object, opt>>

\* defaults.headers[b], or defaults.params, is made an object the caller holds.
PutObject(i, b) ==
  /\ Edit
  /\ at' = [at EXCEPT ![i][b] = <<"caller", b>>]
  /\ UNCHANGED <<heap, object, opt>>

\* An object that is the value of a header, or a nested one in params, is changed
\* in place, through whichever instance: what it is sent as changes.
ChangeObject(value) ==
  /\ Edit
  /\ object' = value
  /\ UNCHANGED <<heap, at, opt>>

\* defaults[k] = value
SetOption(i, k, value) ==
  /\ Edit
  /\ opt' = [opt EXCEPT ![i][k] = value]
  /\ UNCHANGED <<heap, at, object>>

Next ==
  \/ \E i, p \in Instances, overridden \in BOOLEAN, o \in Overrides :
       Create(i, p, overridden, o)
  \/ \E i \in Instances, m \in Methods : Request(i, m)
  \/ \E r \in Held, name \in EditedNames, value \in Edited :
       SetEntry(r, name, value)
  \/ \E r \in Held, name \in EditedNames : DeleteEntry(r, name)
  \/ \E i \in live, b \in Buckets \ {"flat"} : PutObject(i, b)
  \/ \E value \in Values : ChangeObject(value)
  \/ \E i \in live, k \in Options, value \in Edited \ {Object} : SetOption(i, k, value)

Spec == Init /\ [][Next]_vars

-----------------------------------------------------------------------------
(***************************************************************************)
(* Properties.                                                             *)
(***************************************************************************)

\* Every object holds each key once, and only live instances have a header
\* base remembered, from sources without object values.
TypeOK ==
  /\ live \subseteq Instances /\ Root \in live
  /\ heap \in [Refs -> Seq(Names \X HeaderValues)]
  /\ \A r \in Refs : KeysOnce(heap[r])
  /\ at \in [Instances -> [Buckets -> Refs]]
  /\ object \in Values
  /\ opt \in [Instances -> [Options -> Values \cup {Undefined, Null}]]
  /\ module \in [Options -> Values \cup {Absent}]
  /\ \A i \in Instances, m \in Methods :
       cache[i][m] # NoCache => i \in live /\ Cacheable(cache[i][m].sources)
  /\ edits \in 0 .. MaxEdits

\* The cache is never seen: whatever was changed since a base was remembered,
\* through whichever reference, a request starts from the headers a merge of
\* the present sources would give (getHeaderBase).
CacheIsTransparent ==
  \A i \in live, m \in Methods : HeaderBase(i, m) = FreshBase(i, m)

\* What is sent under a name, in whatever casing, is what the last entry of
\* the highest source that mentions it says, and nothing if that is null:
\* module before defaults, in each common, then the method, then own keys.
HeadersFollowPrecedence ==
  \A i \in live, m \in Methods :
    LET s == Sources(i, m)
        told == [k \in 1 .. 6 |-> AsStrings(s[k])]
        base == HeaderBase(i, m)
        Mentions(name) ==
          UNION {{<<k, e>> : e \in {e \in DOMAIN s[k] :
                                      /\ Same(s[k][e][1], name)
                                      /\ k \in {3, 6} => s[k][e][2] # Undefined}}
                 : k \in 1 .. 6}
        Last(name) == {p \in Mentions(name) : \A q \in Mentions(name) :
                         q[1] < p[1] \/ (q[1] = p[1] /\ q[2] <= p[2])}
    IN  \A name \in Names :
          {base[k] : k \in {j \in DOMAIN base : Same(base[j][1], name)}}
            = {told[p[1]][p[2]] : p \in {q \in Last(name) : ~Removes(s[q[1]][q[2]])}}

\* All that a request by i without options of its own depends on, with what its
\* object-valued headers and params come to.
SentBy(i) ==
  << [m \in Methods |-> [k \in 1 .. 6 |-> AsStrings(Sources(i, m)[k])]],
     AsStrings(heap[at[i]["params"]]), opt[i] >>

\* i's own defaults are changed, or an object the caller put into them, or the
\* module's.
ReachesDefaultsOf(i) ==
  \/ opt'[i] # opt[i] \/ at'[i] # at[i]
  \/ \E b \in Buckets :
       \/ \E o \in {i, "module"} : heap'[<<o, b>>] # heap[<<o, b>>]
       \/ at[i][b] = <<"caller", b>> /\ heap'[<<"caller", b>>] # heap[<<"caller", b>>]

\* The contents of an object are changed that is a value in i's own defaults or
\* the module's.
ReachesValueOf(i) ==
  /\ object' # object
  /\ \E b \in Buckets : \E r \in {at[i][b], <<"module", b>>} :
       \E k \in DOMAIN heap[r] : heap[r][k][2] = Object

\* Instances are independent: what one sends is changed through its own
\* defaults only, never by another instance's being made, used or changed, nor
\* by the object its create() was given (createAxiosRef, mergeAxiosDefaults).
\* One level deep, that is: create() copies objects but not the objects in them,
\* so a change inside such a value reaches every instance that holds it.
InstancesAreApart ==
  [][\A i \in live :
       SentBy(i)' = SentBy(i) \/ ReachesDefaultsOf(i) \/ ReachesValueOf(i)]_vars

\* The ways through the code agree on every option. The fast path and the
\* pipeline differ only over a null, an explicit undefined or a callback
\* default that was withdrawn; and what normalizeAxiosRequest skips when it
\* finds nothing to do would have changed nothing.
RoutesAgree ==
  \A i \in live, k \in Options, q \in Values \cup {Absent, Undefined, Null} :
    /\ InEffect(k, FastOption(i, k, q)) # InEffect(k, PipelineOption(i, k, q)) =>
         \/ q \in {Undefined, Null}
         \/ opt[i][k] = Null
         \/ k = "onUploadProgress" /\ opt[i][k] = Undefined
    /\ \A m \in Methods : ~NeedsWork(i, m, k, q) =>
         /\ FreshBase(i, m) = <<>>
         /\ \A j \in Options :
              LET asked == IF j = k THEN q ELSE Absent
              IN  InEffect(j, FastOption(i, j, asked))
                    = InEffect(j, IF asked = Absent THEN module[j] ELSE asked)

\* Refuted. docs/http/http.service.md: register()'s options "seed `defaults`
\* once, at construction. From then on, `defaults` is the single source of
\* truth": a request starts from what the defaults alone say.
DefaultsAreTheSource ==
  \A i \in live, m \in Methods :
    LET now == HeaderBase(i, m)
        told == MergeSources([Sources(i, m) EXCEPT ![1] = <<>>, ![2] = <<>>, ![3] = <<>>])
    IN  {now[k] : k \in DOMAIN now} = {told[k] : k \in DOMAIN told}
=============================================================================
