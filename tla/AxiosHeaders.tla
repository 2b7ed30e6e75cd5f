----------------------------- MODULE AxiosHeaders -----------------------------
(***************************************************************************)
(* AxiosHeaders: a map from the lower-cased name of a header to the name it *)
(* was first set with and its value, behind a proxy that takes brackets.   *)
(* A value may be a list, which is an object others can hold and change:   *)
(* what goes into the map is copied, what toJSON() or get() gives out is   *)
(* not. The order of headers and the parsing of raw header strings are     *)
(* left out.                                                               *)
(***************************************************************************)
EXTENDS Naturals, FiniteSets, SequencesExt

CONSTANTS
  Objects,    \* the variables of the application that hold an AxiosHeaders
  Names,      \* header names, in the casings used
  Key(_),     \* a name trimmed and in lower case
  Titled(_),  \* a name as formatHeaderName writes it
  Members,    \* the names that are members of the class, "get" and the like
  Texts,      \* values that are no lists
  Off,        \* null and false, values that withhold a header
  False,
  Undefined,  \* no value
  Literals,   \* the headers an application writes, see LiteralsAssumption
  MaxLists    \* bound: lists that are kept, of those that one of them made

Keys == {Key(name) : name \in Names}
None == [none |-> TRUE]

\* A list is told apart by who made it, an object or the application, in which
\* of its calls, and the name it was made for.
Stamps == (Objects \cup {None}) \X (1 .. MaxLists)
Lists == Stamps \X (Names \cup Keys)
Values == Texts \cup Off \cup Lists
Entries == [name : Names, value : Values]
Maps == [Keys -> Entries \cup {None}]

\* Literals are sequences of names and values; AList is a list yet to be made.
AList == "a list"
ASSUME LiteralsAssumption ==
  /\ Literals \subseteq Seq([name : Names, value : Texts \cup Off \cup {Undefined, AList}])
  /\ Undefined \notin Values /\ AList \notin Values \cup {Undefined}
  /\ (Texts \cup Off) \cap Lists = {} /\ Off \cap Texts = {} /\ False \in Off
ASSUME ObjectsAssumption ==
  Objects \cap Seq([name : Names, value : Texts \cup Off \cup {Undefined, AList}]) = {}
ASSUME NamesAssumption ==
  /\ IsFiniteSet(Names) /\ Members \subseteq Names
  /\ \A name \in Names : Titled(name) \in Names /\ Key(Titled(name)) = Key(name)

VARIABLES
  store,  \* headers object -> key -> its entry
  plain,  \* a plain object with headers that the application has
  of,     \* the headers object whose toJSON() that is, or None
  answer  \* what the last call returned, TRUE if nothing in particular

vars == <<store, plain, of, answer>>

Empty == [k \in Keys |-> None]

\* Lists that somebody has.
ListsOf(o) == Lists \cap {store[o][k].value : k \in {k \in Keys : store[o][k] # None}}
ListsOfPlain == Lists \cap {plain[i].value : i \in DOMAIN plain}
Held == ListsOfPlain \cup UNION {ListsOf(o) : o \in Objects}
Fresh(stamp) == \A x \in Names \cup Keys : <<stamp, x>> \notin Held

\* What a call makes is told from all of them.
NewStamp(maker) == <<maker, CHOOSE n \in 1 .. MaxLists : Fresh(<<maker, n>>)>>
CanMake(maker) == \E n \in 1 .. MaxLists : Fresh(<<maker, n>>)

\* Mutant of Normalized: a list goes into the map as it is.
NormalizedInPlace(value, stamp, k) == value

\* normalizeHeaderValue: a list is copied.
Normalized(value, stamp, k) == IF value \in Lists THEN <<stamp, k>> ELSE value

\* Where a plain object mentions a header; null and false are mentions.
Mentions(k) == {i \in DOMAIN plain : Key(plain[i].name) = k /\ plain[i].value # Undefined}

\* The entries a source has for each key, first and last: an AxiosHeaders has
\* but one, a plain object one for each casing.
FirstOf(source, k) ==
  IF source \in Objects THEN store[source][k]
  ELSE IF Mentions(k) = {} THEN None
  ELSE plain[CHOOSE i \in Mentions(k) : \A j \in Mentions(k) : i <= j]
LastOf(source, k) ==
  IF source \in Objects THEN store[source][k]
  ELSE IF Mentions(k) = {} THEN None
  ELSE plain[CHOOSE i \in Mentions(k) : \A j \in Mentions(k) : j <= i]
Sources == Objects \cup {plain}

\* Mutant of SetInMap: the latest casing is kept.
SetInMapRenamed(entry, first, last, rewrite, stamp, k) ==
  IF first = None \/ (~rewrite /\ entry # None) THEN entry
  ELSE [name |-> last.name,
        value |-> Normalized((IF rewrite THEN last ELSE first).value, stamp, k)]

\* setInMap for all that is set for key k: the first casing stays; the last
\* value wins, unless rewrite is the very false: then only a header that is not
\* there is set.
SetInMap(entry, first, last, rewrite, stamp, k) ==
  IF first = None \/ (~rewrite /\ entry # None) THEN entry
  ELSE [name |-> (IF entry = None THEN first ELSE entry).name,
        value |-> Normalized((IF rewrite THEN last ELSE first).value, stamp, k)]

Merged(map, source, rewrite, stamp) ==
  [k \in Keys |-> SetInMap(map[k], FirstOf(source, k), LastOf(source, k), rewrite, stamp, k)]

\* The object in variable o has this map now; nothing else is touched.
Becomes(o, map) == store' = [store EXCEPT ![o] = map] /\ UNCHANGED <<plain, of>>

\* new AxiosHeaders(source), concat() and AxiosHeaders.concat(): a new object;
\* what its variable held before is given up.
Concat(o, sources, stamp) ==
  /\ store' = [store EXCEPT ![o] =
                 IF Len(sources) = 1 THEN Merged(Empty, sources[1], TRUE, stamp)
                 ELSE Merged(Merged(Empty, sources[1], TRUE, stamp), sources[2], TRUE, stamp)]
  /\ of' = IF of = o THEN None ELSE of
  /\ answer' = TRUE /\ UNCHANGED plain

\* set(name, value, rewrite), and setAccept() and its like with a value: of
\* rewrite only whether it is false is read.
Set(o, name, value, rewrite, stamp) ==
  LET entry == IF value = Undefined THEN None ELSE [name |-> name, value |-> value]
  IN  /\ Becomes(o, [store[o] EXCEPT ![Key(name)] =
                       SetInMap(@, entry, entry, rewrite, stamp, Key(name))])
      /\ answer' = TRUE

\* set(headers, rewrite).
SetAll(o, source, rewrite, stamp) ==
  Becomes(o, Merged(store[o], source, rewrite, stamp)) /\ answer' = TRUE

Refuse == answer' = FALSE /\ UNCHANGED <<store, plain, of>>

\* headers[name] = value.
Assign(o, name, value, stamp) ==
  IF name \in Members THEN Refuse ELSE Set(o, name, value, TRUE, stamp)

\* delete(names, matcher), clear(matcher), setAccept(false) and its like: the
\* entries there are of those that are named and that the matcher takes.
Delete(o, keys) ==
  LET there == {k \in keys : store[o][k] # None}
  IN  /\ Becomes(o, [k \in Keys |-> IF k \in there THEN None ELSE store[o][k]])
      /\ answer' = (there # {})

\* delete headers[name].
DeleteProperty(o, name) == IF name \in Members THEN Refuse ELSE Delete(o, {Key(name)})

\* normalize(true) writes every name anew.
Normalize(o) ==
  /\ Becomes(o, [k \in Keys |-> IF store[o][k] = None THEN None
                                ELSE [store[o][k] EXCEPT !.name = Titled(@)]])
  /\ answer' = TRUE

Shown(map) == {map[k] : k \in {k \in Keys : map[k] # None /\ map[k].value \notin Off}}

\* toJSON() leaves out what is withheld, and gives out the lists themselves.
ToJSON(o) ==
  /\ plain' \in SetToSeqs(Shown(store[o]))
  /\ of' = o
  /\ answer' = TRUE /\ UNCHANGED store

\* The application writes headers of its own, defaults for instance.
Write(literal, stamp) ==
  /\ plain' = [i \in DOMAIN literal |->
                 IF literal[i].value = AList THEN [literal[i] EXCEPT !.value = <<stamp, literal[i].name>>]
                 ELSE literal[i]]
  /\ of' = None
  /\ answer' = TRUE /\ UNCHANGED store

Init ==
  /\ store = [o \in Objects |-> Empty]
  /\ plain = <<>> /\ of = None /\ answer = TRUE

\* Calls that put something into a map may have to copy it.
Calls(o, stamp) ==
  \/ \E source \in Sources : Concat(o, <<source>>, stamp)
                             \/ \E other \in Sources : Concat(o, <<source, other>>, stamp)
  \/ \E source \in Sources, rewrite \in BOOLEAN : SetAll(o, source, rewrite, stamp)
  \/ \E name \in Names, value \in Texts \cup Off \cup {Undefined} \cup Held :
       \/ \E rewrite \in BOOLEAN : Set(o, name, value, rewrite, stamp)
       \/ Assign(o, name, value, stamp)

Next ==
  \/ \E o \in Objects :
       \/ CanMake(o) /\ Calls(o, NewStamp(o))
       \/ \E keys \in SUBSET Keys : Delete(o, keys)
       \/ \E name \in Names : DeleteProperty(o, name)
       \/ Normalize(o) \/ ToJSON(o)
  \/ CanMake(None) /\ \E literal \in Literals : Write(literal, NewStamp(None))

Spec == Init /\ [][Next]_vars

-----------------------------------------------------------------------------
(***************************************************************************)
(* Properties.                                                             *)
(***************************************************************************)

\* An entry is found under the key of its own name.
TypeOK ==
  /\ store \in [Objects -> Maps]
  /\ \A o \in Objects, k \in Keys : store[o][k] # None => Key(store[o][k].name) = k
  /\ plain \in Seq([name : Names, value : Values \cup {Undefined}])
  /\ of \in Objects \cup {None}
  /\ answer \in BOOLEAN

\* Whoever changes a list in place changes the headers of one object only: no
\* two objects share one, however they were made of each other, and none
\* shares one with defaults or headers the application wrote. Only what an
\* object's own toJSON() returned, the options of a request among it, does.
ListsStayApart ==
  /\ \A o, p \in Objects : o # p => ListsOf(o) \cap ListsOf(p) = {}
  /\ \A o \in Objects : of # o => ListsOf(o) \cap ListsOfPlain = {}
  /\ \A o \in Objects, k, l \in Keys :
       k # l /\ store[o][k] # None /\ store[o][l] # None /\ store[o][k].value \in Lists
       => store[o][k].value # store[o][l].value

\* An entry without the identity of its list.
Abstract(entry) == IF entry.value \in Lists THEN [entry EXCEPT !.value = AList] ELSE entry

\* The headers as axios keeps them.
Properties(map) == {Abstract(map[k]) : k \in {k \in Keys : map[k] # None}}
Props == [o \in Objects |-> Properties(store[o])]
Literal == [i \in DOMAIN plain |-> Abstract(plain[i])]
Axios == INSTANCE HeaderProperties WITH props <- Props, plain <- Literal
AsSource(source) == IF source \in Objects THEN source ELSE Literal
Header(name, value) == Abstract([name |-> name, value |-> value])

\* What a caller may give for rewrite; "matcher" is a string, an expression or
\* a function, which set() takes but does not try.
Rewrites(rewrite) == IF rewrite THEN {"true", "undefined", "matcher"} ELSE {"false"}

\* Where set() departs from axios: a header set to undefined, one that false or,
\* under a matcher, anything is in the way of.
InTheWay(P, entries, j) ==
  Axios!Find(P, entries[j].name) \cup
  {entries[i] : i \in {i \in 1 .. j - 1 : Key(entries[i].name) = Key(entries[j].name)}}
Departs(P, entries, rewrite) ==
  \E j \in DOMAIN entries :
    \/ entries[j].value = Undefined
    \/ rewrite = "undefined" /\ \E p \in InTheWay(P, entries, j) : p.value = False
    \/ rewrite = "matcher" /\ InTheWay(P, entries, j) # {}

\* What it does there: undefined sets nothing, false and matchers keep nothing.
PutHere(P, entry, rewrite) ==
  IF entry.value = Undefined THEN P
  ELSE Axios!Put(P, entry, IF rewrite THEN "true" ELSE "false")
PutEachHere(P, entries, rewrite) ==
  LET upTo[k \in 0 .. Len(entries)] ==
        IF k = 0 THEN P ELSE PutHere(upTo[k - 1], entries[k], rewrite)
  IN  upTo[Len(entries)]
PutAll(P, entries, rewrite) ==
  IF Departs(P, entries, rewrite) THEN PutEachHere(P, entries, rewrite # "false")
  ELSE Axios!PutEach(P, entries, rewrite)

\* An object is left with what putting these one after the other makes of P.
BecomesAll(o, P, entries, rewrite) ==
  Axios!Becomes(o, PutAll(P, entries, rewrite)) /\ answer' = TRUE

\* What the proxy refuses, in strict code with a TypeError; axios would not.
Refused == answer' = FALSE /\ UNCHANGED <<Props, Literal>>

\* Brackets find a header under any casing, take undefined for nothing, and
\* answer whether there was one to delete: axios' do not.
AssignsLikeAxios(o, name, value) ==
  LET entry == Header(name, value) IN
  IF name \in Members THEN Refused
  ELSE IF value = Undefined \/ \E p \in Axios!Find(Props[o], name) : p.name # name
  THEN Axios!Becomes(o, PutHere(Props[o], entry, TRUE)) /\ answer' = TRUE
  ELSE Axios!Assign(o, name, entry.value)
DeletesLikeAxios(o, name) ==
  IF name \in Members THEN Refused
  ELSE IF \A p \in Props[o] : p.name # name THEN Axios!Delete(o, Axios!Find(Props[o], name))
  ELSE Axios!DeleteProperty(o, name)

\* Calls that put something into a map.
EachCall(o, stamp) ==
  /\ \A source \in Sources :
       LET entries == Axios!EntriesOf(AsSource(source))
           one == PutAll({}, entries, "undefined")
       IN  /\ Concat(o, <<source>>, stamp) => Axios!Becomes(o, one) /\ answer' = TRUE
           /\ \A other \in Sources :
                Concat(o, <<source, other>>, stamp)
                => BecomesAll(o, one, Axios!EntriesOf(AsSource(other)), "undefined")
           /\ \A rewrite \in BOOLEAN :
                SetAll(o, source, rewrite, stamp)
                => \A any \in Rewrites(rewrite) : BecomesAll(o, Props[o], entries, any)
  /\ \A name \in Names, value \in Texts \cup Off \cup {Undefined} \cup Held :
       /\ \A rewrite \in BOOLEAN :
            Set(o, name, value, rewrite, stamp)
            => \A any \in Rewrites(rewrite) :
                 BecomesAll(o, Props[o], <<Header(name, value)>>, any)
       /\ Assign(o, name, value, stamp) => AssignsLikeAxios(o, name, value)

\* Each call leaves the headers, and answers, as the same call of axios does,
\* which the comments on the class say it is exactly like, or departs from it
\* as named above: casing, precedence, what is withheld and what calls answer,
\* through merges of objects with each other and with themselves.
LikeAxios ==
  /\ \A o \in Objects :
       /\ CanMake(o) => EachCall(o, NewStamp(o))
       /\ \A keys \in SUBSET Keys :
            Delete(o, keys) => Axios!Delete(o, {p \in Props[o] : Key(p.name) \in keys})
       /\ \A name \in Names : DeleteProperty(o, name) => DeletesLikeAxios(o, name)
       /\ Normalize(o) => Axios!Normalize(o)
       /\ ToJSON(o) => Axios!ToJSON(o)
  /\ \A literal \in Literals :
       CanMake(None) /\ Write(literal, NewStamp(None)) => Axios!Write(literal)
ImplementsAxios == Axios!Init /\ [][LikeAxios]_vars
=============================================================================
