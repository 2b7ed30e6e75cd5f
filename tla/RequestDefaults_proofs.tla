------------------------ MODULE RequestDefaults_proofs ------------------------
(***************************************************************************)
(* What RequestDefaults promises for any instances, methods, names, values *)
(* and module options, and any number of changes: the cache of header      *)
(* bases is never seen, instances are independent, the routes through the  *)
(* code agree on the options, and headers follow the precedence of their   *)
(* sources.                                                                *)
(***************************************************************************)
EXTENDS RequestDefaults, SequenceTheorems, WellFoundedInduction, TLAPS

\* What is remembered is a merge of what was looked at, none of it an object:
\* this, not transparency itself, is what every step keeps.
CacheInv ==
  /\ cache = [i \in Instances |-> [m \in Methods |-> cache[i][m]]]
  /\ \A i \in Instances, m \in Methods : cache[i][m] # NoCache =>
       /\ cache[i][m].base = MergeSources(cache[i][m].sources)
       /\ Cacheable(cache[i][m].sources)

\* An instance's defaults refer to its own objects and the caller's.
ObjectsInv ==
  /\ at = [i \in Instances |-> [b \in Buckets |-> at[i][b]]]
  /\ \A i \in Instances, b \in Buckets : at[i][b] \in {<<i, b>>, <<"caller", b>>}
  /\ live \subseteq Instances

\* Options have the values options can have.
OptionsInv ==
  /\ opt \in [Instances -> [Options -> Values \cup {Undefined, Null}]]
  /\ module \in [Options -> Values \cup {Absent}]
  /\ live \subseteq Instances

-----------------------------------------------------------------------------
(***************************************************************************)
(* The cache.                                                              *)
(***************************************************************************)

\* Sources without objects merge to the same headers, whatever String() makes
\* of objects now.
LEMMA MergeOfCacheable ==
  ASSUME NEW s, Cacheable(s)
  PROVE  MergeSources(s)' = MergeSources(s)
<1> DEFINE Told(k) == AsStrings(s[k])
<1>1. ASSUME NEW k \in 1 .. 6
      PROVE  AsStrings(s[k])' = AsStrings(s[k])
  <2>1. \A e \in DOMAIN s[k] : s[k][e][2] # Object
    BY DEF Cacheable
  <2>2. QED BY <2>1 DEF AsStrings
<1>2. [k \in 1 .. 6 |-> AsStrings(s[k])]' = [k \in 1 .. 6 |-> AsStrings(s[k])]
  BY <1>1
<1>3. QED BY <1>2 DEF MergeSources

LEMMA CacheInit == Init => CacheInv
  BY DEF Init, CacheInv

LEMMA CacheStep ==
  ASSUME CacheInv, [Next]_vars
  PROVE  CacheInv'
<1>1. CASE cache' = cache
  <2>1. ASSUME NEW i \in Instances, NEW m \in Methods, cache[i][m] # NoCache
        PROVE  (cache[i][m].base = MergeSources(cache[i][m].sources))'
               /\ Cacheable(cache[i][m].sources)'
    <3>1. PICK c : c = cache[i][m]
      OBVIOUS
    <3>2. c.base = MergeSources(c.sources) /\ Cacheable(c.sources)
      BY <2>1, <3>1 DEF CacheInv
    <3>3. MergeSources(c.sources)' = MergeSources(c.sources)
      BY <3>2, MergeOfCacheable
    <3>4. c = cache'[i][m]
      BY <1>1, <3>1
    <3>5. (MergeSources(cache[i][m].sources))' = MergeSources(c.sources)'
      BY <3>4 DEF MergeSources, AsStrings
    <3>6. QED BY <3>2, <3>3, <3>4, <3>5 DEF Cacheable
  <2>2. QED BY <1>1, <2>1 DEF CacheInv
<1>2. CASE \E i \in Instances, m \in Methods : Request(i, m)
  <2>1. PICK i \in Instances, m \in Methods : Request(i, m)
    BY <1>2
  <2> DEFINE new == IF Cacheable(Sources(i, m)) THEN Remembered(i, m) ELSE NoCache
  <2>2. cache' = [cache EXCEPT ![i][m] = new] /\ object' = object
    BY <2>1 DEF Request
  <2>3. new # NoCache =>
          new.base = MergeSources(new.sources) /\ Cacheable(new.sources)
    BY DEF Remembered, FreshBase, NoCache
  <2> HIDE DEF new
  <2>4. cache' = [j \in Instances |-> [n \in Methods |-> cache'[j][n]]]
    BY <2>2 DEF CacheInv
  <2>5. ASSUME NEW j \in Instances, NEW n \in Methods, cache'[j][n] # NoCache
        PROVE  (cache[j][n].base = MergeSources(cache[j][n].sources))'
               /\ Cacheable(cache[j][n].sources)'
    <3>1. PICK c : c = cache'[j][n]
      OBVIOUS
    <3>2. c = IF j = i /\ n = m THEN new ELSE cache[j][n]
      BY <2>2, <3>1 DEF CacheInv
    <3>3. c.base = MergeSources(c.sources) /\ Cacheable(c.sources)
      BY <2>3, <2>5, <3>1, <3>2 DEF CacheInv
    <3>4. MergeSources(c.sources)' = MergeSources(c.sources)
      BY <3>3, MergeOfCacheable
    <3>5. (MergeSources(cache[j][n].sources))' = MergeSources(c.sources)'
      BY <3>1 DEF MergeSources, AsStrings
    <3>6. QED BY <3>1, <3>3, <3>4, <3>5 DEF Cacheable
  <2>6. QED BY <2>4, <2>5 DEF CacheInv
<1>3. QED
  BY <1>1, <1>2 DEF Next, vars, Create, SetEntry, DeleteEntry, PutObject,
     ChangeObject, SetOption, Edit

-----------------------------------------------------------------------------
(***************************************************************************)
(* The objects of instances.                                               *)
(***************************************************************************)

LEMMA ObjectsInit == Init => ObjectsInv
  BY RootAssumption DEF Init, ObjectsInv, OwnObjects

LEMMA ObjectsStep ==
  ASSUME ObjectsInv, [Next]_vars
  PROVE  ObjectsInv'
<1>1. CASE UNCHANGED <<live, at>>
  BY <1>1 DEF ObjectsInv
<1>2. ASSUME NEW i \in Instances, NEW p \in Instances, NEW overridden, NEW o,
             Create(i, p, overridden, o)
      PROVE  ObjectsInv'
  <2>1. at' = [at EXCEPT ![i] = [b \in Buckets |-> <<i, b>>]] /\ live' = live \cup {i}
    BY <1>2 DEF Create, ChildObjects, OwnObjects
  <2>2. QED BY <2>1 DEF ObjectsInv
<1>3. ASSUME NEW i \in live, NEW b \in Buckets, PutObject(i, b)
      PROVE  ObjectsInv'
  BY <1>3 DEF ObjectsInv, PutObject, Edit
<1>4. QED
  BY <1>1, <1>2, <1>3 DEF Next, vars, Request, ChangeObject, SetOption, SetEntry,
     DeleteEntry, Edit

\* The objects others hold, the caller's aside, are not what i's defaults are
\* made of; so what i sends is changed by no step but one that reaches those, or
\* an object that is a value in them.
LEMMA ApartStep ==
  ASSUME ObjectsInv, [Next]_vars, NEW i \in live
  PROVE  SentBy(i)' = SentBy(i) \/ ReachesDefaultsOf(i) \/ ReachesValueOf(i)
<1> SUFFICES ASSUME ~ReachesDefaultsOf(i), ~ReachesValueOf(i) PROVE SentBy(i)' = SentBy(i)
  OBVIOUS
<1>1. opt'[i] = opt[i] /\ at'[i] = at[i]
  BY DEF ReachesDefaultsOf
<1>2. \A b \in Buckets : heap'[<<"module", b>>] = heap[<<"module", b>>]
  BY DEF ReachesDefaultsOf
<1>3. ASSUME NEW b \in Buckets PROVE heap'[at[i][b]] = heap[at[i][b]]
  <2>1. heap'[<<i, b>>] = heap[<<i, b>>]
    BY DEF ReachesDefaultsOf
  <2>2. at[i][b] = <<"caller", b>> => heap'[<<"caller", b>>] = heap[<<"caller", b>>]
    BY DEF ReachesDefaultsOf
  <2>3. i \in Instances /\ at[i][b] \in {<<i, b>>, <<"caller", b>>}
    BY DEF ObjectsInv
  <2>4. QED BY <2>1, <2>2, <2>3
<1>4. ASSUME NEW r, heap'[r] = heap[r],
             object' = object \/ \A k \in DOMAIN heap[r] : heap[r][k][2] # Object
      PROVE  AsStrings(heap[r])' = AsStrings(heap[r])
  BY <1>4 DEF AsStrings
<1>5. ASSUME NEW b \in Buckets, NEW r \in {at[i][b], <<"module", b>>}
      PROVE  AsStrings(heap[r])' = AsStrings(heap[r])
  <2>1. object' = object \/ \A k \in DOMAIN heap[r] : heap[r][k][2] # Object
    BY DEF ReachesValueOf
  <2> QED BY <1>2, <1>3, <1>4, <2>1
<1>6. ASSUME NEW m \in Methods, NEW k \in 1 .. 6
      PROVE  AsStrings(Sources(i, m)[k])' = AsStrings(Sources(i, m)[k])
  <2>1. "common" \in Buckets /\ m \in Buckets /\ "flat" \in Buckets
    BY DEF Buckets, HeaderBuckets
  <2>2. Sources(i, m)'[k] = Sources(i, m)[k]
    BY <1>1, <1>2, <1>3, <2>1 DEF Sources
  <2>3. \E b \in Buckets : \E r \in {at[i][b], <<"module", b>>} : Sources(i, m)[k] = heap[r]
    <3>1. \A b \in Buckets : at[i][b] \in {at[i][b], <<"module", b>>}
                             /\ <<"module", b>> \in {at[i][b], <<"module", b>>}
      OBVIOUS
    <3>2. CASE k \in {1, 2, 3}
      BY <2>1, <3>1, <3>2 DEF Sources
    <3>3. CASE k \in {4, 5, 6}
      BY <2>1, <3>1, <3>3 DEF Sources
    <3> QED BY <3>2, <3>3
  <2>4. PICK b \in Buckets : \E r \in {at[i][b], <<"module", b>>} : Sources(i, m)[k] = heap[r]
    BY <2>3
  <2>5. PICK r \in {at[i][b], <<"module", b>>} : Sources(i, m)[k] = heap[r]
    BY <2>4
  <2>6. object' = object \/ \A e \in DOMAIN Sources(i, m)[k] : Sources(i, m)[k][e][2] # Object
    BY <2>5 DEF ReachesValueOf
  <2>7. PICK s : s = Sources(i, m)[k]
    OBVIOUS
  <2>8. s = Sources(i, m)'[k]
    BY <2>2, <2>7
  <2> QED BY <2>6, <2>7, <2>8 DEF AsStrings
<1>7. AsStrings(heap[at[i]["params"]])' = AsStrings(heap[at[i]["params"]])
  BY <1>1, <1>5 DEF Buckets
<1>8. [m \in Methods |-> [k \in 1 .. 6 |-> AsStrings(Sources(i, m)[k])]]'
        = [m \in Methods |-> [k \in 1 .. 6 |-> AsStrings(Sources(i, m)[k])]]
  BY <1>6
<1>9. QED BY <1>1, <1>7, <1>8 DEF SentBy

\* Making, using or changing an instance changes nothing another one sends, nor
\* does the object create() was given (createAxiosRef, mergeAxiosDefaults) -
\* except inside a value that is itself an object, which create() does not copy.
THEOREM InstancesStayApart == Spec => InstancesAreApart
<1>1. Init => ObjectsInv
  BY ObjectsInit
<1>2. ObjectsInv /\ [Next]_vars => ObjectsInv'
  BY ObjectsStep
<1>3. ObjectsInv /\ [Next]_vars =>
        [\A i \in live :
           SentBy(i)' = SentBy(i) \/ ReachesDefaultsOf(i) \/ ReachesValueOf(i)]_vars
  BY ApartStep
<1>4. QED BY <1>1, <1>2, <1>3, PTL DEF Spec, InstancesAreApart

\* A base that still matches is what a merge of the sources gives.
LEMMA CacheInvImplies == CacheInv /\ ObjectsInv => CacheIsTransparent
  BY DEF CacheInv, ObjectsInv, CacheIsTransparent, HeaderBase, SnapshotMatches, FreshBase

\* No change made through any reference, by whoever holds it, is hidden by the
\* cache of header bases (getHeaderBase).
THEOREM CacheNeverSeen == Spec => []CacheIsTransparent
<1>1. Init => CacheInv /\ ObjectsInv
  BY CacheInit, ObjectsInit
<1>2. CacheInv /\ ObjectsInv /\ [Next]_vars => (CacheInv /\ ObjectsInv)'
  BY CacheStep, ObjectsStep
<1>3. QED BY <1>1, <1>2, CacheInvImplies, PTL DEF Spec

-----------------------------------------------------------------------------
(***************************************************************************)
(* The options.                                                            *)
(***************************************************************************)

LEMMA OptionsInit == Init => OptionsInv
<1> SUFFICES ASSUME Init PROVE OptionsInv
  OBVIOUS
<1>1. PICK c \in ModuleConfigs :
        /\ live = {Root} /\ module = c.options
        /\ opt = [i \in Instances |->
                    [k \in Options |-> IF i # Root \/ c.options[k] = Absent
                                       THEN Undefined ELSE c.options[k]]]
  BY DEF Init
<1>2. c.options \in [Options -> Values \cup {Absent}]
  BY ConfigsAssumption
<1>3. QED BY <1>1, <1>2, RootAssumption DEF OptionsInv

LEMMA OptionsStep ==
  ASSUME OptionsInv, [Next]_vars
  PROVE  OptionsInv'
<1>1. CASE UNCHANGED <<live, opt, module>>
  BY <1>1 DEF OptionsInv
<1>2. ASSUME NEW i \in Instances, NEW p \in Instances, NEW overridden,
             NEW o \in Overrides, Create(i, p, overridden, o)
      PROVE  OptionsInv'
  <2>1. o \in [Options -> Values \cup {Undefined}]
    BY OverridesAssumption
  <2>2. QED BY <1>2, <2>1 DEF OptionsInv, Create
<1>3. ASSUME NEW i \in live, NEW k \in Options, NEW value \in Edited \ {Object},
             SetOption(i, k, value)
      PROVE  OptionsInv'
  <2>1. value \in Values \cup {Undefined, Null}
    BY EditedAssumption DEF Edited
  <2>2. QED BY <1>3, <2>1 DEF OptionsInv, SetOption, Edit
<1>4. QED
  BY <1>1, <1>2, <1>3 DEF Next, vars, Request, ChangeObject, SetEntry, DeleteEntry,
     PutObject, Edit

\* The fast path and the pipeline, for an option the request leaves out or
\* gives a value, whose default is not null and no withdrawn callback.
LEMMA PathsAgree ==
  ASSUME OptionsInv, NEW i \in live, NEW k \in Options,
         NEW q \in Values \cup {Absent, Undefined, Null},
         q \notin {Undefined, Null}, opt[i][k] # Null,
         k # "onUploadProgress" \/ opt[i][k] # Undefined
  PROVE  InEffect(k, FastOption(i, k, q)) = InEffect(k, PipelineOption(i, k, q))
<1>1. i \in Instances /\ opt[i][k] \in Values \cup {Undefined, Null}
      /\ module[k] \in Values \cup {Absent}
  BY DEF OptionsInv
<1>2. Absent # Undefined /\ Absent # Null /\ Undefined # Null
      /\ \A v \in Values : v \notin {Absent, Undefined, Null}
  BY ValuesAssumption DEF Absent, Undefined, Null
<1> HIDE DEF Absent, Undefined, Null
<1>3. QED BY <1>1, <1>2 DEF InEffect, FastOption, PipelineOption, Or, Options

\* A merge of nothing is nothing.
LEMMA MergeNothing == MergeHeaders(<<>>) = <<>>
<1> DEFINE F(f) == [k \in 0 .. Len(<<>>) |->
                      IF k = 0 THEN <<>> ELSE MergeEntry(f[k - 1], (<<>>)[k])]
           upTo == CHOOSE f : f = F(f)
           nothing == [k \in 0 .. Len(<<>>) |-> <<>>]
<1>1. 0 .. Len(<<>>) = {0}
  OBVIOUS
<1>2. nothing = F(nothing)
  BY <1>1
<1>3. upTo = F(upTo)
  BY <1>2
<1>4. upTo[0] = <<>>
  BY <1>1, <1>3
<1>5. MergeHeaders(<<>>) = upTo[0]
  BY DEF MergeHeaders
<1>6. QED BY <1>4, <1>5

\* When there is no work to do, there are no headers to merge either.
LEMMA NoWorkNoHeaders ==
  ASSUME NEW i, NEW m, ~HaveWork(Sources(i, m))
  PROVE  FreshBase(i, m) = <<>>
<1> DEFINE s == Sources(i, m)
           told == [k \in 1 .. 6 |-> AsStrings(s[k])]
<1>1. s[1] = <<>> /\ s[2] = <<>> /\ s[3] = <<>> /\ s[4] = <<>> /\ s[5] = <<>> /\ ~HasFlat(s[6])
  BY DEF HaveWork
<1> HIDE DEF s
<1>2. AsStrings(<<>>) = <<>>
  BY DEF AsStrings
<1>3. ~HasFlat(AsStrings(s[6]))
  BY <1>1 DEF HasFlat, AsStrings, Object, Undefined
<1>4. ~HasFlat(<<>>)
  BY DEF HasFlat
<1>5. /\ told[1] = <<>> /\ told[2] = <<>> /\ told[4] = <<>> /\ told[5] = <<>>
      /\ FlatDefaultHeaders(told[3]) = <<>> /\ FlatDefaultHeaders(told[6]) = <<>>
  BY <1>1, <1>2, <1>3, <1>4 DEF FlatDefaultHeaders
<1>6. MergeSources(s) = MergeHeaders(<<>> \o <<>> \o <<>> \o <<>> \o <<>> \o <<>>)
  BY <1>5, Zenon DEF MergeSources
<1>7. <<>> \o <<>> \o <<>> \o <<>> \o <<>> \o <<>> = <<>>
  OBVIOUS
<1>8. QED BY <1>6, <1>7, MergeNothing DEF FreshBase, s

\* What normalizeAxiosRequest skips would have changed nothing.
LEMMA SkippedIsNothing ==
  ASSUME OptionsInv, NEW i \in live, NEW k \in Options, NEW m \in Methods,
         NEW q \in Values \cup {Absent, Undefined, Null}, ~NeedsWork(i, m, k, q),
         NEW j \in Options
  PROVE  LET asked == IF j = k THEN q ELSE Absent
         IN  InEffect(j, FastOption(i, j, asked))
               = InEffect(j, IF asked = Absent THEN module[j] ELSE asked)
<1>1. i \in Instances /\ opt[i][j] \in Values \cup {Undefined, Null}
      /\ module[j] \in Values \cup {Absent}
  BY DEF OptionsInv
<1>2. Absent # Undefined /\ Absent # Null /\ Undefined # Null
      /\ \A v \in Values : v \notin {Absent, Undefined, Null}
  BY ValuesAssumption DEF Absent, Undefined, Null
<1> HIDE DEF Absent, Undefined, Null
<1>3. QED BY <1>1, <1>2 DEF InEffect, FastOption, NeedsWork, Or, Options

\* The ways through the code agree on every option, but for nulls, explicit
\* undefineds and withdrawn callbacks (normalizeAxiosRequest, buildAxiosConfig).
THEOREM RoutesAlwaysAgree == Spec => []RoutesAgree
<1>1. Init => OptionsInv
  BY OptionsInit
<1>2. OptionsInv /\ [Next]_vars => OptionsInv'
  BY OptionsStep
<1>3. OptionsInv => RoutesAgree
  <2> SUFFICES ASSUME OptionsInv, NEW i \in live, NEW k \in Options,
                      NEW q \in Values \cup {Absent, Undefined, Null}
               PROVE  /\ InEffect(k, FastOption(i, k, q)) # InEffect(k, PipelineOption(i, k, q)) =>
                           \/ q \in {Undefined, Null}
                           \/ opt[i][k] = Null
                           \/ k = "onUploadProgress" /\ opt[i][k] = Undefined
                      /\ \A m \in Methods : ~NeedsWork(i, m, k, q) =>
                           /\ FreshBase(i, m) = <<>>
                           /\ \A j \in Options :
                                LET asked == IF j = k THEN q ELSE Absent
                                IN  InEffect(j, FastOption(i, j, asked))
                                      = InEffect(j, IF asked = Absent THEN module[j] ELSE asked)
    BY DEF RoutesAgree
  <2>1. InEffect(k, FastOption(i, k, q)) # InEffect(k, PipelineOption(i, k, q)) =>
          \/ q \in {Undefined, Null}
          \/ opt[i][k] = Null
          \/ k = "onUploadProgress" /\ opt[i][k] = Undefined
    BY PathsAgree
  <2>2. ASSUME NEW m \in Methods, ~NeedsWork(i, m, k, q)
        PROVE  FreshBase(i, m) = <<>>
    BY <2>2, NoWorkNoHeaders DEF NeedsWork
  <2>3. QED BY <2>1, <2>2, SkippedIsNothing
<1>4. QED BY <1>1, <1>2, <1>3, PTL DEF Spec

-----------------------------------------------------------------------------
(***************************************************************************)
(* Going through a sequence, entry by entry.                               *)
(***************************************************************************)

LEMMA Smallest ==
  ASSUME NEW T, T \subseteq Nat, T # {}
  PROVE  \E x \in T : \A y \in T : x <= y
<1>1. PICK x \in T : \A y \in T : <<y, x>> \notin OpToRel(<, Nat)
  BY NatLessThanWellFounded, WFMin
<1>2. ASSUME NEW y \in T PROVE x <= y
  <2>1. ~(y < x)
    BY <1>1 DEF OpToRel
  <2> QED BY <2>1
<1> QED BY <1>2

LEMMA Largest ==
  ASSUME NEW n \in Nat, NEW T, T \subseteq 1 .. n, T # {}
  PROVE  \E x \in T : \A y \in T : y <= x
<1> DEFINE R == {n - x : x \in T}
<1>1. R \subseteq Nat /\ R # {}
  OBVIOUS
<1>2. PICK r \in R : \A y \in R : r <= y
  BY <1>1, Smallest
<1>3. PICK x \in T : r = n - x
  OBVIOUS
<1>4. ASSUME NEW y \in T PROVE y <= x
  <2>1. n - y \in R
    OBVIOUS
  <2>2. n - x <= n - y
    BY <1>2, <1>3, <2>1
  <2> QED BY <2>2
<1> QED BY <1>4

\* What holds before the first entry, and past each if it held before it, holds
\* all the way.
LEMMA UpTo ==
  ASSUME NEW n \in Nat, NEW T, 0 \in T, \A m \in 1 .. n : m - 1 \in T => m \in T
  PROVE  \A m \in 0 .. n : m \in T
<1> DEFINE F == {m \in 0 .. n : m \notin T}
<1>1. ASSUME F # {} PROVE FALSE
  <2>1. F \subseteq Nat
    OBVIOUS
  <2>2. PICK x \in F : \A y \in F : x <= y
    BY <1>1, <2>1, Smallest
  <2>3. x \in 0 .. n /\ x \notin T /\ x # 0
    BY <2>2
  <2>4. x - 1 \notin F
    BY <2>2, <2>3
  <2>5. x - 1 \in T
    BY <2>3, <2>4
  <2> QED BY <2>3, <2>5
<1> QED BY <1>1

\* A step for every entry makes a result for every prefix.
GoesThrough(h, n, a, step) == h[0] = a /\ \A k \in 1 .. n : h[k] = step[k][h[k - 1]]

LEMMA GoingThrough ==
  ASSUME NEW n \in Nat, NEW S, NEW a \in S, NEW step \in [1 .. n -> [S -> S]]
  PROVE  \E h \in [0 .. n -> S] : GoesThrough(h, n, a, step)
<1> DEFINE Is(h, m) == h[0] = a /\ \A k \in 1 .. m : h[k] = step[k][h[k - 1]]
           Has(m) == \E h \in [0 .. m -> S] : Is(h, m)
           T == {m \in 0 .. n : Has(m)}
<1>1. 0 \in T
  <2>1. [k \in 0 .. 0 |-> a] \in [0 .. 0 -> S] /\ Is([k \in 0 .. 0 |-> a], 0)
    OBVIOUS
  <2>2. Has(0)
    BY <2>1
  <2> HIDE DEF Has
  <2> QED BY <2>2
<1>2. ASSUME NEW m \in 1 .. n, m - 1 \in T PROVE m \in T
  <2>1. PICK g \in [0 .. (m - 1) -> S] : Is(g, m - 1)
    BY <1>2
  <2> DEFINE last == step[m][g[m - 1]]
             h == [k \in 0 .. m |-> IF k = m THEN last ELSE g[k]]
  <2>2. g[m - 1] \in S
    BY <2>1
  <2>3. last \in S
    BY <2>2
  <2> HIDE DEF last
  <2>4. h \in [0 .. m -> S]
    BY <2>1, <2>3
  <2>5. h[0] = a
    BY <2>1
  <2>6. ASSUME NEW k \in 1 .. m PROVE h[k] = step[k][h[k - 1]]
    <3>1. h[k - 1] = g[k - 1]
      OBVIOUS
    <3>2. CASE k = m
      <4>1. h[k] = last
        BY <3>2
      <4> HIDE DEF h
      <4> QED BY <3>1, <3>2, <4>1 DEF last
    <3>3. CASE k # m
      BY <2>1, <3>1, <3>3
    <3> QED BY <3>2, <3>3
  <2>7. Is(h, m)
    BY <2>5, <2>6
  <2> HIDE DEF h, Is
  <2> QED BY <2>4, <2>7
<1>3. \A m \in 0 .. n : m \in T
  <2> HIDE DEF T
  <2> QED BY <1>1, <1>2, UpTo
<1>4. n \in T
  BY <1>3
<1> QED BY <1>4 DEF GoesThrough

-----------------------------------------------------------------------------
(***************************************************************************)
(* What is kept of a sequence.                                             *)
(***************************************************************************)

\* One place further in what is kept.
Further(kept, e, keep) == IF keep THEN Append(kept, e) ELSE kept

\* The recursive function in Kept exists.
LEMMA KeptExists ==
  ASSUME NEW S, NEW s \in Seq(S), NEW places
  PROVE  \E h \in [0 .. Len(s) -> Seq(S)] :
           /\ h[0] = <<>>
           /\ \A k \in 1 .. Len(s) : h[k] = Further(h[k - 1], s[k], k \in places)
           /\ Kept(s, places) = h[Len(s)]
<1> DEFINE n == Len(s)
           step == [k \in 1 .. n |-> [x \in Seq(S) |-> Further(x, s[k], k \in places)]]
           F(h) == [k \in 0 .. n |->
                      IF k = 0 THEN <<>>
                      ELSE IF k \in places THEN Append(h[k - 1], s[k]) ELSE h[k - 1]]
<1>1. n \in Nat /\ DOMAIN s = 1 .. n
  OBVIOUS
<1>2. step \in [1 .. n -> [Seq(S) -> Seq(S)]]
  <2>1. ASSUME NEW x \in Seq(S), NEW k \in 1 .. n PROVE Further(x, s[k], k \in places) \in Seq(S)
    <3>1. s[k] \in S
      BY <1>1, ElementOfSeq
    <3> QED BY <3>1 DEF Further
  <2> HIDE DEF n
  <2> QED BY <2>1
<1>3. PICK h \in [0 .. n -> Seq(S)] : GoesThrough(h, n, <<>>, step)
  <2>1. <<>> \in Seq(S) /\ n \in Nat
    OBVIOUS
  <2> HIDE DEF n, step
  <2> QED BY <1>2, <2>1, GoingThrough
<1>4. h[0] = <<>> /\ \A k \in 1 .. n : h[k] = Further(h[k - 1], s[k], k \in places)
  <2>1. h[0] = <<>>
    BY <1>3 DEF GoesThrough
  <2>2. ASSUME NEW k \in 1 .. n PROVE h[k] = Further(h[k - 1], s[k], k \in places)
    <3>1. k - 1 \in 0 .. n
      BY <1>1
    <3>2. h[k - 1] \in Seq(S)
      BY <1>3, <3>1, Zenon
    <3> HIDE DEF n
    <3> QED BY <1>3, <3>2, Zenon DEF GoesThrough
  <2> QED BY <2>1, <2>2
<1>5. h = F(h)
  <2>1. \A k \in 0 .. n : k # 0 => k \in 1 .. n
    BY <1>1
  <2>2. h = [k \in 0 .. n |-> h[k]]
    BY <1>3
  <2> QED BY <1>3, <1>4, <2>1, <2>2, Zenon DEF Further
<1> DEFINE upTo == CHOOSE f : f = F(f)
<1>6. upTo = F(upTo)
  <2> HIDE DEF F
  <2> QED BY <1>5
<1>7. Kept(s, places) = upTo[n]
  BY DEF Kept
<1>8. \A k \in 1 .. n : upTo[k] = Further(upTo[k - 1], s[k], k \in places)
  <2>1. \A k \in 1 .. n : k \in 0 .. n /\ k # 0
    BY <1>1
  <2> HIDE DEF upTo
  <2> QED BY <1>6, <2>1, Zenon DEF Further
<1>9. upTo[0] = <<>> /\ upTo = [k \in 0 .. n |-> upTo[k]]
  <2>1. 0 \in 0 .. n
    BY <1>1
  <2>2. upTo = [k \in 0 .. n |-> upTo[k]]
    <3> HIDE DEF upTo
    <3> QED BY <1>6
  <2> HIDE DEF upTo
  <2> QED BY <1>6, <2>1, <2>2
<1>10. \A m \in 0 .. n : upTo[m] \in Seq(S)
  <2> DEFINE T == {m \in 0 .. n : upTo[m] \in Seq(S)}
  <2> HIDE DEF upTo
  <2>1. 0 \in T
    <3>1. upTo[0] \in Seq(S)
      BY <1>9
    <3> QED BY <1>1, <3>1
  <2>2. ASSUME NEW m \in 1 .. n, m - 1 \in T PROVE m \in T
    <3>1. upTo[m - 1] \in Seq(S) /\ s[m] \in S
      BY <1>1, <2>2, ElementOfSeq
    <3>2. upTo[m] \in Seq(S)
      <4>1. upTo[m] = Further(upTo[m - 1], s[m], m \in places)
        BY <1>8
      <4> QED BY <3>1, <4>1 DEF Further
    <3> QED BY <1>1, <3>2
  <2>3. \A m \in 0 .. n : m \in T
    <3> HIDE DEF T, n
    <3> QED BY <1>1, <2>1, <2>2, UpTo
  <2> QED BY <2>3
<1> HIDE DEF upTo, n
<1>11. upTo \in [0 .. n -> Seq(S)]
  BY <1>9, <1>10
<1> QED BY <1>7, <1>8, <1>9, <1>11 DEF n

\* t is what stands in s at the places P, in the same order: p says where.
Stands(p, t, s, P) ==
  /\ p \in [DOMAIN t -> P]
  /\ \A a \in DOMAIN t : t[a] = s[p[a]]
  /\ \A a, b \in DOMAIN t : a < b => p[a] < p[b]
  /\ \A k \in P : \E a \in DOMAIN t : p[a] = k

LEMMA KeptStands ==
  ASSUME NEW S, NEW s \in Seq(S), NEW places
  PROVE  /\ Kept(s, places) \in Seq(S)
         /\ \E p : Stands(p, Kept(s, places), s, places \cap DOMAIN s)
<1> DEFINE n == Len(s)
<1>1. n \in Nat /\ DOMAIN s = 1 .. n
  OBVIOUS
<1>2. PICK h \in [0 .. n -> Seq(S)] :
           /\ h[0] = <<>>
           /\ \A k \in 1 .. n : h[k] = Further(h[k - 1], s[k], k \in places)
           /\ Kept(s, places) = h[n]
  BY KeptExists, ZenonT(60)
<1> DEFINE Settled(m) == \E p : Stands(p, h[m], s, places \cap (1 .. m))
           T == {m \in 0 .. n : Settled(m)}
<1>3. 0 \in T
  <2>1. DOMAIN h[0] = {} /\ 1 .. 0 = {}
    BY <1>2
  <2> DEFINE p == [a \in DOMAIN h[0] |-> 0]
  <2>2. Stands(p, h[0], s, places \cap (1 .. 0))
    BY <2>1 DEF Stands
  <2>3. Settled(0)
    BY <2>2
  <2> HIDE DEF Settled
  <2> QED BY <1>1, <2>3
<1>4. ASSUME NEW m \in 1 .. n, m - 1 \in T PROVE m \in T
  <2> DEFINE before == h[m - 1]
             P == places \cap (1 .. (m - 1))
  <2>1. PICK p : Stands(p, before, s, P)
    BY <1>4
  <2>2. before \in Seq(S) /\ s[m] \in S /\ h[m] = Further(before, s[m], m \in places)
    BY <1>1, <1>2, ElementOfSeq
  <2> HIDE DEF before
  <2>3. CASE m \notin places
    <3>1. h[m] = before /\ places \cap (1 .. m) = P
      BY <2>2, <2>3 DEF Further
    <3>2. Settled(m)
      BY <2>1, <3>1
    <3> HIDE DEF Settled
    <3> QED BY <3>2
  <2>4. CASE m \in places
    <3> DEFINE l == Len(before)
               t == h[m]
               q == [a \in DOMAIN t |-> IF a = l + 1 THEN m ELSE p[a]]
               Q == places \cap (1 .. m)
    <3>1. /\ l \in Nat /\ DOMAIN before = 1 .. l /\ DOMAIN t = 1 .. (l + 1)
          /\ \A a \in 1 .. (l + 1) : t[a] = IF a = l + 1 THEN s[m] ELSE before[a]
      BY <2>2, <2>4, AppendProperties DEF Further
    <3> HIDE DEF l, t
    <3>2. Q = P \cup {m} /\ m \notin P /\ \A k \in P : k < m
      BY <2>4
    <3>3. p \in [1 .. l -> P] /\ \A a \in 1 .. l : before[a] = s[p[a]]
      BY <2>1, <3>1 DEF Stands
    <3> HIDE DEF P, Q
    <3>4. q \in [DOMAIN t -> Q]
      BY <3>1, <3>2, <3>3
    <3>5. ASSUME NEW a \in DOMAIN t PROVE t[a] = s[q[a]]
      BY <3>1, <3>3
    <3>6. ASSUME NEW a \in DOMAIN t, NEW b \in DOMAIN t, a < b PROVE q[a] < q[b]
      <4>1. a \in 1 .. l /\ q[a] = p[a] /\ p[a] \in P
        BY <3>1, <3>3, <3>6
      <4>2. CASE b = l + 1
        BY <3>1, <3>2, <4>1, <4>2
      <4>3. CASE b # l + 1
        <5>1. b \in 1 .. l /\ q[b] = p[b]
          BY <3>1, <4>3
        <5>2. p[a] < p[b]
          BY <2>1, <3>1, <3>6, <4>1, <5>1 DEF Stands
        <5> QED BY <4>1, <5>1, <5>2
      <4> QED BY <4>2, <4>3
    <3>7. ASSUME NEW k \in Q PROVE \E a \in DOMAIN t : q[a] = k
      <4>1. CASE k = m
        <5>1. l + 1 \in DOMAIN t
          BY <3>1
        <5>2. q[l + 1] = k
          BY <4>1, <5>1
        <5> HIDE DEF q
        <5> QED BY <5>1, <5>2
      <4>2. CASE k # m
        <5>1. PICK a \in 1 .. l : p[a] = k
          BY <2>1, <3>1, <3>2, <4>2 DEF Stands
        <5>2. a \in DOMAIN t /\ q[a] = k
          BY <3>1, <5>1
        <5> QED BY <5>2
      <4> QED BY <4>1, <4>2
    <3>8. Stands(q, t, s, Q)
      BY <3>4, <3>5, <3>6, <3>7 DEF Stands
    <3>9. Settled(m)
      BY <3>8 DEF t, Q
    <3> HIDE DEF Settled
    <3> QED BY <3>9
  <2> QED BY <2>3, <2>4
<1>5. n \in T
  <2> HIDE DEF T, n
  <2>1. \A m \in 0 .. n : m \in T
    BY <1>1, <1>3, <1>4, UpTo
  <2> QED BY <1>1, <2>1
<1>6. Settled(n)
  BY <1>5
<1> QED BY <1>1, <1>2, <1>6

\* What has each key once goes on having it once when some of it is left out.
LEMMA KeptOnce ==
  ASSUME NEW S, NEW s \in Seq(S), NEW places, KeysOnce(s)
  PROVE  KeysOnce(Kept(s, places))
<1> DEFINE t == Kept(s, places)
<1>1. PICK p : Stands(p, t, s, places \cap DOMAIN s)
  BY KeptStands
<1>2. t \in Seq(S)
  BY KeptStands
<1> HIDE DEF t
<1>3. ASSUME NEW a \in DOMAIN t, NEW b \in DOMAIN t, t[a][1] = t[b][1] PROVE a = b
  <2>1. p[a] \in DOMAIN s /\ p[b] \in DOMAIN s /\ t[a] = s[p[a]] /\ t[b] = s[p[b]]
    BY <1>1 DEF Stands
  <2>2. p[a] = p[b]
    BY <1>3, <2>1 DEF KeysOnce
  <2>3. DOMAIN s \subseteq Int /\ DOMAIN t \subseteq Int
    BY <1>2
  <2>4. a < b \/ b < a \/ a = b
    BY <2>3
  <2> QED BY <1>1, <2>1, <2>2, <2>3, <2>4 DEF Stands
<1> QED BY <1>3 DEF KeysOnce, t

-----------------------------------------------------------------------------
(***************************************************************************)
(* What a merge says of a name.                                            *)
(***************************************************************************)

\* What the entries of a sequence say under a name, in whatever casing; and what
\* the last that does says, among those at the places P.
SaidOf(entries, name) == {entries[k] : k \in {j \in DOMAIN entries : Same(entries[j][1], name)}}
Mentions(entries, P, name) == {k \in P : Same(entries[k][1], name)}
LastSaid(entries, P, name) ==
  {entries[k] : k \in {k \in Mentions(entries, P, name) :
                         \A j \in Mentions(entries, P, name) : j <= k}}
Stays(said) == {e \in said : ~Removes(e)}

\* No name stands twice in what a merge makes, in any casing.
NamesOnce(merged) == \A j, k \in DOMAIN merged : Same(merged[j][1], merged[k][1]) => j = k

\* One entry more replaces what is said under its name, and nothing else.
LEMMA EntryMerged ==
  ASSUME NEW S, NEW merged \in Seq(S), NEW e \in S, NamesOnce(merged)
  PROVE  /\ MergeEntry(merged, e) \in Seq(S)
         /\ NamesOnce(MergeEntry(merged, e))
         /\ \A name : SaidOf(MergeEntry(merged, e), name)
                        = IF Same(e[1], name) THEN Stays({e}) ELSE SaidOf(merged, name)
<1> DEFINE slots == {k \in DOMAIN merged : Same(merged[k][1], e[1])}
           t == MergeEntry(merged, e)
           n == Len(merged)
<1>1. n \in Nat /\ DOMAIN merged = 1 .. n
  OBVIOUS
<1>2. CASE Removes(e)
  <2> DEFINE P == (DOMAIN merged \ slots) \cap DOMAIN merged
  <2>1. t = Kept(merged, DOMAIN merged \ slots)
    BY <1>2 DEF MergeEntry
  <2>2. PICK p : Stands(p, t, merged, P)
    BY <2>1, KeptStands
  <2>3. t \in Seq(S)
    BY <2>1, KeptStands
  <2> HIDE DEF t
  <2>4. \A a \in DOMAIN t : /\ p[a] \in DOMAIN merged /\ t[a] = merged[p[a]]
                            /\ ~Same(merged[p[a]][1], e[1])
    BY <2>2 DEF Stands
  <2>5. ASSUME NEW a \in DOMAIN t, NEW b \in DOMAIN t, Same(t[a][1], t[b][1]) PROVE a = b
    <3>1. p[a] = p[b]
      BY <2>4, <2>5 DEF NamesOnce
    <3>2. p[a] \in Int /\ a \in Int /\ b \in Int
      BY <1>1, <2>3, <2>4
    <3>3. a < b \/ b < a \/ a = b
      BY <3>2
    <3> QED BY <2>2, <3>1, <3>2, <3>3 DEF Stands
  <2>6. ASSUME NEW name
        PROVE  SaidOf(t, name) = IF Same(e[1], name) THEN Stays({e}) ELSE SaidOf(merged, name)
    <3>1. CASE Same(e[1], name)
      <4>1. \A a \in DOMAIN t : ~Same(t[a][1], name)
        BY <2>4, <3>1 DEF Same
      <4>2. SaidOf(t, name) = {}
        BY <4>1 DEF SaidOf
      <4>3. Stays({e}) = {}
        BY <1>2 DEF Stays
      <4> QED BY <3>1, <4>2, <4>3
    <3>2. CASE ~Same(e[1], name)
      <4>1. ASSUME NEW k \in DOMAIN merged, Same(merged[k][1], name)
            PROVE  \E a \in DOMAIN t : t[a] = merged[k]
        <5>1. k \in P
          BY <3>2, <4>1 DEF Same
        <5> QED BY <2>2, <5>1 DEF Stands
      <4>2. \A x : x \in SaidOf(t, name) => x \in SaidOf(merged, name)
        BY <2>4 DEF SaidOf
      <4>3. \A x : x \in SaidOf(merged, name) => x \in SaidOf(t, name)
        BY <4>1 DEF SaidOf
      <4> QED BY <3>2, <4>2, <4>3
    <3> QED BY <3>1, <3>2
  <2> QED BY <2>3, <2>5, <2>6 DEF NamesOnce, t
<1>3. CASE ~Removes(e) /\ slots = {}
  <2>1. t = Append(merged, e)
    BY <1>3 DEF MergeEntry
  <2>2. /\ t \in Seq(S) /\ DOMAIN t = 1 .. (n + 1)
        /\ \A a \in 1 .. (n + 1) : t[a] = IF a = n + 1 THEN e ELSE merged[a]
    BY <1>1, <2>1, AppendProperties
  <2> HIDE DEF t, n
  <2>3. \A k \in 1 .. n : ~Same(merged[k][1], e[1])
    BY <1>1, <1>3
  <2>4. ASSUME NEW a \in DOMAIN t, NEW b \in DOMAIN t, Same(t[a][1], t[b][1]) PROVE a = b
    BY <1>1, <2>2, <2>3, <2>4 DEF NamesOnce, Same
  <2>5. ASSUME NEW name
        PROVE  SaidOf(t, name) = IF Same(e[1], name) THEN Stays({e}) ELSE SaidOf(merged, name)
    <3>1. \A a \in DOMAIN t : (a \in DOMAIN merged /\ t[a] = merged[a]) \/ (a = n + 1 /\ t[a] = e)
      BY <1>1, <2>2
    <3>2. \A a \in DOMAIN merged : a \in DOMAIN t /\ t[a] = merged[a]
      BY <1>1, <2>2
    <3>3. n + 1 \in DOMAIN t /\ t[n + 1] = e
      BY <1>1, <2>2
    <3>4. Stays({e}) = {e}
      BY <1>3 DEF Stays
    <3>5. CASE Same(e[1], name)
      <4>1. \A k \in DOMAIN merged : ~Same(merged[k][1], name)
        BY <1>1, <2>3, <3>5 DEF Same
      <4>2. \A x : x \in SaidOf(t, name) <=> x = e
        BY <3>1, <3>2, <3>3, <3>5, <4>1 DEF SaidOf
      <4> QED BY <3>4, <3>5, <4>2
    <3>6. CASE ~Same(e[1], name)
      <4>1. \A x : x \in SaidOf(t, name) => x \in SaidOf(merged, name)
        BY <3>1, <3>6 DEF SaidOf
      <4>2. \A x : x \in SaidOf(merged, name) => x \in SaidOf(t, name)
        BY <3>2 DEF SaidOf
      <4> QED BY <3>6, <4>1, <4>2
    <3> QED BY <3>5, <3>6
  <2> QED BY <2>2, <2>4, <2>5 DEF NamesOnce, t
<1>4. CASE ~Removes(e) /\ slots # {}
  <2>1. t = [k \in DOMAIN merged |-> IF k \in slots THEN e ELSE merged[k]]
    BY <1>4 DEF MergeEntry
  <2> HIDE DEF t, n, slots
  <2>2. DOMAIN t = DOMAIN merged /\ \A k \in DOMAIN t : t[k] = IF k \in slots THEN e ELSE merged[k]
    BY <2>1
  <2>3. t \in Seq(S)
    <3>1. \A k \in 1 .. n : t[k] \in S
      BY <1>1, <2>2, ElementOfSeq DEF n
    <3>2. t \in [1 .. n -> S]
      BY <1>1, <2>1, <2>2, <3>1
    <3> QED BY <1>1, <3>2
  <2>4. \A k \in DOMAIN t : Lower(t[k][1]) = Lower(merged[k][1])
    BY <2>2 DEF slots, Same
  <2>5. ASSUME NEW name
        PROVE  SaidOf(t, name) = IF Same(e[1], name) THEN Stays({e}) ELSE SaidOf(merged, name)
    <3>1. Stays({e}) = {e}
      BY <1>4 DEF Stays
    <3>2. CASE Same(e[1], name)
      <4>1. \A k \in DOMAIN t : Same(t[k][1], name) <=> k \in slots
        BY <2>2, <2>4, <3>2 DEF slots, Same
      <4>2. PICK k : k \in slots
        BY <1>4
      <4>3. k \in DOMAIN t
        BY <2>2, <4>2 DEF slots
      <4>4. \A x : x \in SaidOf(t, name) <=> x = e
        BY <2>2, <4>1, <4>2, <4>3 DEF SaidOf
      <4> QED BY <3>1, <3>2, <4>4
    <3>3. CASE ~Same(e[1], name)
      <4>1. \A k \in DOMAIN t : Same(t[k][1], name) <=> Same(merged[k][1], name)
        BY <2>4 DEF Same
      <4>2. \A k \in DOMAIN t : Same(t[k][1], name) => t[k] = merged[k]
        BY <2>2, <3>3, <4>1 DEF slots, Same
      <4>3. \A x : x \in SaidOf(t, name) <=> x \in SaidOf(merged, name)
        BY <2>2, <4>1, <4>2 DEF SaidOf
      <4> QED BY <3>3, <4>3
    <3> QED BY <3>2, <3>3
  <2>6. NamesOnce(t)
    BY <2>2, <2>4 DEF NamesOnce, Same
  <2> QED BY <2>3, <2>5, <2>6 DEF t
<1> QED BY <1>2, <1>3, <1>4

\* One place more to look at, past the others.
LEMMA LastSaidNext ==
  ASSUME NEW entries, NEW name, NEW m \in Nat \ {0}
  PROVE  LastSaid(entries, 1 .. m, name)
           = IF Same(entries[m][1], name) THEN {entries[m]} ELSE LastSaid(entries, 1 .. (m - 1), name)
<1> DEFINE A == Mentions(entries, 1 .. (m - 1), name)
           B == Mentions(entries, 1 .. m, name)
<1>1. CASE Same(entries[m][1], name)
  <2>1. m \in B /\ \A k \in B : k \in Int /\ k <= m
    BY <1>1 DEF Mentions
  <2> HIDE DEF B
  <2>2. \A k \in B : (\A j \in B : j <= k) <=> k = m
    BY <2>1
  <2>3. {k \in B : \A j \in B : j <= k} = {m}
    BY <2>1, <2>2
  <2>4. LastSaid(entries, 1 .. m, name) = {entries[k] : k \in {m}}
    BY <2>3 DEF LastSaid, B
  <2> QED BY <1>1, <2>4
<1>2. CASE ~Same(entries[m][1], name)
  <2>1. A = B
    BY <1>2 DEF Mentions
  <2> QED BY <1>2, <2>1 DEF LastSaid
<1> QED BY <1>1, <1>2

\* The recursive function in MergeHeaders exists.
LEMMA MergeExists ==
  ASSUME NEW S, NEW entries \in Seq(S)
  PROVE  \E h : /\ h[0] = <<>>
                /\ \A k \in 1 .. Len(entries) : h[k] = MergeEntry(h[k - 1], entries[k])
                /\ MergeHeaders(entries) = h[Len(entries)]
<1> DEFINE n == Len(entries)
           All == {x \in Seq(S) : NamesOnce(x)}
           step == [k \in 1 .. n |-> [x \in All |-> MergeEntry(x, entries[k])]]
           F(h) == [k \in 0 .. n |->
                      IF k = 0 THEN <<>> ELSE MergeEntry(h[k - 1], entries[k])]
<1>1. n \in Nat /\ DOMAIN entries = 1 .. n
  OBVIOUS
<1>2. step \in [1 .. n -> [All -> All]]
  <2>1. ASSUME NEW x \in All, NEW k \in 1 .. n PROVE MergeEntry(x, entries[k]) \in All
    <3>1. entries[k] \in S
      BY <1>1, ElementOfSeq
    <3>2. x \in Seq(S) /\ NamesOnce(x)
      OBVIOUS
    <3> QED BY <3>1, <3>2, EntryMerged
  <2> HIDE DEF n, All
  <2> QED BY <2>1
<1>3. PICK h \in [0 .. n -> All] : GoesThrough(h, n, <<>>, step)
  <2>1. <<>> \in All /\ n \in Nat
    BY DEF NamesOnce
  <2> HIDE DEF n, step, All
  <2> QED BY <1>2, <2>1, GoingThrough
<1>4. h[0] = <<>> /\ \A k \in 1 .. n : h[k] = MergeEntry(h[k - 1], entries[k])
  <2>1. h[0] = <<>>
    BY <1>3 DEF GoesThrough
  <2>2. ASSUME NEW k \in 1 .. n PROVE h[k] = MergeEntry(h[k - 1], entries[k])
    <3>1. h[k - 1] \in All
      <4> HIDE DEF All
      <4> QED BY <1>1, <1>3
    <3> HIDE DEF n, All
    <3> QED BY <1>3, <3>1, Zenon DEF GoesThrough
  <2> QED BY <2>1, <2>2
<1>5. h = F(h)
  <2>1. \A k \in 0 .. n : k # 0 => k \in 1 .. n
    BY <1>1
  <2>2. h = [k \in 0 .. n |-> h[k]]
    BY <1>3
  <2> QED BY <1>4, <2>1, <2>2, Zenon
<1> DEFINE upTo == CHOOSE f : f = F(f)
<1>6. upTo = F(upTo)
  <2> HIDE DEF F
  <2> QED BY <1>5
<1>7. MergeHeaders(entries) = upTo[n]
  BY DEF MergeHeaders
<1>8. \A k \in 1 .. n : k \in 0 .. n /\ k # 0
  BY <1>1
<1>9. 0 \in 0 .. n
  BY <1>1
<1> HIDE DEF upTo, n
<1>10. \A k \in 1 .. n : upTo[k] = MergeEntry(upTo[k - 1], entries[k])
  BY <1>6, <1>8, Zenon
<1>11. upTo[0] = <<>>
  BY <1>6, <1>9, Zenon
<1> QED BY <1>7, <1>10, <1>11 DEF n

\* A merge says of each name what the last entry under it said, unless that
\* removes it, and says it once.
LEMMA MergeSays ==
  ASSUME NEW S, NEW entries \in Seq(S)
  PROVE  /\ MergeHeaders(entries) \in Seq(S)
         /\ NamesOnce(MergeHeaders(entries))
         /\ \A name : SaidOf(MergeHeaders(entries), name)
                        = Stays(LastSaid(entries, DOMAIN entries, name))
<1> DEFINE n == Len(entries)
<1>1. n \in Nat /\ DOMAIN entries = 1 .. n
  OBVIOUS
<1>2. PICK h : /\ h[0] = <<>>
               /\ \A k \in 1 .. n : h[k] = MergeEntry(h[k - 1], entries[k])
               /\ MergeHeaders(entries) = h[n]
  BY MergeExists
<1> DEFINE Settled(m) ==
             /\ h[m] \in Seq(S) /\ NamesOnce(h[m])
             /\ \A name : SaidOf(h[m], name) = Stays(LastSaid(entries, 1 .. m, name))
           T == {m \in 0 .. n : Settled(m)}
<1>3. 0 \in T
  <2>1. h[0] \in Seq(S) /\ DOMAIN h[0] = {} /\ 1 .. 0 = {}
    BY <1>2
  <2>2. \A name : SaidOf(h[0], name) = {} /\ LastSaid(entries, 1 .. 0, name) = {}
    BY <2>1 DEF SaidOf, LastSaid, Mentions
  <2>3. Settled(0)
    BY <2>1, <2>2 DEF NamesOnce, Stays
  <2> HIDE DEF Settled
  <2> QED BY <1>1, <2>3
<1>4. ASSUME NEW m \in 1 .. n, m - 1 \in T PROVE m \in T
  <2> DEFINE e == entries[m]
             before == h[m - 1]
  <2>1. /\ before \in Seq(S) /\ NamesOnce(before)
        /\ \A name : SaidOf(before, name) = Stays(LastSaid(entries, 1 .. (m - 1), name))
    BY <1>4
  <2>2. e \in S /\ h[m] = MergeEntry(before, e)
    BY <1>1, <1>2, ElementOfSeq
  <2> HIDE DEF before, e, n
  <2>3. /\ h[m] \in Seq(S) /\ NamesOnce(h[m])
        /\ \A name : SaidOf(h[m], name)
                       = IF Same(e[1], name) THEN Stays({e}) ELSE SaidOf(before, name)
    <3>1. before \in Seq(S) /\ e \in S /\ NamesOnce(before)
      BY <2>1, <2>2
    <3>2. /\ MergeEntry(before, e) \in Seq(S) /\ NamesOnce(MergeEntry(before, e))
          /\ \A name : SaidOf(MergeEntry(before, e), name)
                         = IF Same(e[1], name) THEN Stays({e}) ELSE SaidOf(before, name)
      BY <3>1, EntryMerged
    <3> QED BY <2>2, <3>2
  <2>4. ASSUME NEW name PROVE SaidOf(h[m], name) = Stays(LastSaid(entries, 1 .. m, name))
    <3>1. m \in Nat \ {0}
      BY <1>1
    <3>2. LastSaid(entries, 1 .. m, name)
            = IF Same(e[1], name) THEN {e} ELSE LastSaid(entries, 1 .. (m - 1), name)
      BY <3>1, LastSaidNext DEF e
    <3> QED BY <2>1, <2>3, <3>2
  <2>5. Settled(m)
    BY <2>3, <2>4
  <2> HIDE DEF Settled
  <2> QED BY <2>5
<1>5. n \in T
  <2> HIDE DEF T, n
  <2>1. \A m \in 0 .. n : m \in T
    BY <1>1, <1>3, <1>4, UpTo
  <2> QED BY <1>1, <2>1
<1>6. Settled(n)
  BY <1>5
<1> QED BY <1>1, <1>2, <1>6

-----------------------------------------------------------------------------
(***************************************************************************)
(* The last word in sequences put together and cut down.                   *)
(***************************************************************************)

\* The place of the last word.
IsLast(x, entries, P, name) ==
  x \in Mentions(entries, P, name) /\ \A j \in Mentions(entries, P, name) : j <= x

\* The last word of a whole sequence.
LastWord(entries, name) == LastSaid(entries, DOMAIN entries, name)

LEMMA LastSaidAt ==
  ASSUME NEW entries, NEW P, P \subseteq Int, NEW name, NEW x, IsLast(x, entries, P, name)
  PROVE  LastSaid(entries, P, name) = {entries[x]}
<1> DEFINE M == Mentions(entries, P, name)
<1>1. M \subseteq Int /\ x \in M /\ \A j \in M : j <= x
  BY DEF Mentions, IsLast
<1> HIDE DEF M
<1>2. \A k \in M : (\A j \in M : j <= k) <=> k = x
  BY <1>1
<1>3. {k \in M : \A j \in M : j <= k} = {x}
  BY <1>1, <1>2
<1>4. LastSaid(entries, P, name) = {entries[k] : k \in {x}}
  BY <1>3 DEF LastSaid, M
<1> QED BY <1>4

LEMMA SomethingSaid ==
  ASSUME NEW entries, NEW n \in Nat, NEW P, P \subseteq 1 .. n, NEW name
  PROVE  /\ Mentions(entries, P, name) = {} => LastSaid(entries, P, name) = {}
         /\ Mentions(entries, P, name) # {} => \E x \in P : IsLast(x, entries, P, name)
<1> DEFINE M == Mentions(entries, P, name)
<1>1. M \subseteq P /\ M \subseteq 1 .. n
  BY DEF Mentions
<1>2. CASE M = {}
  BY <1>2 DEF LastSaid
<1>3. CASE M # {}
  <2> HIDE DEF M
  <2>1. PICK x \in M : \A y \in M : y <= x
    BY <1>1, <1>3, Largest
  <2>2. x \in P /\ IsLast(x, entries, P, name)
    BY <1>1, <2>1 DEF IsLast, M
  <2> QED BY <1>3, <2>2 DEF M
<1> QED BY <1>2, <1>3

\* Of two sequences the second has the last word, if it says anything.
LEMMA LastSaidBoth ==
  ASSUME NEW S, NEW s \in Seq(S), NEW t \in Seq(S), NEW name
  PROVE  LastWord(s \o t, name)
           = IF LastWord(t, name) = {} THEN LastWord(s, name) ELSE LastWord(t, name)
<1> DEFINE both == s \o t
           m == Len(s)
           n == Len(t)
<1>1. /\ m \in Nat /\ n \in Nat /\ m + n \in Nat
      /\ DOMAIN s = 1 .. m /\ DOMAIN t = 1 .. n /\ DOMAIN both = 1 .. (m + n)
      /\ \A k \in 1 .. (m + n) : both[k] = IF k <= m THEN s[k] ELSE t[k - m]
  BY ConcatProperties
<1> HIDE DEF both, m, n
<1>2. CASE Mentions(t, DOMAIN t, name) = {}
  <2>1. LastSaid(t, DOMAIN t, name) = {}
    BY <1>1, <1>2, SomethingSaid
  <2>2. ASSUME NEW k \in DOMAIN both, Same(both[k][1], name) PROVE k \in DOMAIN s
    <3>1. ASSUME ~(k <= m) PROVE FALSE
      <4>1. k - m \in DOMAIN t /\ both[k] = t[k - m]
        BY <1>1, <3>1
      <4> QED BY <1>2, <2>2, <4>1 DEF Mentions
    <3> QED BY <1>1, <3>1
  <2>3. \A k \in DOMAIN s : k \in DOMAIN both /\ both[k] = s[k]
    BY <1>1
  <2>4. Mentions(both, DOMAIN both, name) = Mentions(s, DOMAIN s, name)
    BY <2>2, <2>3 DEF Mentions
  <2>5. \A k \in Mentions(s, DOMAIN s, name) : both[k] = s[k]
    BY <2>3 DEF Mentions
  <2>6. LastSaid(both, DOMAIN both, name) = LastSaid(s, DOMAIN s, name)
    BY <2>4, <2>5 DEF LastSaid
  <2> QED BY <2>1, <2>6 DEF both, LastWord
<1>3. CASE Mentions(t, DOMAIN t, name) # {}
  <2>1. PICK x \in DOMAIN t : IsLast(x, t, DOMAIN t, name)
    BY <1>1, <1>3, SomethingSaid
  <2>2. DOMAIN t \subseteq Int /\ DOMAIN both \subseteq Int
    BY <1>1
  <2>3. LastSaid(t, DOMAIN t, name) = {t[x]}
    BY <2>1, <2>2, LastSaidAt
  <2>4. m + x \in DOMAIN both /\ both[m + x] = t[x]
    BY <1>1
  <2>5. ASSUME NEW j \in Mentions(both, DOMAIN both, name) PROVE j <= m + x
    <3>1. j \in DOMAIN both /\ Same(both[j][1], name)
      BY DEF Mentions
    <3>2. CASE j <= m
      BY <1>1, <3>1, <3>2
    <3>3. CASE ~(j <= m)
      <4>1. j - m \in DOMAIN t /\ both[j] = t[j - m]
        BY <1>1, <3>1, <3>3
      <4>2. j - m \in Mentions(t, DOMAIN t, name)
        BY <3>1, <4>1 DEF Mentions
      <4>3. j - m <= x
        BY <2>1, <4>2 DEF IsLast
      <4> QED BY <1>1, <3>1, <4>3
    <3> QED BY <3>2, <3>3
  <2>6. m + x \in Mentions(both, DOMAIN both, name)
    BY <2>1, <2>4 DEF IsLast, Mentions
  <2>7. LastSaid(both, DOMAIN both, name) = {t[x]}
    BY <2>2, <2>4, <2>5, <2>6, LastSaidAt DEF IsLast
  <2> QED BY <2>3, <2>7 DEF both, LastWord
<1> QED BY <1>2, <1>3

\* What is kept has the last word of what it is kept from.
LEMMA LastSaidKept ==
  ASSUME NEW S, NEW s \in Seq(S), NEW places, NEW name
  PROVE  LastSaid(Kept(s, places), DOMAIN Kept(s, places), name)
           = LastSaid(s, places \cap DOMAIN s, name)
<1> DEFINE t == Kept(s, places)
           P == places \cap DOMAIN s
<1>1. PICK p : Stands(p, t, s, P)
  BY KeptStands
<1>2. t \in Seq(S)
  BY KeptStands
<1>3. Len(t) \in Nat /\ DOMAIN t = 1 .. Len(t) /\ Len(s) \in Nat /\ P \subseteq 1 .. Len(s)
  BY <1>2
<1>4. DOMAIN t \subseteq Int /\ P \subseteq Int
  BY <1>3
<1> HIDE DEF t, P
<1>5. \A a \in DOMAIN t : p[a] \in P /\ t[a] = s[p[a]]
  BY <1>1 DEF Stands
<1>6. CASE Mentions(t, DOMAIN t, name) = {}
  <2>1. ASSUME NEW k \in Mentions(s, P, name) PROVE FALSE
    <3>1. k \in P /\ Same(s[k][1], name)
      BY DEF Mentions
    <3>2. PICK a \in DOMAIN t : p[a] = k
      BY <1>1, <3>1 DEF Stands
    <3> QED BY <1>5, <1>6, <3>1, <3>2 DEF Mentions
  <2>2. Mentions(s, P, name) = {}
    BY <2>1
  <2>3. LastSaid(t, DOMAIN t, name) = {} /\ LastSaid(s, P, name) = {}
    BY <1>6, <2>2 DEF LastSaid
  <2> QED BY <2>3 DEF t, P
<1>7. CASE Mentions(t, DOMAIN t, name) # {}
  <2>1. PICK x \in DOMAIN t : IsLast(x, t, DOMAIN t, name)
    BY <1>3, <1>7, SomethingSaid
  <2>2. p[x] \in Mentions(s, P, name)
    BY <1>5, <2>1 DEF IsLast, Mentions
  <2>3. ASSUME NEW j \in Mentions(s, P, name) PROVE j <= p[x]
    <3>1. j \in P /\ Same(s[j][1], name)
      BY DEF Mentions
    <3>2. PICK a \in DOMAIN t : p[a] = j
      BY <1>1, <3>1 DEF Stands
    <3>3. a \in Mentions(t, DOMAIN t, name)
      BY <1>5, <3>1, <3>2 DEF Mentions
    <3>4. a <= x /\ a \in Int /\ x \in Int
      BY <1>4, <2>1, <3>3 DEF IsLast
    <3>5. CASE a = x
      BY <1>4, <3>1, <3>2, <3>5
    <3>6. CASE a < x
      <4>1. p[a] < p[x]
        BY <1>1, <3>6 DEF Stands
      <4>2. p[a] \in Int /\ p[x] \in Int
        BY <1>4, <1>5
      <4> QED BY <3>2, <4>1, <4>2
    <3> QED BY <3>4, <3>5, <3>6
  <2>4. LastSaid(s, P, name) = {s[p[x]]}
    BY <1>4, <2>2, <2>3, LastSaidAt DEF IsLast
  <2>5. LastSaid(t, DOMAIN t, name) = {t[x]}
    BY <1>4, <2>1, LastSaidAt
  <2> QED BY <1>5, <2>4, <2>5 DEF t, P
<1> QED BY <1>6, <1>7

\* Own keys that are undefined have no say.
FlatPlaces(own) == {k \in DOMAIN own : own[k][2] # Undefined}

LEMMA FlatSays ==
  ASSUME NEW S, NEW own \in Seq(S), NEW name
  PROVE  /\ FlatDefaultHeaders(own) \in Seq(S)
         /\ LastWord(FlatDefaultHeaders(own), name) = LastSaid(own, FlatPlaces(own), name)
<1>1. CASE HasFlat(own)
  <2>1. FlatDefaultHeaders(own) = Kept(own, FlatPlaces(own))
    BY <1>1 DEF FlatDefaultHeaders, FlatPlaces
  <2>2. FlatPlaces(own) \cap DOMAIN own = FlatPlaces(own)
    BY DEF FlatPlaces
  <2> QED BY <2>1, <2>2, KeptStands, LastSaidKept DEF LastWord
<1>2. CASE ~HasFlat(own)
  <2>1. FlatDefaultHeaders(own) = <<>>
    BY <1>2 DEF FlatDefaultHeaders
  <2>2. FlatPlaces(own) = {}
    BY <1>2 DEF FlatPlaces, HasFlat
  <2>3. DOMAIN FlatDefaultHeaders(own) = {}
    BY <2>1
  <2> QED BY <2>1, <2>2, <2>3 DEF LastWord, LastSaid, Mentions
<1> QED BY <1>1, <1>2

-----------------------------------------------------------------------------
(***************************************************************************)
(* The six sources.                                                        *)
(***************************************************************************)

Entries == Names \X HeaderValues

\* String() leaves alone which names there are and which entries remove one.
LEMMA ToldAlike ==
  ASSUME NEW entries \in Seq(Entries), object \in Values
  PROVE  /\ AsStrings(entries) \in Seq(Entries)
         /\ DOMAIN AsStrings(entries) = DOMAIN entries
         /\ \A k \in DOMAIN entries :
              /\ AsStrings(entries)[k][1] = entries[k][1]
              /\ Removes(AsStrings(entries)[k]) <=> Removes(entries[k])
              /\ AsStrings(entries)[k][2] = Undefined <=> entries[k][2] = Undefined
<1> DEFINE n == Len(entries)
           value(k) == IF entries[k][2] = Object THEN object ELSE entries[k][2]
<1>1. n \in Nat /\ DOMAIN entries = 1 .. n
  OBVIOUS
<1>2. ASSUME NEW k \in DOMAIN entries
      PROVE  /\ <<entries[k][1], value(k)>> \in Entries
             /\ value(k) \in {Undefined, Null} <=> entries[k][2] \in {Undefined, Null}
             /\ value(k) = Undefined <=> entries[k][2] = Undefined
  <2>1. entries[k] \in Entries
    BY ElementOfSeq, <1>1
  <2>2. entries[k][1] \in Names /\ entries[k][2] \in HeaderValues
    BY <2>1 DEF Entries
  <2>3. object \notin {Undefined, Null, Object} /\ object \in HeaderValues
    BY ValuesAssumption DEF HeaderValues
  <2>4. Object \notin {Undefined, Null}
    BY DEF Object, Undefined, Null
  <2> HIDE DEF Object, Undefined, Null, HeaderValues
  <2> QED BY <2>2, <2>3, <2>4 DEF Entries
<1>3. AsStrings(entries) = [k \in DOMAIN entries |-> <<entries[k][1], value(k)>>]
  BY DEF AsStrings
<1> HIDE DEF value, n
<1>4. AsStrings(entries) \in [1 .. n -> Entries]
  BY <1>1, <1>2, <1>3
<1>5. AsStrings(entries) \in Seq(Entries)
  BY <1>1, <1>4
<1>6. \A k \in DOMAIN entries :
        AsStrings(entries)[k][1] = entries[k][1] /\ AsStrings(entries)[k][2] = value(k)
  BY <1>3
<1> QED BY <1>2, <1>3, <1>5, <1>6 DEF Removes

\* What the k-th source says, the places that have a say, and its last word.
Told(s, k) == AsStrings(s[k])
HasSay(s, k) == IF k \in {3, 6} THEN FlatPlaces(Told(s, k)) ELSE DOMAIN Told(s, k)
WordOf(s, k, name) == LastSaid(Told(s, k), HasSay(s, k), name)

\* The word of the highest source that says anything.
Highest(s, name) ==
  IF WordOf(s, 6, name) # {} THEN WordOf(s, 6, name)
  ELSE IF WordOf(s, 5, name) # {} THEN WordOf(s, 5, name)
  ELSE IF WordOf(s, 4, name) # {} THEN WordOf(s, 4, name)
  ELSE IF WordOf(s, 3, name) # {} THEN WordOf(s, 3, name)
  ELSE IF WordOf(s, 2, name) # {} THEN WordOf(s, 2, name)
  ELSE WordOf(s, 1, name)

\* The base says of a name what the highest source that mentions it said last.
LEMMA SourcesSay ==
  ASSUME NEW s, \A k \in 1 .. 6 : s[k] \in Seq(Entries), object \in Values
  PROVE  /\ MergeSources(s) \in Seq(Entries)
         /\ NamesOnce(MergeSources(s))
         /\ \A name : SaidOf(MergeSources(s), name) = Stays(Highest(s, name))
<1> DEFINE told == [k \in 1 .. 6 |-> AsStrings(s[k])]
           a == told[1]
           b == told[2]
           c == FlatDefaultHeaders(told[3])
           d == told[4]
           e == told[5]
           f == FlatDefaultHeaders(told[6])
<1>1. \A k \in 1 .. 6 : told[k] = Told(s, k) /\ told[k] \in Seq(Entries)
  BY ToldAlike DEF Told
<1> HIDE DEF told
<1>2. /\ a \in Seq(Entries) /\ b \in Seq(Entries) /\ c \in Seq(Entries)
      /\ d \in Seq(Entries) /\ e \in Seq(Entries) /\ f \in Seq(Entries)
  <2>1. \A x \in Seq(Entries) : FlatDefaultHeaders(x) \in Seq(Entries)
    BY FlatSays, ZenonT(60)
  <2>2. \A k \in 1 .. 6 : told[k] \in Seq(Entries) /\ FlatDefaultHeaders(told[k]) \in Seq(Entries)
    BY <1>1, <2>1
  <2> QED BY <2>2
<1>3. ASSUME NEW name
      PROVE  /\ LastWord(a, name) = WordOf(s, 1, name) /\ LastWord(b, name) = WordOf(s, 2, name)
             /\ LastWord(c, name) = WordOf(s, 3, name) /\ LastWord(d, name) = WordOf(s, 4, name)
             /\ LastWord(e, name) = WordOf(s, 5, name) /\ LastWord(f, name) = WordOf(s, 6, name)
  <2>1. ASSUME NEW k \in {3, 6}
        PROVE  LastWord(FlatDefaultHeaders(told[k]), name) = WordOf(s, k, name)
    <3>1. told[k] \in Seq(Entries) /\ told[k] = Told(s, k)
      BY <1>1
    <3>2. LastWord(FlatDefaultHeaders(told[k]), name) = LastSaid(told[k], FlatPlaces(told[k]), name)
      BY <3>1, FlatSays
    <3>3. HasSay(s, k) = FlatPlaces(told[k])
      BY <3>1 DEF HasSay
    <3> QED BY <3>1, <3>2, <3>3 DEF WordOf
  <2>2. ASSUME NEW k \in {1, 2, 4, 5} PROVE LastWord(told[k], name) = WordOf(s, k, name)
    <3>1. HasSay(s, k) = DOMAIN Told(s, k)
      BY DEF HasSay
    <3>2. told[k] = Told(s, k)
      BY <1>1
    <3> QED BY <3>1, <3>2 DEF LastWord, WordOf
  <2> QED BY <2>1, <2>2
<1>4. MergeSources(s) = MergeHeaders(a \o b \o c \o d \o e \o f)
  BY DEF MergeSources, told
<1> HIDE DEF a, b, c, d, e, f
<1> DEFINE ab == a \o b
           abc == ab \o c
           abcd == abc \o d
           abcde == abcd \o e
           all == abcde \o f
<1>5. /\ ab \in Seq(Entries) /\ abc \in Seq(Entries) /\ abcd \in Seq(Entries)
      /\ abcde \in Seq(Entries) /\ all \in Seq(Entries)
  BY <1>2, ConcatProperties
<1>6. MergeSources(s) = MergeHeaders(all)
  BY <1>4
<1> HIDE DEF ab, abc, abcd, abcde, all
<1>7. ASSUME NEW name PROVE LastWord(all, name) = Highest(s, name)
  <2> DEFINE W(x) == LastWord(x, name)
  <2>1. W(ab) = IF W(b) = {} THEN W(a) ELSE W(b)
    BY <1>2, LastSaidBoth, SMTT(30) DEF ab
  <2>2. W(abc) = IF W(c) = {} THEN W(ab) ELSE W(c)
    BY <1>2, <1>5, LastSaidBoth, SMTT(30) DEF abc
  <2>3. W(abcd) = IF W(d) = {} THEN W(abc) ELSE W(d)
    BY <1>2, <1>5, LastSaidBoth, SMTT(30) DEF abcd
  <2>4. W(abcde) = IF W(e) = {} THEN W(abcd) ELSE W(e)
    BY <1>2, <1>5, LastSaidBoth, SMTT(30) DEF abcde
  <2>5. W(all) = IF W(f) = {} THEN W(abcde) ELSE W(f)
    BY <1>2, <1>5, LastSaidBoth, SMTT(30) DEF all
  <2> QED BY <1>3, <2>1, <2>2, <2>3, <2>4, <2>5 DEF Highest
<1>8. /\ MergeHeaders(all) \in Seq(Entries) /\ NamesOnce(MergeHeaders(all))
      /\ \A name : SaidOf(MergeHeaders(all), name) = Stays(LastWord(all, name))
  BY <1>5, MergeSays DEF LastWord
<1> QED BY <1>6, <1>7, <1>8

\* The mentions of a name in all sources, and the last of them.
AllMentions(s, name) ==
  UNION {{<<k, e>> : e \in {e \in DOMAIN s[k] :
                              /\ Same(s[k][e][1], name)
                              /\ k \in {3, 6} => s[k][e][2] # Undefined}}
         : k \in 1 .. 6}
LastMention(s, name) ==
  {p \in AllMentions(s, name) : \A q \in AllMentions(s, name) :
     q[1] < p[1] \/ (q[1] = p[1] /\ q[2] <= p[2])}

MentionsAt(s, k, name) ==
  {e \in DOMAIN s[k] : Same(s[k][e][1], name) /\ (k \in {3, 6} => s[k][e][2] # Undefined)}

LEMMA LastMentionIs ==
  ASSUME NEW s, \A k \in 1 .. 6 : s[k] \in Seq(Entries), object \in Values, NEW name
  PROVE  {Told(s, p[1])[p[2]] : p \in {q \in LastMention(s, name) : ~Removes(s[q[1]][q[2]])}}
           = Stays(Highest(s, name))
<1> DEFINE M(k) == Mentions(Told(s, k), HasSay(s, k), name)
<1>1. ASSUME NEW k \in 1 .. 6
      PROVE  /\ DOMAIN Told(s, k) = DOMAIN s[k] /\ DOMAIN s[k] = 1 .. Len(s[k]) /\ Len(s[k]) \in Nat
             /\ HasSay(s, k) \subseteq 1 .. Len(s[k])
             /\ \A e \in DOMAIN s[k] : Removes(Told(s, k)[e]) <=> Removes(s[k][e])
             /\ M(k) = MentionsAt(s, k, name)
  <2>1. /\ DOMAIN Told(s, k) = DOMAIN s[k]
        /\ \A e \in DOMAIN s[k] :
              /\ Told(s, k)[e][1] = s[k][e][1]
              /\ Removes(Told(s, k)[e]) <=> Removes(s[k][e])
              /\ Told(s, k)[e][2] = Undefined <=> s[k][e][2] = Undefined
    BY ToldAlike DEF Told
  <2>2. DOMAIN s[k] = 1 .. Len(s[k]) /\ Len(s[k]) \in Nat
    OBVIOUS
  <2>3. HasSay(s, k) = {e \in DOMAIN s[k] : k \in {3, 6} => s[k][e][2] # Undefined}
    BY <2>1 DEF HasSay, FlatPlaces
  <2>4. \A e : e \in M(k) <=> e \in DOMAIN s[k] /\ Same(s[k][e][1], name)
                              /\ (k \in {3, 6} => s[k][e][2] # Undefined)
    BY <2>1, <2>3 DEF Mentions, Same
  <2>5. M(k) = MentionsAt(s, k, name)
    <3>1. \A e : e \in MentionsAt(s, k, name) <=>
                   e \in DOMAIN s[k] /\ Same(s[k][e][1], name)
                   /\ (k \in {3, 6} => s[k][e][2] # Undefined)
      BY DEF MentionsAt
    <3> HIDE DEF M
    <3> QED BY <2>4, <3>1
  <2>6. HasSay(s, k) \subseteq 1 .. Len(s[k])
    BY <2>2, <2>3
  <2> HIDE DEF M
  <2> QED BY <2>1, <2>2, <2>5, <2>6
<1>2. AllMentions(s, name) = UNION {{<<k, e>> : e \in M(k)} : k \in 1 .. 6}
  <2> HIDE DEF M
  <2>1. \A k \in 1 .. 6 : M(k) = MentionsAt(s, k, name)
    BY <1>1
  <2>2. AllMentions(s, name) = UNION {{<<k, e>> : e \in MentionsAt(s, k, name)} : k \in 1 .. 6}
    BY DEF AllMentions, MentionsAt
  <2> QED BY <2>1, <2>2
<1>3. \A q : q \in AllMentions(s, name) <=> \E k \in 1 .. 6 : \E e \in M(k) : q = <<k, e>>
  <2> HIDE DEF M
  <2> QED BY <1>2
<1>4. \A k \in 1 .. 6 : M(k) = {} => WordOf(s, k, name) = {}
  BY DEF WordOf, LastSaid
<1>5. CASE \A k \in 1 .. 6 : M(k) = {}
  <2>1. AllMentions(s, name) = {}
    BY <1>3, <1>5
  <2>2. Highest(s, name) = {}
    BY <1>4, <1>5 DEF Highest
  <2> QED BY <2>1, <2>2 DEF LastMention, Stays
<1>6. CASE \E k \in 1 .. 6 : M(k) # {}
  <2> DEFINE K == {k \in 1 .. 6 : M(k) # {}}
  <2>1. PICK k \in K : \A j \in K : j <= k
    <3>1. K \subseteq 1 .. 6 /\ K # {}
      BY <1>6
    <3> HIDE DEF K
    <3> QED BY <3>1, Largest
  <2>2. k \in 1 .. 6 /\ M(k) # {} /\ \A j \in 1 .. 6 : j > k => M(j) = {}
    BY <2>1
  <2>3. PICK x \in HasSay(s, k) : IsLast(x, Told(s, k), HasSay(s, k), name)
    BY <1>1, <2>2, SomethingSaid
  <2> DEFINE e == Told(s, k)[x]
  <2>4. x \in M(k) /\ x \in Int /\ \A y \in M(k) : y \in Int /\ y <= x
    <3>1. HasSay(s, k) \subseteq Int
      BY <1>1, <2>2
    <3> QED BY <2>3, <3>1 DEF IsLast, Mentions
  <2>5. WordOf(s, k, name) = {e}
    <3>1. HasSay(s, k) \subseteq Int
      BY <1>1, <2>2
    <3> QED BY <2>3, <3>1, LastSaidAt DEF WordOf
  <2>6. \A j \in 1 .. 6 : j > k => WordOf(s, j, name) = {}
    BY <1>4, <2>2
  <2> HIDE DEF e, M
  <2>7. Highest(s, name) = {e}
    <3>1. CASE k = 6
      BY <2>5, <3>1 DEF Highest
    <3>2. CASE k = 5
      <4>1. WordOf(s, 6, name) = {}
        BY <2>6, <3>2
      <4>2. WordOf(s, 5, name) = {e}
        BY <2>5, <3>2
      <4> QED BY <4>1, <4>2 DEF Highest
    <3>3. CASE k = 4
      <4>1. WordOf(s, 6, name) = {} /\ WordOf(s, 5, name) = {}
        BY <2>6, <3>3
      <4>2. WordOf(s, 4, name) = {e}
        BY <2>5, <3>3
      <4> QED BY <4>1, <4>2 DEF Highest
    <3>4. CASE k = 3
      <4>1. /\ WordOf(s, 6, name) = {} /\ WordOf(s, 5, name) = {} /\ WordOf(s, 4, name) = {}
        BY <2>6, <3>4
      <4>2. WordOf(s, 3, name) = {e}
        BY <2>5, <3>4
      <4> QED BY <4>1, <4>2 DEF Highest
    <3>5. CASE k = 2
      <4>1. /\ WordOf(s, 6, name) = {} /\ WordOf(s, 5, name) = {} /\ WordOf(s, 4, name) = {}
            /\ WordOf(s, 3, name) = {}
        BY <2>6, <3>5
      <4>2. WordOf(s, 2, name) = {e}
        BY <2>5, <3>5
      <4> QED BY <4>1, <4>2 DEF Highest
    <3>6. CASE k = 1
      <4>1. /\ WordOf(s, 6, name) = {} /\ WordOf(s, 5, name) = {} /\ WordOf(s, 4, name) = {}
            /\ WordOf(s, 3, name) = {} /\ WordOf(s, 2, name) = {}
        BY <2>6, <3>6
      <4>2. WordOf(s, 1, name) = {e}
        BY <2>5, <3>6
      <4> QED BY <4>1, <4>2 DEF Highest
    <3> QED BY <2>2, <3>1, <3>2, <3>3, <3>4, <3>5, <3>6
  <2>8. \A q : q \in LastMention(s, name) <=> q = <<k, x>>
    <3>1. <<k, x>> \in AllMentions(s, name)
      BY <1>3, <2>2, <2>4
    <3>2. ASSUME NEW q \in AllMentions(s, name)
          PROVE  q[1] < k \/ (q[1] = k /\ q[2] <= x)
      <4>1. PICK j \in 1 .. 6 : \E y \in M(j) : q = <<j, y>>
        BY <1>3
      <4>2. PICK y \in M(j) : q = <<j, y>>
        BY <4>1
      <4>3. j <= k
        BY <2>2, <4>2
      <4> QED BY <2>2, <2>4, <4>2, <4>3
    <3>3. <<k, x>> \in LastMention(s, name)
      BY <3>1, <3>2 DEF LastMention
    <3>4. ASSUME NEW q \in LastMention(s, name) PROVE q = <<k, x>>
      <4>1. q \in AllMentions(s, name)
        BY DEF LastMention
      <4> PICK j \in 1 .. 6 : \E y \in M(j) : q = <<j, y>>
        BY <1>3, <4>1
      <4>2. PICK y \in M(j) : q = <<j, y>>
        OBVIOUS
      <4>3. k < j \/ (k = j /\ x <= y)
        BY <3>1, <4>2 DEF LastMention
      <4>4. j < k \/ (j = k /\ y <= x)
        BY <3>2, <4>1, <4>2
      <4> QED BY <2>2, <2>4, <4>2, <4>3, <4>4
    <3> QED BY <3>3, <3>4
  <2>9. Removes(s[k][x]) <=> Removes(e)
    BY <1>1, <2>2, <2>3 DEF e
  <2>10. LastMention(s, name) = {<<k, x>>}
    BY <2>8
  <2>11. {q \in LastMention(s, name) : ~Removes(s[q[1]][q[2]])}
           = IF Removes(e) THEN {} ELSE {<<k, x>>}
    BY <2>9, <2>10
  <2>12. Stays({e}) = IF Removes(e) THEN {} ELSE {e}
    BY DEF Stays
  <2>13. {Told(s, p[1])[p[2]] : p \in IF Removes(e) THEN {} ELSE {<<k, x>>}}
           = IF Removes(e) THEN {} ELSE {e}
    <3>1. CASE Removes(e)
      BY <3>1
    <3>2. CASE ~Removes(e)
      <4>1. {Told(s, p[1])[p[2]] : p \in {<<k, x>>}} = {Told(s, k)[x]}
        OBVIOUS
      <4> QED BY <3>2, <4>1 DEF e
    <3> QED BY <3>1, <3>2
  <2> QED BY <2>7, <2>11, <2>12, <2>13
<1> QED BY <1>5, <1>6

\* What a request by a live instance starts from says of every name what the
\* last entry of the highest source that mentions it says (getHeaderBase,
\* normalizeAxiosRequest): the six sources are merged as one sequence, in which
\* each source that says something has the last word over those before it.
LEMMA PrecedenceFollows ==
  ASSUME TypeOK, CacheIsTransparent
  PROVE  HeadersFollowPrecedence
<1> SUFFICES ASSUME NEW i \in live, NEW m \in Methods, NEW name \in Names
             PROVE  LET s == Sources(i, m)
                        told == [k \in 1 .. 6 |-> AsStrings(s[k])]
                        base == HeaderBase(i, m)
                    IN  {base[k] : k \in {j \in DOMAIN base : Same(base[j][1], name)}}
                          = {told[p[1]][p[2]] :
                               p \in {q \in LastMention(s, name) : ~Removes(s[q[1]][q[2]])}}
  BY Zenon DEF HeadersFollowPrecedence, LastMention, AllMentions
<1> DEFINE s == Sources(i, m)
           told == [k \in 1 .. 6 |-> AsStrings(s[k])]
           base == HeaderBase(i, m)
           Q == {q \in LastMention(s, name) : ~Removes(s[q[1]][q[2]])}
<1>1. \A k \in 1 .. 6 : s[k] \in Seq(Entries)
  <2>1. \A r \in Refs : heap[r] \in Seq(Entries)
    BY DEF TypeOK, Entries
  <2>2. i \in Instances /\ \A b \in Buckets : at[i][b] \in Refs
    BY DEF TypeOK
  <2>3. {"common", "flat", m} \subseteq Buckets /\ "module" \in Owners
    BY DEF Buckets, HeaderBuckets, Owners
  <2>4. \A b \in Buckets : <<"module", b>> \in Refs
    BY <2>3 DEF Refs
  <2> QED BY <2>1, <2>2, <2>3, <2>4 DEF Sources
<1>2. object \in Values
  BY DEF TypeOK
<1>3. base = MergeSources(s)
  BY DEF CacheIsTransparent, FreshBase
<1> HIDE DEF s, base
<1>4. SaidOf(base, name) = Stays(Highest(s, name))
  BY <1>1, <1>2, <1>3, SourcesSay
<1>5. {Told(s, p[1])[p[2]] : p \in Q} = Stays(Highest(s, name))
  BY <1>1, <1>2, LastMentionIs
<1>6. \A p \in Q : told[p[1]][p[2]] = Told(s, p[1])[p[2]]
  <2>1. \A p \in LastMention(s, name) : p[1] \in 1 .. 6
    BY DEF LastMention, AllMentions
  <2> QED BY <2>1 DEF Told
<1>7. {told[p[1]][p[2]] : p \in Q} = {Told(s, p[1])[p[2]] : p \in Q}
  <2> HIDE DEF told, Q
  <2> QED BY <1>6
<1>8. {base[k] : k \in {j \in DOMAIN base : Same(base[j][1], name)}} = SaidOf(base, name)
  BY DEF SaidOf
<1> QED BY <1>4, <1>5, <1>7, <1>8 DEF s, base

-----------------------------------------------------------------------------
(***************************************************************************)
(* Types: every object keeps each key once, whoever changes it.            *)
(***************************************************************************)

\* An object of application code or of an instance.
IsObject(entries) == entries \in Seq(Entries) /\ KeysOnce(entries)

LEMMA MergeIsObject ==
  ASSUME NEW entries \in Seq(Entries), object \in Values
  PROVE  IsObject(MergeHeaders(AsStrings(entries)))
<1>1. AsStrings(entries) \in Seq(Entries)
  BY ToldAlike
<1> DEFINE t == MergeHeaders(AsStrings(entries))
<1>2. t \in Seq(Entries) /\ NamesOnce(t)
  BY <1>1, MergeSays
<1> HIDE DEF t
<1>3. KeysOnce(t)
  BY <1>2 DEF NamesOnce, KeysOnce, Same
<1> QED BY <1>2, <1>3 DEF IsObject, t

\* mergeHeaderDefaults makes objects of objects.
LEMMA DefaultsAreObjects ==
  ASSUME NEW base, NEW override, object \in Values,
         \A b \in HeaderBuckets : IsObject(base[b]) /\ IsObject(override[b])
  PROVE  \A b \in HeaderBuckets : IsObject(MergeHeaderDefaults(base, override)[b])
<1> DEFINE merged == [b \in Methods \cup {"common"} |->
                        IF override[b] = <<>> THEN base[b]
                        ELSE MergeHeaders(AsStrings(base[b] \o override[b]))]
           own == FlatDefaultHeaders(override["flat"])
<1>1. ASSUME NEW b \in Methods \cup {"common"} PROVE IsObject(merged[b])
  <2>1. IsObject(base[b]) /\ IsObject(override[b])
    BY DEF HeaderBuckets
  <2>2. base[b] \o override[b] \in Seq(Entries)
    BY <2>1, ConcatProperties DEF IsObject
  <2>3. IsObject(MergeHeaders(AsStrings(base[b] \o override[b])))
    BY <2>2, MergeIsObject
  <2> QED BY <2>1, <2>3
<1>2. own \in Seq(Entries)
  <2>1. override["flat"] \in Seq(Entries)
    BY DEF HeaderBuckets, IsObject
  <2> QED BY <2>1, FlatSays
<1> HIDE DEF merged, own
<1>3. IsObject(MergeHeaders(AsStrings(merged["common"] \o own)))
  <2>1. merged["common"] \in Seq(Entries)
    BY <1>1 DEF IsObject
  <2>2. merged["common"] \o own \in Seq(Entries)
    BY <1>2, <2>1, ConcatProperties
  <2> QED BY <2>2, MergeIsObject
<1>4. IsObject(<<>>)
  BY DEF IsObject, KeysOnce
<1>5. MergeHeaderDefaults(base, override)
        = [b \in HeaderBuckets |->
             IF b = "flat" THEN <<>>
             ELSE IF b = "common" /\ HasFlat(override["flat"])
             THEN MergeHeaders(AsStrings(merged["common"] \o own))
             ELSE merged[b]]
  BY DEF MergeHeaderDefaults, merged, own
<1> QED BY <1>1, <1>3, <1>4, <1>5 DEF HeaderBuckets

\* A heap with the objects of an instance made.
LEMMA FilledWithObjects ==
  ASSUME NEW h, NEW i \in Instances, NEW headers, NEW params,
         \A r \in Refs : r[1] # i => IsObject(h[r]),
         \A b \in HeaderBuckets : IsObject(headers[b]), IsObject(params)
  PROVE  /\ Fill(h, i, headers, params) = [r \in Refs |-> Fill(h, i, headers, params)[r]]
         /\ \A r \in Refs : IsObject(Fill(h, i, headers, params)[r])
<1>1. \A r \in Refs : r[2] \in HeaderBuckets \cup {"params"}
  BY DEF Refs, Buckets
<1> QED BY <1>1 DEF Fill

\* Keys once, as the type invariant has it.
LEMMA HeapOfObjects ==
  ASSUME NEW h
  PROVE  (h = [r \in Refs |-> h[r]] /\ \A r \in Refs : IsObject(h[r]))
           <=> (h \in [Refs -> Seq(Names \X HeaderValues)] /\ \A r \in Refs : KeysOnce(h[r]))
  BY DEF IsObject, Entries

HeapOK == heap = [r \in Refs |-> heap[r]] /\ \A r \in Refs : IsObject(heap[r])

LEMMA TypeInit == Init => TypeOK
<1> SUFFICES ASSUME NEW c \in ModuleConfigs,
                    LET given == [r \in Refs |-> IF r[1] = "module" THEN c.objects[r[2]] ELSE <<>>]
                    IN  heap = Fill(given, Root, MergeHeaderDefaults(BuiltIn(c.decompress), c.objects),
                                    c.objects["params"]),
                    object = c.object, live = {Root}, at = [i \in Instances |-> OwnObjects(i)],
                    edits = 0, cache = [i \in Instances |-> [m \in Methods |-> NoCache]], OptionsInv
             PROVE  TypeOK
  BY OptionsInit DEF Init
<1> DEFINE given == [r \in Refs |-> IF r[1] = "module" THEN c.objects[r[2]] ELSE <<>>]
<1>1. object \in Values
  BY ConfigsAssumption
<1>2. \A b \in Buckets : IsObject(c.objects[b])
  BY ConfigsAssumption DEF IsObject, Entries
<1>3. IsObject(<<>>)
  BY DEF IsObject, KeysOnce
<1>4. \A r \in Refs : IsObject(given[r])
  BY <1>2, <1>3 DEF Refs
<1>5. \A b \in HeaderBuckets : IsObject(BuiltIn(c.decompress)[b])
  <2>1. Accept \in Entries /\ AcceptEncoding \in Entries /\ Accept[1] # AcceptEncoding[1]
    BY BuiltInAssumption DEF Entries, HeaderValues
  <2>2. <<Accept, AcceptEncoding>> \in Seq(Entries) /\ <<Accept>> \in Seq(Entries)
    BY <2>1
  <2>3. KeysOnce(<<Accept, AcceptEncoding>>) /\ KeysOnce(<<Accept>>)
    BY <2>1 DEF KeysOnce
  <2> QED BY <1>3, <2>2, <2>3 DEF BuiltIn, IsObject
<1> DEFINE headers == MergeHeaderDefaults(BuiltIn(c.decompress), c.objects)
<1>6. \A b \in HeaderBuckets : IsObject(headers[b])
  <2>1. \A b \in HeaderBuckets : IsObject(c.objects[b])
    BY <1>2 DEF Buckets
  <2> QED BY <1>1, <1>5, <2>1, DefaultsAreObjects
<1> DEFINE params == c.objects["params"]
<1>7. IsObject(params)
  BY <1>2 DEF Buckets
<1>8. heap = Fill(given, Root, headers, params)
  OBVIOUS
<1> HIDE DEF given, headers, params
<1>9. HeapOK
  <2>1. /\ Fill(given, Root, headers, params) = [r \in Refs |-> Fill(given, Root, headers, params)[r]]
        /\ \A r \in Refs : IsObject(Fill(given, Root, headers, params)[r])
    BY <1>4, <1>6, <1>7, RootAssumption, FilledWithObjects
  <2> QED BY <1>8, <2>1 DEF HeapOK
<1>10. heap \in [Refs -> Seq(Names \X HeaderValues)] /\ \A r \in Refs : KeysOnce(heap[r])
  BY <1>9, HeapOfObjects DEF HeapOK
<1>11. at \in [Instances -> [Buckets -> Refs]]
  BY DEF OwnObjects, Refs, Owners
<1>12. live \subseteq Instances /\ Root \in live
  BY RootAssumption
<1>13. edits \in 0 .. MaxEdits
  BY EditsAssumption
<1> QED BY <1>1, <1>10, <1>11, <1>12, <1>13 DEF TypeOK, OptionsInv

\* create() makes objects of its own from objects, and leaves the others alone.
LEMMA TypeCreate ==
  ASSUME TypeOK, OptionsInv', NEW i \in Instances, NEW p \in Instances,
         NEW overridden \in BOOLEAN, NEW o \in Overrides, Create(i, p, overridden, o)
  PROVE  TypeOK'
<1>1. \A r \in Refs : IsObject(heap[r])
  BY HeapOfObjects DEF TypeOK
<1> DEFINE override == [b \in Buckets |-> IF overridden THEN heap[<<"caller", b>>] ELSE <<>>]
           parent == [b \in Buckets |-> heap[at[p][b]]]
           headers == MergeHeaderDefaults(parent, override)
           params == IF override["params"] # <<>> THEN override["params"] ELSE parent["params"]
<1>2. \A b \in Buckets : IsObject(override[b]) /\ IsObject(parent[b])
  <2>1. \A b \in Buckets : <<"caller", b>> \in Refs /\ at[p][b] \in Refs
    BY DEF TypeOK, Refs, Owners
  <2>2. IsObject(<<>>)
    BY DEF IsObject, KeysOnce
  <2> QED BY <1>1, <2>1, <2>2
<1>3. heap' = Fill(heap, i, headers, params)
  BY DEF Create
<1> HIDE DEF override, parent
<1>4. \A b \in HeaderBuckets : IsObject(headers[b])
  <2>1. object \in Values
    BY DEF TypeOK
  <2>2. \A b \in HeaderBuckets : IsObject(parent[b]) /\ IsObject(override[b])
    BY <1>2 DEF Buckets
  <2> QED BY <2>1, <2>2, DefaultsAreObjects
<1>5. IsObject(params)
  BY <1>2 DEF Buckets
<1> HIDE DEF headers, params
<1>6. heap' = [r \in Refs |-> heap'[r]] /\ \A r \in Refs : IsObject(heap'[r])
  BY <1>1, <1>3, <1>4, <1>5, FilledWithObjects
<1>7. heap' \in [Refs -> Seq(Names \X HeaderValues)] /\ \A r \in Refs : KeysOnce(heap'[r])
  BY <1>6, HeapOfObjects
<1>8. at' \in [Instances -> [Buckets -> Refs]]
  BY DEF Create, ChildObjects, OwnObjects, Refs, Owners, TypeOK
<1>9. live' \subseteq Instances /\ Root \in live' /\ live \subseteq live'
  BY DEF Create, TypeOK
<1>10. cache' = cache /\ object' = object /\ edits' = edits
  BY DEF Create
<1> QED BY <1>7, <1>8, <1>9, <1>10 DEF TypeOK, OptionsInv, Cacheable

\* What an object is after an entry is set in it, or deleted.
LEMMA EntrySet ==
  ASSUME NEW s, IsObject(s), NEW name \in Names, NEW value \in HeaderValues
  PROVE  LET known == {k \in DOMAIN s : s[k][1] = name}
         IN  /\ known = {} => IsObject(Append(s, <<name, value>>))
             /\ IsObject([k \in DOMAIN s |-> IF k \in known THEN <<name, value>> ELSE s[k]])
<1> DEFINE known == {k \in DOMAIN s : s[k][1] = name}
           e == <<name, value>>
           t == [k \in DOMAIN s |-> IF k \in known THEN e ELSE s[k]]
           n == Len(s)
<1>1. s \in Seq(Entries) /\ n \in Nat /\ DOMAIN s = 1 .. n /\ e \in Entries /\ e[1] = name
  BY DEF IsObject, Entries
<1>2. ASSUME known = {} PROVE IsObject(Append(s, e))
  <2> DEFINE u == Append(s, e)
  <2>1. /\ u \in Seq(Entries) /\ DOMAIN u = 1 .. (n + 1)
        /\ \A k \in 1 .. (n + 1) : u[k] = IF k = n + 1 THEN e ELSE s[k]
    BY <1>1, AppendProperties
  <2>2. \A k \in 1 .. n : s[k][1] # name
    BY <1>1, <1>2
  <2> HIDE DEF u, n, e
  <2>3. KeysOnce(u)
    BY <1>1, <2>1, <2>2 DEF KeysOnce, IsObject
  <2> QED BY <2>1, <2>3 DEF IsObject, u
<1>3. IsObject(t)
  <2>1. DOMAIN t = 1 .. n /\ \A k \in 1 .. n : t[k] = IF k \in known THEN e ELSE s[k]
    BY <1>1
  <2>2. \A k \in 1 .. n : t[k] \in Entries /\ t[k][1] = s[k][1]
    <3>1. \A k \in 1 .. n : s[k] \in Entries /\ (k \in known => s[k][1] = name)
      BY <1>1, ElementOfSeq
    <3> HIDE DEF n, e, known, t
    <3> QED BY <1>1, <2>1, <3>1
  <2>3. t \in [1 .. n -> Entries]
    BY <1>1, <2>2
  <2> HIDE DEF t, n
  <2>4. t \in Seq(Entries)
    BY <1>1, <2>3
  <2>5. KeysOnce(t)
    BY <1>1, <2>1, <2>2 DEF KeysOnce, IsObject
  <2> QED BY <2>4, <2>5 DEF IsObject
<1> QED BY <1>2, <1>3

\* A change leaves the cache as it was.
LEMMA TypeKept ==
  ASSUME TypeOK, OptionsInv', UNCHANGED <<live, cache>>,
         heap' \in [Refs -> Seq(Names \X HeaderValues)], \A r \in Refs : KeysOnce(heap'[r]),
         at' \in [Instances -> [Buckets -> Refs]], object' \in Values, edits' \in 0 .. MaxEdits
  PROVE  TypeOK'
<1>1. (\A i \in Instances, m \in Methods :
         cache[i][m] # NoCache => i \in live /\ Cacheable(cache[i][m].sources))'
  BY DEF TypeOK, Cacheable
<1>2. Root \in live'
  BY DEF TypeOK
<1>3. (\A r \in Refs : KeysOnce(heap[r]))'
  BY DEF KeysOnce
<1> QED BY <1>1, <1>2, <1>3 DEF TypeOK, OptionsInv

\* Changes through a reference somebody holds.
LEMMA TypeChange ==
  ASSUME TypeOK, OptionsInv', NEW r \in Refs, NEW t, IsObject(t), Edit,
         heap' = [heap EXCEPT ![r] = t], UNCHANGED <<at, object, opt>>
  PROVE  TypeOK'
<1>1. \A q \in Refs : IsObject(heap[q])
  BY HeapOfObjects DEF TypeOK
<1>2. heap = [q \in Refs |-> heap[q]]
  BY DEF TypeOK
<1>3. heap' = [q \in Refs |-> heap'[q]] /\ \A q \in Refs : IsObject(heap'[q])
  BY <1>1, <1>2
<1>4. heap' \in [Refs -> Seq(Names \X HeaderValues)] /\ \A q \in Refs : KeysOnce(heap'[q])
  BY <1>3, HeapOfObjects
<1>5. edits' \in 0 .. MaxEdits
  BY EditsAssumption DEF Edit, TypeOK
<1>6. UNCHANGED <<live, at, object, cache>>
  BY DEF Edit
<1>7. UNCHANGED live /\ at' \in [Instances -> [Buckets -> Refs]] /\ object' \in Values
  BY <1>6 DEF Edit, TypeOK
<1> QED BY <1>4, <1>5, <1>6, <1>7, TypeKept

LEMMA TypeStep ==
  ASSUME TypeOK, CacheInv, OptionsInv, [Next]_vars
  PROVE  TypeOK'
<1>0. OptionsInv'
  BY OptionsStep
<1>1. CASE UNCHANGED vars
  BY <1>1 DEF TypeOK, vars, Cacheable
<1>2. ASSUME NEW i \in Instances, NEW p \in Instances, NEW overridden \in BOOLEAN,
             NEW o \in Overrides, Create(i, p, overridden, o)
      PROVE  TypeOK'
  BY <1>0, <1>2, TypeCreate
<1>3. ASSUME NEW i \in Instances, NEW m \in Methods, Request(i, m)
      PROVE  TypeOK'
  <2> DEFINE new == IF Cacheable(Sources(i, m)) THEN Remembered(i, m) ELSE NoCache
  <2>1. cache' = [cache EXCEPT ![i][m] = new] /\ i \in live
        /\ UNCHANGED <<live, heap, at, object, opt, module, edits>>
    BY <1>3 DEF Request
  <2>2. new # NoCache => Cacheable(new.sources)
    BY DEF Remembered
  <2> HIDE DEF new
  <2>3. ASSUME NEW j \in Instances, NEW n \in Methods, cache'[j][n] # NoCache
        PROVE  j \in live /\ Cacheable(cache'[j][n].sources)
    <3>1. cache'[j][n] = IF j = i /\ n = m THEN new ELSE cache[j][n]
      BY <2>1 DEF CacheInv
    <3> QED BY <2>1, <2>2, <2>3, <3>1 DEF TypeOK
  <2> QED BY <2>1, <2>3 DEF TypeOK, Cacheable
<1>4. ASSUME NEW r \in Held, NEW name \in EditedNames, NEW value \in Edited,
             SetEntry(r, name, value)
      PROVE  TypeOK'
  <2> DEFINE known == {k \in DOMAIN heap[r] : heap[r][k][1] = name}
             t == IF known = {} THEN Append(heap[r], <<name, value>>)
                  ELSE [k \in DOMAIN heap[r] |-> IF k \in known THEN <<name, value>> ELSE heap[r][k]]
  <2>1. r \in Refs /\ name \in Names /\ value \in HeaderValues
    BY EditedAssumption DEF Held, Edited, HeaderValues
  <2>2. IsObject(heap[r])
    BY <2>1, HeapOfObjects DEF TypeOK
  <2>3. IsObject(t)
    BY <2>1, <2>2, EntrySet
  <2>4. heap' = [heap EXCEPT ![r] = t] /\ Edit /\ UNCHANGED <<at, object, opt>>
    BY <1>4, <2>1 DEF SetEntry, TypeOK
  <2> QED BY <1>0, <2>1, <2>3, <2>4, TypeChange
<1>5. ASSUME NEW r \in Held, NEW name \in EditedNames, DeleteEntry(r, name)
      PROVE  TypeOK'
  <2> DEFINE t == Kept(heap[r], {k \in DOMAIN heap[r] : heap[r][k][1] # name})
  <2>1. r \in Refs
    BY DEF Held
  <2>2. IsObject(heap[r])
    BY <2>1, HeapOfObjects DEF TypeOK
  <2>3. IsObject(t)
    BY <2>2, KeptStands, KeptOnce DEF IsObject
  <2>4. heap' = [heap EXCEPT ![r] = t] /\ Edit /\ UNCHANGED <<at, object, opt>>
    BY <1>5, <2>1 DEF DeleteEntry, TypeOK
  <2> QED BY <1>0, <2>1, <2>3, <2>4, TypeChange
<1>6. ASSUME NEW i \in live, NEW b \in Buckets, PutObject(i, b)
      PROVE  TypeOK'
  <2>1. <<"caller", b>> \in Refs /\ i \in Instances
    BY DEF Refs, Owners, TypeOK
  <2>2. at' \in [Instances -> [Buckets -> Refs]] /\ edits' \in 0 .. MaxEdits
    BY <1>6, <2>1, EditsAssumption DEF PutObject, Edit, TypeOK
  <2>3. UNCHANGED <<live, cache, heap, object>>
    BY <1>6 DEF PutObject, Edit
  <2> QED BY <1>0, <2>2, <2>3, TypeKept DEF TypeOK
<1>7. ASSUME NEW value \in Values, ChangeObject(value)
      PROVE  TypeOK'
  <2>1. object' \in Values /\ edits' \in 0 .. MaxEdits
    BY <1>7, EditsAssumption DEF ChangeObject, Edit, TypeOK
  <2>2. UNCHANGED <<live, cache, heap, at>>
    BY <1>7 DEF ChangeObject, Edit
  <2> QED BY <1>0, <2>1, <2>2, TypeKept DEF TypeOK
<1>8. ASSUME NEW i \in live, NEW k \in Options, NEW value \in Edited \ {Object},
             SetOption(i, k, value)
      PROVE  TypeOK'
  <2>1. edits' \in 0 .. MaxEdits
    BY <1>8, EditsAssumption DEF SetOption, Edit, TypeOK
  <2>2. UNCHANGED <<live, cache, heap, at, object>>
    BY <1>8 DEF SetOption, Edit
  <2> QED BY <1>0, <2>1, <2>2, TypeKept DEF TypeOK
<1> QED BY <1>1, <1>2, <1>3, <1>4, <1>5, <1>6, <1>7, <1>8 DEF Next

\* Types: above all, no object ever has a key twice, whatever create() merges
\* and whoever changes it (mergeHeaderDefaults, mergeHeaders).
THEOREM TypesHold == Spec => []TypeOK
<1>1. Init => TypeOK /\ CacheInv /\ OptionsInv
  BY TypeInit, CacheInit, OptionsInit
<1>2. TypeOK /\ CacheInv /\ OptionsInv /\ [Next]_vars => (TypeOK /\ CacheInv /\ OptionsInv)'
  BY TypeStep, CacheStep, OptionsStep
<1>3. QED BY <1>1, <1>2, PTL DEF Spec

\* Under every name, in whatever casing, a request sends what the last entry of
\* the highest source that mentions it says, and nothing if that is null: for any
\* headers in any of the sources, cached or not (normalizeAxiosRequest).
THEOREM PrecedenceHolds == Spec => []HeadersFollowPrecedence
<1>1. TypeOK /\ CacheIsTransparent => HeadersFollowPrecedence
  BY PrecedenceFollows
<1>2. QED BY <1>1, TypesHold, CacheNeverSeen, PTL
=============================================================================
